--------------------------- MODULE ConveyorProofs ---------------------------
(***************************************************************************)
(* Proofs that the conveyor is safe, for every set of objects, strands and  *)
(* threads: ConveyorInv is inductive, and with it no pointer dangles, no    *)
(* callback runs twice, no operation is lost and AsyncIo is implemented.    *)
(***************************************************************************)
EXTENDS EpollServiceProofs, ConveyorInvariant

-----------------------------------------------------------------------------
(* Queues: where the entries are after a step.                              *)

LEMMA AfterEnqueue ==
    ASSUME NEW S, NEW q \in Seq(S), NEW x \in S
    PROVE  /\ DOMAIN q = 1 .. Len(q) /\ DOMAIN Append(q, x) = 1 .. Len(q) + 1
           /\ \A i \in DOMAIN q : i \in DOMAIN Append(q, x) /\ Append(q, x)[i] = q[i]
           /\ Append(q, x)[Len(q) + 1] = x
           /\ \A i \in DOMAIN Append(q, x) : i \in DOMAIN q \/ i = Len(q) + 1
           /\ \A i \in DOMAIN q : i < Len(q) + 1
OBVIOUS

LEMMA AfterDequeue ==
    ASSUME NEW S, NEW q \in Seq(S), q # <<>>
    PROVE  /\ 1 \in DOMAIN q /\ q[1] = Head(q)
           /\ \A i \in DOMAIN Tail(q) :
                 i \in Nat /\ i > 0 /\ i + 1 \in DOMAIN q /\ Tail(q)[i] = q[i + 1]
           /\ \A i \in DOMAIN q \ {1} : i - 1 \in DOMAIN Tail(q) /\ Tail(q)[i - 1] = q[i]
OBVIOUS

LEMMA AfterRequeue ==
    ASSUME NEW S, NEW q \in Seq(S), q # <<>>
    PROVE  /\ 1 \in DOMAIN q /\ q[1] = Head(q)
           /\ DOMAIN q = 1 .. Len(q)
           /\ DOMAIN Append(Tail(q), Head(q)) = DOMAIN q
           /\ \A i \in DOMAIN q \ {Len(q)} :
                 i + 1 \in DOMAIN q /\ Append(Tail(q), Head(q))[i] = q[i + 1]
           /\ Append(Tail(q), Head(q))[Len(q)] = q[1]
OBVIOUS

\* The entries of a set X in a queue: none, or at most one.
LEMMA EnqueueOther ==
    ASSUME NEW S, NEW q \in Seq(S), NEW x \in S, NEW X, x \notin X
    PROVE  /\ NoneOf(q, X) => NoneOf(Append(q, x), X)
           /\ AtMostOne(q, X) => AtMostOne(Append(q, x), X)
BY AfterEnqueue DEF NoneOf, AtMostOne

LEMMA EnqueueOne ==
    ASSUME NEW S, NEW q \in Seq(S), NEW x \in S, NEW X, NoneOf(q, X)
    PROVE  AtMostOne(Append(q, x), X)
BY AfterEnqueue DEF NoneOf, AtMostOne

LEMMA DequeueAny ==
    ASSUME NEW S, NEW q \in Seq(S), q # <<>>, NEW X
    PROVE  /\ NoneOf(q, X) => NoneOf(Tail(q), X) /\ Head(q) \notin X
           /\ AtMostOne(q, X) => AtMostOne(Tail(q), X)
<1>1. ASSUME AtMostOne(q, X), NEW i \in DOMAIN Tail(q), NEW j \in DOMAIN Tail(q),
             Tail(q)[i] \in X, Tail(q)[j] \in X
      PROVE  i = j
    <2>1. /\ i \in Nat /\ i + 1 \in DOMAIN q /\ q[i + 1] \in X
          /\ j \in Nat /\ j + 1 \in DOMAIN q /\ q[j + 1] \in X
        BY <1>1, AfterDequeue
    <2>2. i + 1 = j + 1
        BY <1>1, <2>1 DEF AtMostOne
    <2>3. QED
        BY <2>1, <2>2
<1>2. QED
    BY <1>1, AfterDequeue DEF NoneOf, AtMostOne

LEMMA DequeueOne ==
    ASSUME NEW S, NEW q \in Seq(S), q # <<>>, NEW X, AtMostOne(q, X), Head(q) \in X
    PROVE  ~NoneOf(q, X) /\ NoneOf(Tail(q), X)
<1>1. ASSUME NEW i \in DOMAIN Tail(q), Tail(q)[i] \in X PROVE FALSE
    <2>1. i \in Nat /\ i > 0 /\ i + 1 \in DOMAIN q /\ q[i + 1] \in X
        BY <1>1, AfterDequeue
    <2>2. 1 \in DOMAIN q /\ q[1] \in X
        BY AfterDequeue
    <2>3. i + 1 = 1
        BY <2>1, <2>2 DEF AtMostOne
    <2>4. QED
        BY <2>1, <2>3
<1>2. QED
    BY <1>1, AfterDequeue DEF NoneOf

LEMMA Requeue ==
    ASSUME NEW S, NEW q \in Seq(S), q # <<>>, NEW X
    PROVE  /\ NoneOf(q, X) => NoneOf(Append(Tail(q), Head(q)), X)
           /\ AtMostOne(q, X) => AtMostOne(Append(Tail(q), Head(q)), X)
<1>1. Head(q) \in S /\ Tail(q) \in Seq(S)
    BY Dequeued
<1>2. CASE Head(q) \in X
    BY <1>1, <1>2, DequeueAny, DequeueOne, EnqueueOne
<1>3. CASE Head(q) \notin X
    BY <1>1, <1>3, DequeueAny, EnqueueOther
<1>4. QED
    BY <1>2, <1>3

-----------------------------------------------------------------------------
(* What the steps of each group of threads leave alone.                     *)

LEMMA ReactorFrame ==
    ASSUME Reactor \/ WaitInterrupted
    PROVE  UNCHANGED <<fdOpen, inScope, owner, react, complete, registered, finals,
                       completion, worker, running, upc, uobj, ubits, issued, called>>
BY Zenon DEF Reactor, Wait, WaitInterrupted, Drain, ClearMask, Rearm, RearmFails, MarkActive,
       Dispatch, ReportDone, StartDeletion, Delete, EndDeletion, kernel, events, register, user,
       history

LEMMA CallFrame ==
    ASSUME NEW c \in Thread, Begin(c) \/ Call(c)
    PROVE  UNCHANGED <<hasActive, registered, tasks, rpc, rdesc, revents, rtodo, batch,
                       worker, running, called>>
BY Zenon DEF Begin, Call, Destroy, Initiate, DestroyBegin, Arm, ArmFails, DestroyRemove,
       DestroyClose, Dispose, Interrupt, DestroyEnd, Return, kernel, events, register, reactor,
       user, history

LEMMA TaskFrame ==
    ASSUME NEW w \in Worker, TaskThread(w)
    PROVE  UNCHANGED <<interest, fdOpen, mask, inScope, owner, hasActive, registered, finals,
                       deletion, rpc, rdesc, revents, rtodo, batch, running, upc, uobj, ubits,
                       issued, called>>
BY Zenon DEF TaskThread, TakeTask, React, EnqueueFinal, kernel, events, register, reactor, user,
       history

LEMMA StrandFrame ==
    ASSUME NEW s \in Strand, StrandThread(s)
    PROVE  UNCHANGED <<interest, fdOpen, mask, inScope, deletion, tasks, rpc, rdesc, revents,
                       rtodo, batch, worker, upc, uobj, ubits, issued>>
BY Zenon DEF StrandThread, Complete, CallbackReturn, Final, kernel, events, register, reactor,
       user, history

\* Every step is a step of one of the groups.
LEMMA StepOf ==
    ASSUME [Next]_vars
    PROVE  \/ \E c \in Thread : Begin(c) \/ Call(c)
           \/ Reactor \/ WaitInterrupted
           \/ \E w \in Worker : TaskThread(w)
           \/ \E s \in Strand : StrandThread(s)
           \/ UNCHANGED vars
BY DEF Next

-----------------------------------------------------------------------------
(* Threads and their calls.                                                 *)

LEMMA CallsNext ==
    ASSUME TypeInv, LockHeld, CallsOK, [Next]_vars
    PROVE  CallsOK'
<1>0. /\ owner \in [Desc -> Thread \cup {None}]
      /\ inScope \in [Desc -> BOOLEAN]
      /\ fdOpen \in [Desc -> BOOLEAN]
      /\ running \in [Strand -> Event \cup {None}]
      /\ upc \in [Thread -> {"idle", "armIN", "armOUT", "lock", "close", "dispose", "interrupt"}]
      /\ uobj \in [Thread -> Desc \cup {None}]
      /\ \A c \in Thread : upc[c] # "idle" => uobj[c] # None
      /\ None \notin Desc
      /\ Strand \subseteq Thread
    BY NoneIsNothing DEF TypeInv, TypeOK, BitsOK, Thread
<1> USE DEF CallsOK, WaitsFor, InCallbackOf, Arming
\* A call that starts on an object nobody else calls, or only a waiting destructor.
<1>1. ASSUME NEW c \in Thread, NEW e \in Event, Initiate(c, e) PROVE CallsOK'
    <2>1. /\ e[1] \in Desc /\ inScope[e[1]] /\ upc[c] = "idle" /\ SoleUser(c, e[1])
          /\ \E pc \in {"armIN", "armOUT"} : upc' = [upc EXCEPT ![c] = pc]
          /\ uobj' = [uobj EXCEPT ![c] = e[1]]
          /\ UNCHANGED <<inScope, fdOpen, running>>
        BY <1>1, EventParts DEF Initiate, MayCall, reactor, kernel
    <2>2. QED
        BY <1>0, <2>1 DEF SoleUser
<1>2. ASSUME NEW c \in Thread, NEW d \in Desc, DestroyBegin(c, d) PROVE CallsOK'
    <2>1. /\ inScope[d] /\ upc[c] = "idle" /\ \A o \in Thread : uobj[o] # d
          /\ upc' = [upc EXCEPT ![c] = "lock"]
          /\ uobj' = [uobj EXCEPT ![c] = d]
          /\ UNCHANGED <<inScope, fdOpen, running>>
        BY <1>2 DEF DestroyBegin, MayCall, reactor, kernel
    <2>2. QED
        BY <1>0, <2>1
<1>3. ASSUME NEW c \in Thread, Return(c), UNCHANGED <<inScope, fdOpen, running>>
      PROVE  CallsOK'
    BY <1>0, <1>3 DEF Return
<1>4. ASSUME NEW c \in Thread, Arm(c) \/ ArmFails(c) \/ DestroyEnd(c) PROVE CallsOK'
    BY <1>3, <1>4 DEF Arm, ArmFails, DestroyEnd, kernel
\* Nobody else is in a call: a callback of the object would hold the lock.
<1>5. ASSUME NEW c \in Thread, DestroyRemove(c) PROVE CallsOK'
    <2> DEFINE d == uobj[c]
    <2>1. /\ d \in Desc /\ upc[c] = "lock" /\ owner[d] \in {None, c}
          /\ upc' = [upc EXCEPT ![c] = "close"]
          /\ inScope' = [inScope EXCEPT ![d] = FALSE]
          /\ UNCHANGED <<uobj, fdOpen, running>>
        BY <1>0, <1>5 DEF DestroyRemove, CanLock
    <2>2. \A o \in Thread \ {c} : uobj[o] # d
        <3> SUFFICES ASSUME NEW o \in Thread \ {c}, uobj[o] = d PROVE FALSE
            OBVIOUS
        <3>1. WaitsFor(c, o)
            BY <1>0, <2>1
        <3>2. owner[d] = o
            BY <3>1 DEF LockHeld
        <3>3. QED
            BY <2>1, <3>2, NoneIsNothing
    <2>3. QED
        BY <1>0, <2>1, <2>2
<1>6. ASSUME NEW c \in Thread, DestroyClose(c) PROVE CallsOK'
    BY <1>0, <1>6 DEF DestroyClose
<1>7. ASSUME NEW c \in Thread, Dispose(c) \/ Interrupt(c) PROVE CallsOK'
    <2>1. /\ upc[c] \in {"dispose", "interrupt"}
          /\ \E pc \in {"dispose", "interrupt"} : upc' = [upc EXCEPT ![c] = pc]
          /\ UNCHANGED <<uobj, inScope, fdOpen, running>>
        BY <1>7 DEF Dispose, Interrupt, kernel
    <2>2. QED
        BY <1>0, <2>1
<1>8. ASSUME UNCHANGED <<upc, uobj, inScope, fdOpen, running>> PROVE CallsOK'
    BY <1>8
<1>9. CASE Reactor \/ WaitInterrupted
    BY <1>8, <1>9, ReactorFrame
<1>10. ASSUME NEW w \in Worker, TaskThread(w) PROVE CallsOK'
    BY <1>8, <1>10, TaskFrame
\* A callback does not return while it is in a call.
<1>11. ASSUME NEW s \in Strand, StrandThread(s) PROVE CallsOK'
    <2>1. UNCHANGED <<upc, uobj, inScope, fdOpen>>
        BY <1>11, StrandFrame
    <2>2. running' = running \/ \E e : running' = [running EXCEPT ![s] = e] /\
                                       (running[s] = None \/ upc[s] = "idle")
        BY <1>11, Zenon DEF StrandThread, Complete, CallbackReturn, Final, IsNext
    <2>3. QED
        BY <1>0, <2>1, <2>2
<1>12. CASE UNCHANGED vars
    BY <1>8, <1>12 DEF vars, user, kernel
<1>13. QED
    BY <1>1, <1>2, <1>4, <1>5, <1>6, <1>7, <1>9, <1>10, <1>11, <1>12, StepOf
       DEF Begin, Call, Destroy

-----------------------------------------------------------------------------
(* The reactor.                                                             *)

LEMMA ReactorNext ==
    ASSUME TypeInv, ReactorOK, [Next]_vars
    PROVE  ReactorOK'
<1>0. /\ interest \in [Desc -> SUBSET Bit]
      /\ fdOpen \in [Desc -> BOOLEAN]
      /\ uobj \in [Thread -> Desc \cup {None}]
      /\ \A c \in Thread : upc[c] # "idle" => uobj[c] \in Desc
      /\ rpc \in {"rearm", "mark", "dispatch"} => rdesc \in Desc
    BY DEF TypeInv, TypeOK, BitsOK
<1> USE DEF ReactorOK, kernel, reactor
<1>1. ASSUME NEW c \in Thread, Begin(c) \/ Call(c) PROVE ReactorOK'
    <2>1. UNCHANGED <<rpc, rdesc, batch>>
        BY <1>1, CallFrame
    <2>2. \A d \in Desc : interest'[d] # {} => fdOpen'[d]
        <3>1. CASE Arm(c)
            BY <1>0, <3>1 DEF Arm
        <3>2. CASE DestroyRemove(c)
            BY <1>0, <3>2 DEF DestroyRemove
        <3>3. CASE DestroyClose(c)
            BY <1>0, <3>3 DEF DestroyClose
        <3>4. CASE ~(Arm(c) \/ DestroyRemove(c) \/ DestroyClose(c))
            <4>1. UNCHANGED <<interest, fdOpen>>
                BY <1>1, <3>4 DEF Begin, Call, Destroy, Initiate, DestroyBegin, ArmFails,
                   Dispose, Interrupt, DestroyEnd
            <4>2. QED BY <4>1
        <3>5. QED
            BY <3>1, <3>2, <3>3, <3>4
    <2>3. QED
        BY <2>1, <2>2
<1>2. CASE Wait
    <2>1. \A d \in Desc : interest'[d] # {} => interest[d] # {}
        BY <1>2, WaitReports
    <2>2. QED
        BY <1>2, <2>1 DEF Wait
<1>3. CASE Drain \/ ClearMask \/ MarkActive \/ Dispatch \/ ReportDone \/ Delete \/ RearmFails
    BY <1>3 DEF Drain, ClearMask, MarkActive, Dispatch, ReportDone, Delete, RearmFails
<1>4. CASE Rearm
    BY <1>0, <1>4 DEF Rearm
<1>5. CASE WaitInterrupted \/ StartDeletion \/ EndDeletion
    BY <1>5 DEF WaitInterrupted, StartDeletion, EndDeletion, BatchDone
<1>6. ASSUME NEW w \in Worker, TaskThread(w) PROVE ReactorOK'
    BY <1>6, TaskFrame
<1>7. ASSUME NEW s \in Strand, StrandThread(s) PROVE ReactorOK'
    BY <1>7, StrandFrame
<1>8. CASE UNCHANGED vars
    BY <1>8 DEF vars
<1>9. QED
    BY <1>1, <1>2, <1>3, <1>4, <1>5, <1>6, <1>7, <1>8, StepOf DEF Reactor

-----------------------------------------------------------------------------
(* epoll reports armed files only, and disarms them.                        *)

LEMMA ReportedWereArmed ==
    ASSUME Wait
    PROVE  /\ \A r \in batch' :
                 /\ r.desc \in Desc /\ interest[r.desc] # {} /\ interest'[r.desc] = {}
                 /\ r.events \in Reportable(r.desc)
                 /\ \A q \in batch' : q.desc = r.desc => q = r
           /\ \A d \in Desc : interest'[d] = interest[d] \/ interest'[d] = {}
<1>1. PICK D \in SUBSET {d \in Desc : interest[d] # {}}, w \in {FALSE, wake} :
        \E ready \in {f \in [D -> SUBSET Flag] : \A d \in D : f[d] \in Reportable(d)} :
            /\ batch' = {[desc |-> d, events |-> ready[d]] : d \in D}
            /\ interest' = [d \in Desc |-> IF d \in D THEN {} ELSE interest[d]]
            /\ woken' = w
    BY WaitReports
<1>2. PICK ready \in [D -> SUBSET Flag] :
        /\ \A d \in D : ready[d] \in Reportable(d)
        /\ batch' = {[desc |-> d, events |-> ready[d]] : d \in D}
        /\ interest' = [d \in Desc |-> IF d \in D THEN {} ELSE interest[d]]
    BY <1>1
<1>3. ASSUME NEW r \in batch' PROVE \E d \in D : r = [desc |-> d, events |-> ready[d]]
    BY <1>2
<1>4. ASSUME NEW r \in batch'
      PROVE  /\ r.desc \in Desc /\ interest[r.desc] # {} /\ interest'[r.desc] = {}
             /\ r.events \in Reportable(r.desc)
             /\ \A q \in batch' : q.desc = r.desc => q = r
    <2>1. PICK d \in D : r = [desc |-> d, events |-> ready[d]]
        BY <1>3
    <2>2. r.desc = d /\ r.events = ready[d] /\ d \in Desc
        BY <2>1
    <2>3. ASSUME NEW q \in batch', q.desc = r.desc PROVE q = r
        <3>1. PICK c \in D : q = [desc |-> c, events |-> ready[c]]
            BY <1>3
        <3>2. QED
            BY <2>1, <2>3, <3>1
    <2>4. QED
        BY <1>2, <2>2, <2>3
<1>5. QED
    BY <1>2, <1>4

-----------------------------------------------------------------------------
(* Final events.                                                            *)

\* The type invariant, for the variables of queues and calls.
LEMMA Types ==
    ASSUME TypeInv
    PROVE  /\ deletion \in Seq(Event) /\ tasks \in Seq(Task)
           /\ completion \in [Strand -> Seq(Completion)]
           /\ worker \in [Worker -> Task \cup {None}]
           /\ running \in [Strand -> Event \cup {None}]
           /\ finals \subseteq Event /\ registered \subseteq Event
           /\ upc \in [Thread -> {"idle", "armIN", "armOUT", "lock", "close", "dispose",
                                  "interrupt"}]
           /\ uobj \in [Thread -> Desc \cup {None}]
           /\ ubits \in [Thread -> SUBSET Bit]
           /\ inScope \in [Desc -> BOOLEAN] /\ fdOpen \in [Desc -> BOOLEAN]
           /\ react \in [Event -> Nat] /\ complete \in [Event -> Nat]
           /\ issued \in [Event -> Nat] /\ called \in [Event -> Nat]
           /\ hasActive \in [Event -> BOOLEAN]
           /\ \A c \in Thread : upc[c] # "idle" => uobj[c] \in Desc
           /\ \A e \in Event : e[1] \in Desc /\ e[2] \in Bits(e[1]) /\ e = <<e[1], e[2]>>
           /\ \A d \in Desc : StrandOf[d] \in Strand
           /\ None \notin Desc /\ None \notin Task /\ None \notin Event
           /\ Strand \subseteq Thread
BY EventParts, StrandOfType, NoneIsNothing, ServiceAssumption
   DEF TypeInv, TypeOK, BitsOK, Task, Event, Thread

\* The event a call of dispose takes.
LEMMA DisposedEvent ==
    ASSUME TypeInv, CallsOK, TakenOnce, NEW c \in Thread, Dispose(c)
    PROVE  LET e == <<uobj[c], First(ubits[c])>> IN
           /\ e \in Event /\ e \notin finals /\ e \in registered
           /\ ~inScope[e[1]] /\ ~fdOpen[e[1]]
           /\ \A o \in Thread \ {c} : uobj[o] # e[1]
<1> DEFINE e == <<uobj[c], First(ubits[c])>>
<1>1. upc[c] = "dispose" /\ ubits[c] # {} /\ uobj[c] \in Desc
    BY Types DEF Dispose
<1>2. First(ubits[c]) \in ubits[c] /\ ubits[c] \subseteq Bits(uobj[c])
    BY <1>1, Types, FirstMember DEF TypeInv, BitsOK
<1>3. e \in Event
    BY <1>1, <1>2, EventMember
<1>4. e \notin finals /\ e \in registered
    BY <1>1, <1>2, <1>3 DEF TakenOnce
<1>5. ~inScope[e[1]] /\ ~fdOpen[e[1]]
    BY <1>1 DEF CallsOK
<1>6. \A o \in Thread \ {c} : uobj[o] # e[1]
    BY <1>1, Types DEF CallsOK, WaitsFor, Arming
<1>7. QED
    BY <1>3, <1>4, <1>5, <1>6

\* The event a strand gives back: taken, and past every report.
LEMMA FinalOnStrand ==
    ASSUME TypeInv, StrandsOK, OneFinalPlace, NEW s \in Strand, IsNext(s, TRUE)
    PROVE  LET e == Head(completion[s]).event IN
           /\ e \in Event /\ e \in finals /\ StrandOf[e[1]] = s
           /\ Head(completion[s]) = [event |-> e, final |-> TRUE]
           /\ FinalAt(e, "strand")
<1> DEFINE e == Head(completion[s]).event
<1>1. /\ completion[s] \in Seq(Completion) /\ completion[s] # <<>>
      /\ Head(completion[s]).final = TRUE
    BY Types DEF IsNext
<1>2. 1 \in DOMAIN completion[s] /\ completion[s][1] = Head(completion[s])
    BY <1>1, AfterDequeue
<1>3. Head(completion[s]) \in Completion
    BY <1>1, Dequeued
<1>4. e \in Event /\ Head(completion[s]) = [event |-> e, final |-> TRUE]
    BY <1>1, <1>3 DEF Completion
<1>5. StrandOf[e[1]] = s
    BY <1>2 DEF StrandsOK
<1>6. PICK place \in FinalPlace : FinalAt(e, place)
    BY <1>4 DEF OneFinalPlace
<1>7. place = "strand"
    BY <1>2, <1>4, <1>5, <1>6 DEF FinalAt, OnlyIf, NoneOf, FinalCompletion
<1>8. e \in finals
    BY <1>6, <1>7 DEF FinalAt
<1>9. QED
    BY <1>4, <1>5, <1>6, <1>7, <1>8

LEMMA TakenNext ==
    ASSUME TypeInv, CallsOK, StrandsOK, TakenOnce, OneFinalPlace, [Next]_vars
    PROVE  TakenOnce'
<1> USE Types DEF TakenOnce, kernel, register, user
<1>1. ASSUME NEW c \in Thread, NEW e \in Event, Initiate(c, e) PROVE TakenOnce'
    <2>1. /\ inScope[e[1]]
          /\ uobj' = [uobj EXCEPT ![c] = e[1]]
          /\ \E pc : upc' = [upc EXCEPT ![c] = pc]
          /\ \E bits : ubits' = [ubits EXCEPT ![c] = bits]
          /\ UNCHANGED <<inScope, fdOpen, registered, finals>>
        BY <1>1 DEF Initiate
    <2>2. QED
        BY <2>1
<1>2. ASSUME NEW c \in Thread, NEW d \in Desc, DestroyBegin(c, d) PROVE TakenOnce'
    BY <1>2 DEF DestroyBegin
<1>3. ASSUME NEW c \in Thread, Return(c), UNCHANGED <<inScope, fdOpen, finals, registered>>
      PROVE  TakenOnce'
    BY <1>3 DEF Return
<1>4. ASSUME NEW c \in Thread, Arm(c) \/ ArmFails(c) \/ DestroyEnd(c) PROVE TakenOnce'
    BY <1>3, <1>4 DEF Arm, ArmFails, DestroyEnd
\* A destructor finds no event of its object taken until it takes them itself.
<1>5. ASSUME NEW c \in Thread, DestroyRemove(c) PROVE TakenOnce'
    BY <1>5 DEF DestroyRemove, CallsOK
<1>6. ASSUME NEW c \in Thread, DestroyClose(c) PROVE TakenOnce'
    BY <1>6 DEF DestroyClose
<1>7. ASSUME NEW c \in Thread, Dispose(c) PROVE TakenOnce'
    <2> DEFINE e == <<uobj[c], First(ubits[c])>>
    <2>1. /\ e \in Event /\ e \notin finals /\ e \in registered
          /\ ~inScope[e[1]] /\ ~fdOpen[e[1]]
          /\ \A o \in Thread \ {c} : uobj[o] # e[1]
        BY <1>7, DisposedEvent
    <2>2. /\ finals' = finals \cup {e}
          /\ ubits' = [ubits EXCEPT ![c] = @ \ {e[2]}]
          /\ upc' = [upc EXCEPT ![c] = "interrupt"]
          /\ UNCHANGED <<uobj, registered, inScope, fdOpen>>
        BY <1>7 DEF Dispose
    <2>3. QED
        BY <2>1, <2>2
<1>8. ASSUME NEW c \in Thread, Interrupt(c) PROVE TakenOnce'
    BY <1>8 DEF Interrupt
<1>9. CASE Reactor \/ WaitInterrupted
    BY <1>9, ReactorFrame
<1>10. ASSUME NEW w \in Worker, TaskThread(w) PROVE TakenOnce'
    BY <1>10, TaskFrame
<1>11. ASSUME NEW s \in Strand, Complete(s) \/ CallbackReturn(s) PROVE TakenOnce'
    <2>1. UNCHANGED <<registered, finals>>
        BY <1>11 DEF Complete, CallbackReturn
    <2>2. UNCHANGED <<uobj, upc, ubits, inScope, fdOpen>>
        BY <1>11, StrandFrame DEF StrandThread
    <2>3. QED
        BY <2>1, <2>2
<1>12. ASSUME NEW s \in Strand, Final(s) PROVE TakenOnce'
    <2> DEFINE e == Head(completion[s]).event
    <2>1. e \in Event /\ e \in finals
        BY <1>12, FinalOnStrand DEF Final
    <2>2. UNCHANGED <<uobj, upc, ubits, inScope, fdOpen>>
        BY <1>12, StrandFrame DEF StrandThread
    <2>3. \/ UNCHANGED <<registered, finals>>
          \/ registered' = registered \ {e} /\ finals' = finals \ {e}
        BY <1>12 DEF Final
    <2>4. QED
        BY <2>1, <2>2, <2>3
<1>13. CASE UNCHANGED vars
    BY <1>13 DEF vars
<1>14. QED
    BY <1>1, <1>2, <1>4, <1>5, <1>6, <1>7, <1>8, <1>9, <1>10, <1>11, <1>12, <1>13, StepOf
       DEF Begin, Call, Destroy, StrandThread

LEMMA GivenNext ==
    ASSUME TypeInv, CallsOK, TakenOnce, GivenEmpty, [Next]_vars
    PROVE  GivenEmpty'
<1> USE Types DEF GivenEmpty, events, register
<1>1. ASSUME NEW c \in Thread, NEW e \in Event, Initiate(c, e) PROVE GivenEmpty'
    <2>1. e \in registered
        BY <1>1 DEF Initiate, TakenOnce
    <2>2. QED
        BY <1>1, <2>1 DEF Initiate
<1>2. ASSUME NEW c \in Thread, ArmFails(c) PROVE GivenEmpty'
    <2> DEFINE e == ArmedEvent(c)
    <2>1. e \in Event /\ inScope[e[1]]
        BY <1>2, EventMember DEF ArmFails, ArmedEvent, TypeInv, BitsOK, CallsOK, Arming
    <2>2. e \in registered
        BY <2>1 DEF TakenOnce
    <2> HIDE DEF e
    <2>3. /\ complete' = [complete EXCEPT ![e] = issued[e]]
          /\ react' = [react EXCEPT ![e] = 0]
          /\ UNCHANGED registered
        BY <1>2 DEF ArmFails, e
    <2>4. QED
        BY <2>1, <2>2, <2>3
<1>3. ASSUME NEW c \in Thread, Begin(c) \/ Call(c),
             ~ArmFails(c), ~\E e \in Event : Initiate(c, e)
      PROVE  GivenEmpty'
    <2>1. UNCHANGED <<react, complete, registered>>
        BY <1>3, Zenon DEF Begin, Call, Destroy, DestroyBegin, Arm, DestroyRemove, DestroyClose,
           Dispose, Interrupt, DestroyEnd
    <2>2. QED
        BY <2>1
<1>4. CASE Reactor \/ WaitInterrupted
    BY <1>4, ReactorFrame
<1>5. ASSUME NEW w \in Worker, React(w) PROVE GivenEmpty'
    <2> DEFINE e == worker[w].event
    <2>1. e \in Event
        BY <1>5 DEF React, Task
    <2>2. /\ react[e] # 0
          /\ complete' = [complete EXCEPT ![e] = react[e]]
          /\ react' = [react EXCEPT ![e] = 0]
          /\ UNCHANGED registered
        BY <1>5 DEF React
    <2>3. QED
        BY <2>1, <2>2
<1>6. ASSUME NEW w \in Worker, TakeTask(w) \/ EnqueueFinal(w) PROVE GivenEmpty'
    BY <1>6 DEF TakeTask, EnqueueFinal
<1>7. ASSUME NEW s \in Strand, Complete(s) \/ CallbackReturn(s) PROVE GivenEmpty'
    <2>1. /\ react' = react /\ registered' = registered
          /\ \A e \in Event : complete'[e] = complete[e] \/ complete'[e] = 0
        BY <1>7 DEF Complete, CallbackReturn
    <2>2. QED
        BY <2>1
<1>8. ASSUME NEW s \in Strand, Final(s) PROVE GivenEmpty'
    <2> DEFINE e == Head(completion[s]).event
    <2>1. \/ UNCHANGED <<react, complete, registered>>
          \/ /\ registered' = registered \ {e}
             /\ react' = [react EXCEPT ![e] = 0] /\ complete' = [complete EXCEPT ![e] = 0]
        BY <1>8, Zenon DEF Final
    <2> HIDE DEF e
    <2>2. QED
        BY <2>1
<1>9. CASE UNCHANGED vars
    BY <1>9 DEF vars
<1>10. QED
    BY <1>1, <1>2, <1>3, <1>4, <1>5, <1>6, <1>7, <1>8, <1>9, StepOf
       DEF TaskThread, StrandThread

\* The entry a strand dequeues, without and with its event given back.
LEMMA OperationOnStrand ==
    ASSUME TypeInv, StrandsOK, NEW s \in Strand, IsNext(s, FALSE)
    PROVE  LET e == Head(completion[s]).event IN
           /\ e \in Event /\ StrandOf[e[1]] = s
           /\ 1 \in DOMAIN completion[s]
           /\ completion[s][1] = [event |-> e, final |-> FALSE]
<1> DEFINE e == Head(completion[s]).event
<1>1. /\ completion[s] \in Seq(Completion) /\ completion[s] # <<>>
      /\ Head(completion[s]).final = FALSE
    BY Types DEF IsNext
<1>2. 1 \in DOMAIN completion[s] /\ completion[s][1] = Head(completion[s])
    BY <1>1, AfterDequeue
<1>3. Head(completion[s]) \in Completion
    BY <1>1, Dequeued
<1>4. e \in Event /\ completion[s][1] = [event |-> e, final |-> FALSE]
    BY <1>1, <1>2, <1>3 DEF Completion
<1>5. StrandOf[e[1]] = s
    BY <1>2 DEF StrandsOK
<1>6. QED
    BY <1>2, <1>4, <1>5

LEMMA StrandsNext ==
    ASSUME TypeInv, StrandsOK, GivenEmpty, OneFinalPlace, [Next]_vars
    PROVE  StrandsOK'
<1> USE Types DEF StrandsOK
\* An entry for the strand of its event.
<1>1. ASSUME NEW e \in Event, NEW final,
             completion' = [completion EXCEPT ![StrandOf[e[1]]] =
                               Append(@, [event |-> e, final |-> final])],
             final \in BOOLEAN, UNCHANGED <<running, registered>>
      PROVE  StrandsOK'
    <2> DEFINE s == StrandOf[e[1]]
               x == [event |-> e, final |-> final]
    <2>1. s \in Strand /\ completion[s] \in Seq(Completion) /\ x \in Completion
        BY <1>1 DEF Completion
    <2>2. StrandOf[x.event[1]] = s
        OBVIOUS
    <2> HIDE DEF x, s
    <2>3. completion' = [completion EXCEPT ![s] = Append(completion[s], x)]
        BY <1>1 DEF s, x
    <2>4. \A i \in DOMAIN completion'[s] : StrandOf[completion'[s][i].event[1]] = s
        BY <2>1, <2>2, <2>3, AfterEnqueue
    <2>5. QED
        BY <1>1, <2>1, <2>3, <2>4
<1>2. ASSUME NEW c \in Thread, ArmFails(c) PROVE StrandsOK'
    <2>1. ArmedEvent(c) \in Event /\ ArmedEvent(c)[1] = uobj[c]
        BY <1>2, EventMember DEF ArmFails, ArmedEvent, TypeInv, BitsOK
    <2>2. QED
        BY <1>1, <1>2, <2>1 DEF ArmFails, register
<1>3. ASSUME NEW w \in Worker, React(w) \/ EnqueueFinal(w) PROVE StrandsOK'
    <2>1. worker[w].event \in Event
        <3>1. worker[w] # None
            BY <1>3, Zenon DEF React, EnqueueFinal
        <3>2. worker[w] \in Task
            BY <3>1
        <3>3. QED
            BY <3>2 DEF Task
    <2>2. QED
        BY <1>1, <1>3, <2>1 DEF React, EnqueueFinal, register
<1>4. ASSUME NEW s \in Strand, completion[s] # <<>>,
             completion' = [completion EXCEPT ![s] = Tail(@)]
      PROVE  \A t \in Strand : \A i \in DOMAIN completion'[t] :
                StrandOf[completion'[t][i].event[1]] = t
    <2>1. completion[s] \in Seq(Completion)
        OBVIOUS
    <2>2. \A i \in DOMAIN completion'[s] : StrandOf[completion'[s][i].event[1]] = s
        BY <1>4, <2>1, AfterDequeue
    <2>3. QED
        BY <1>4, <2>2
<1>5. ASSUME NEW s \in Strand, Complete(s) PROVE StrandsOK'
    <2> DEFINE e == Head(completion[s]).event
    <2>1. e \in Event /\ StrandOf[e[1]] = s /\ e \in registered
        BY <1>5, OperationOnStrand DEF Complete, GivenEmpty
    <2>2. completion[s] # <<>> /\ completion' = [completion EXCEPT ![s] = Tail(@)]
        BY <1>5 DEF Complete, IsNext
    <2>3. registered' = registered /\ (running' = running \/ running' = [running EXCEPT ![s] = e])
        BY <1>5 DEF Complete, register
    <2>4. \A t \in Strand : \A i \in DOMAIN completion'[t] :
             StrandOf[completion'[t][i].event[1]] = t
        BY <1>4, <2>2
    <2> HIDE DEF e
    <2>5. \A t \in Strand :
             running'[t] # None => StrandOf[running'[t][1]] = t /\ running'[t] \in registered'
        BY <2>1, <2>3
    <2>6. QED
        BY <2>4, <2>5
<1>6. ASSUME NEW s \in Strand, CallbackReturn(s) PROVE StrandsOK'
    BY <1>6 DEF CallbackReturn, register
<1>7. ASSUME NEW s \in Strand, Final(s) PROVE StrandsOK'
    <2> DEFINE e == Head(completion[s]).event
    <2>1. e \in Event /\ StrandOf[e[1]] = s /\ running[s] = None /\ completion[s] # <<>>
        BY <1>7, FinalOnStrand DEF Final, IsNext
    <2>2. running' = running
        BY <1>7 DEF Final
    <2>3. CASE Postponed(e)
        <3> DEFINE q == Append(Tail(completion[s]), Head(completion[s]))
        <3>1. completion' = [completion EXCEPT ![s] = q]
            BY <1>7, <2>3, Zenon DEF Final
        <3>2. completion[s] \in Seq(Completion)
            OBVIOUS
        <3>3. \A i \in DOMAIN q : \E j \in DOMAIN completion[s] : q[i] = completion[s][j]
            <4>1. ASSUME NEW i \in DOMAIN q, i # Len(completion[s])
                  PROVE  i + 1 \in DOMAIN completion[s] /\ q[i] = completion[s][i + 1]
                BY <2>1, <3>2, <4>1, AfterRequeue
            <4>2. 1 \in DOMAIN completion[s] /\ q[Len(completion[s])] = completion[s][1]
                BY <2>1, <3>2, AfterRequeue
            <4>3. QED
                BY <4>1, <4>2
        <3> HIDE DEF q
        <3>4. registered' = registered
            BY <1>7, <2>3 DEF Final, register
        <3>5. QED
            BY <2>2, <3>1, <3>3, <3>4
    <2>4. CASE ~Postponed(e)
        <3>1. registered' = registered \ {e} /\ completion' = [completion EXCEPT ![s] = Tail(@)]
            BY <1>7, <2>4 DEF Final
        <3>2. \A t \in Strand : \A i \in DOMAIN completion'[t] :
                 StrandOf[completion'[t][i].event[1]] = t
            BY <1>4, <2>1, <3>1
        <3> HIDE DEF e
        <3>3. \A t \in Strand : running[t] # None => running[t] # e
            BY <2>1
        <3>4. QED
            BY <2>2, <3>1, <3>2, <3>3
    <2>5. QED
        BY <2>3, <2>4
<1>8. ASSUME UNCHANGED <<completion, running, registered>> PROVE StrandsOK'
    BY <1>8
<1>9. ASSUME NEW c \in Thread, Begin(c) \/ Call(c), ~ArmFails(c) PROVE StrandsOK'
    <2>1. completion' = completion
        BY <1>9, Zenon DEF Begin, Call, Destroy, Initiate, DestroyBegin, Arm, DestroyRemove,
           DestroyClose, Dispose, Interrupt, DestroyEnd
    <2>2. QED
        BY <1>8, <1>9, <2>1, CallFrame
<1>10. CASE Reactor \/ WaitInterrupted
    BY <1>8, <1>10, ReactorFrame
<1>11. ASSUME NEW w \in Worker, TakeTask(w) PROVE StrandsOK'
    BY <1>8, <1>11 DEF TakeTask, register
<1>12. CASE UNCHANGED vars
    BY <1>8, <1>12 DEF vars, register
<1>13. QED
    BY <1>2, <1>3, <1>5, <1>6, <1>7, <1>9, <1>10, <1>11, <1>12, StepOf
       DEF TaskThread, StrandThread

LEMMA FinalPlaceNext ==
    ASSUME TypeInv, CallsOK, ReactorOK, StrandsOK, TakenOnce, OneFinalPlace, [Next]_vars
    PROVE  OneFinalPlace'
<1> SUFFICES ASSUME NEW e \in Event, NEW place \in FinalPlace, FinalAt(e, place)
             PROVE  \E p \in FinalPlace : FinalAt(e, p)'
    BY DEF OneFinalPlace
<1> DEFINE d == e[1]
           s == StrandOf[d]
<1> USE Types DEF FinalPlace
<1>0. /\ deletion \in Seq(Event) /\ tasks \in Seq(Task) /\ completion[s] \in Seq(Completion)
      /\ worker \in [Worker -> Task \cup {None}]
      /\ FinalTask(e) # None
    BY DEF Task, FinalTask
\* Nothing happens to final events, and no report appears.
<1>1. ASSUME UNCHANGED <<deletion, tasks, worker, completion, registered>>,
             finals' = finals,
             \/ rdesc' # d /\ \A r \in batch' : r.desc # d
             \/ rdesc = d \/ \E r \in batch : r.desc = d
      PROVE  FinalAt(e, place)'
    BY <1>1 DEF FinalAt, OnlyIf, AtMostOne, NoneOf
\* An entry that is not final is enqueued on a strand.
<1>2. ASSUME NEW a \in Event,
             completion' = [completion EXCEPT ![StrandOf[a[1]]] =
                               Append(@, [event |-> a, final |-> FALSE])]
      PROVE  /\ AtMostOne(completion[s], {FinalCompletion(e)})
                    => AtMostOne(completion'[s], {FinalCompletion(e)})
             /\ NoneOf(completion[s], {FinalCompletion(e)})
                    => NoneOf(completion'[s], {FinalCompletion(e)})
    <2> DEFINE y == [event |-> a, final |-> FALSE]
    <2>1. y \in Completion /\ y \notin {FinalCompletion(e)}
        BY DEF Completion, FinalCompletion
    <2> HIDE DEF y
    <2>2. CASE StrandOf[a[1]] = s
        <3>1. completion'[s] = Append(completion[s], y)
            BY <1>2, <2>2 DEF y
        <3>2. QED
            BY <1>0, <2>1, <3>1, EnqueueOther
    <2>3. CASE StrandOf[a[1]] # s
        BY <1>2, <2>3
    <2>4. QED
        BY <2>2, <2>3
<1>3. ASSUME NEW c \in Thread, Dispose(c) PROVE \E p \in FinalPlace : FinalAt(e, p)'
    <2> DEFINE a == <<uobj[c], First(ubits[c])>>
    <2>1. a \in Event /\ a \notin finals /\ a \in registered
        BY <1>3, DisposedEvent
    <2>2. /\ deletion' = Append(deletion, a) /\ finals' = finals \cup {a}
          /\ UNCHANGED <<tasks, worker, completion, registered, rdesc, batch>>
        BY <1>3 DEF Dispose, reactor
    <2> HIDE DEF a
    <2>3. CASE a = e
        <3>1. place \in {"none", "given"}
            BY <2>1, <2>3 DEF FinalAt
        <3>2. AtMostOne(deletion', {e})
            BY <1>0, <2>2, <2>3, <3>1, EnqueueOne DEF FinalAt, OnlyIf
        <3>3. FinalAt(e, "deletion")'
            BY <2>1, <2>2, <2>3, <3>1, <3>2 DEF FinalAt, OnlyIf
        <3>4. QED
            BY <3>3
    <2>4. CASE a # e
        <3>1. /\ NoneOf(deletion, {e}) => NoneOf(deletion', {e})
              /\ AtMostOne(deletion, {e}) => AtMostOne(deletion', {e})
            BY <1>0, <2>1, <2>2, <2>4, EnqueueOther
        <3>2. FinalAt(e, place)'
            BY <2>1, <2>2, <2>4, <3>1 DEF FinalAt, OnlyIf
        <3>3. QED
            BY <3>2
    <2>5. QED
        BY <2>3, <2>4
<1>4. ASSUME NEW c \in Thread, ArmFails(c) PROVE FinalAt(e, place)'
    <2>1. ArmedEvent(c) \in Event /\ ArmedEvent(c)[1] = uobj[c]
        BY <1>4, EventMember DEF ArmFails, ArmedEvent, TypeInv, BitsOK
    <2>2. UNCHANGED <<deletion, tasks, worker, registered, finals, rdesc, batch>>
        BY <1>4 DEF ArmFails, register, reactor
    <2>3. QED
        BY <1>2, <1>4, <2>1, <2>2 DEF ArmFails, FinalAt, OnlyIf
<1>5. ASSUME NEW c \in Thread, Begin(c) \/ Call(c), ~Dispose(c), ~ArmFails(c)
      PROVE  FinalAt(e, place)'
    <2>1. UNCHANGED <<deletion, completion, finals>>
        BY <1>5, Zenon DEF Begin, Call, Destroy, Initiate, DestroyBegin, Arm, DestroyRemove,
           DestroyClose, Interrupt, DestroyEnd, register
    <2>2. QED
        BY <1>1, <1>5, <2>1, CallFrame
\* epoll reports open files only.
<1>6. CASE Wait
    <2>1. UNCHANGED <<deletion, tasks, worker, completion, registered, finals, rdesc>>
        BY <1>6, Zenon DEF Wait, register
    <2>2. \A r \in batch' : fdOpen[r.desc]
        BY <1>6, ReportedWereArmed DEF ReactorOK
    <2>3. place \in {"task", "worker", "strand", "given"} /\ (e \in finals \/ e \notin registered)
              => \A r \in batch' : r.desc # d
        BY <2>2 DEF TakenOnce
    <2>4. CASE place = "given" /\ e \in registered /\ e \notin finals
        <3>1. FinalAt(e, "none")'
            BY <2>1, <2>4 DEF FinalAt, OnlyIf, AtMostOne, NoneOf
        <3>2. QED
            BY <3>1
    <2>5. CASE ~(place = "given" /\ e \in registered /\ e \notin finals)
        <3>1. FinalAt(e, place)'
            BY <2>1, <2>3, <2>5 DEF FinalAt, OnlyIf, AtMostOne, NoneOf
        <3>2. QED
            BY <3>1
    <2>6. QED
        BY <2>4, <2>5
<1>7. CASE Dispatch
    <2> DEFINE t == [event |-> <<rdesc, First(rtodo)>>, code |-> CodeOf(First(rtodo))]
    <2>1. t \in Task /\ t \notin {FinalTask(e)}
        BY <1>7, EventMember, FirstMember DEF Dispatch, Task, CodeOf, FinalTask, TypeInv, TypeOK,
           BitsOK
    <2>2. /\ tasks' = Append(tasks, t)
          /\ UNCHANGED <<deletion, worker, completion, registered, finals, rdesc, batch>>
        BY <1>7 DEF Dispatch, register
    <2> HIDE DEF t
    <2>3. /\ NoneOf(tasks, {FinalTask(e)}) => NoneOf(tasks', {FinalTask(e)})
          /\ AtMostOne(tasks, {FinalTask(e)}) => AtMostOne(tasks', {FinalTask(e)})
        BY <1>0, <2>1, <2>2, EnqueueOther
    <2>4. QED
        BY <2>2, <2>3 DEF FinalAt, OnlyIf
\* The reactor has handled every report when it empties the deletion queue.
<1>8. CASE Delete
    <2> DEFINE a == Head(deletion)
    <2>1. a \in Event /\ deletion # <<>> /\ FinalTask(a) \in Task
        BY <1>8, <1>0, Dequeued DEF Delete, FinalTask, Task
    <2>2. /\ deletion' = Tail(deletion) /\ tasks' = Append(tasks, FinalTask(a))
          /\ rdesc' # d /\ \A r \in batch' : r.desc # d
          /\ UNCHANGED <<worker, completion, registered, finals>>
        BY <1>8 DEF Delete, FinalTask, register, reactor, ReactorOK
    <2> HIDE DEF a
    <2>3. CASE a = e
        <3>1. place = "deletion" /\ NoneOf(deletion', {e}) /\ AtMostOne(deletion', {e})
            BY <1>0, <2>1, <2>2, <2>3, DequeueOne, DequeueAny DEF FinalAt, OnlyIf, a
        <3>2. AtMostOne(tasks', {FinalTask(e)})
            BY <1>0, <2>1, <2>2, <2>3, <3>1, EnqueueOne DEF FinalAt, OnlyIf
        <3>3. FinalAt(e, "task")'
            BY <2>2, <3>1, <3>2 DEF FinalAt, OnlyIf
        <3>4. QED
            BY <3>3
    <2>4. CASE a # e
        <3>1. /\ NoneOf(deletion, {e}) => NoneOf(deletion', {e})
              /\ AtMostOne(deletion, {e}) => AtMostOne(deletion', {e})
            BY <1>0, <2>1, <2>2, DequeueAny
        <3>2. FinalTask(a) \notin {FinalTask(e)}
            BY <2>4 DEF FinalTask
        <3>3. /\ NoneOf(tasks, {FinalTask(e)}) => NoneOf(tasks', {FinalTask(e)})
              /\ AtMostOne(tasks, {FinalTask(e)}) => AtMostOne(tasks', {FinalTask(e)})
            BY <1>0, <2>1, <2>2, <3>2, EnqueueOther
        <3>4. FinalAt(e, place)'
            BY <2>2, <3>1, <3>3 DEF FinalAt, OnlyIf
        <3>5. QED
            BY <3>4
    <2>5. QED
        BY <2>3, <2>4
<1>9. CASE Drain \/ ClearMask \/ Rearm \/ RearmFails \/ MarkActive \/ ReportDone
           \/ StartDeletion \/ EndDeletion \/ WaitInterrupted
    <2>1. UNCHANGED <<deletion, tasks, worker, completion, registered, finals>>
        BY <1>9, Zenon DEF Drain, ClearMask, Rearm, RearmFails, MarkActive, ReportDone,
           StartDeletion, EndDeletion, WaitInterrupted, register
    <2>2. \/ UNCHANGED <<rdesc, batch>>
          \/ rdesc' = None /\ UNCHANGED batch
          \/ \E r \in batch : rdesc' = r.desc /\ batch' = batch \ {r}
        BY <1>9, Zenon DEF Drain, ClearMask, Rearm, RearmFails, MarkActive, ReportDone,
           StartDeletion, EndDeletion, WaitInterrupted, reactor
    <2>3. \/ rdesc' # d /\ \A r \in batch' : r.desc # d
          \/ rdesc = d \/ \E r \in batch : r.desc = d
        BY <2>2
    <2>4. QED
        BY <1>1, <2>1, <2>3
<1>10. ASSUME NEW w \in Worker, TakeTask(w) PROVE \E p \in FinalPlace : FinalAt(e, p)'
    <2> DEFINE t == Head(tasks)
    <2>1. t \in Task /\ tasks # <<>>
        BY <1>10, <1>0, Dequeued DEF TakeTask
    <2>2. /\ tasks' = Tail(tasks) /\ worker' = [worker EXCEPT ![w] = t]
          /\ UNCHANGED <<deletion, completion, registered, finals, rdesc, batch>>
        BY <1>10 DEF TakeTask, register, reactor
    <2>3. CASE t = FinalTask(e)
        <3>1. place = "task" /\ NoneOf(tasks', {FinalTask(e)}) /\ AtMostOne(tasks', {FinalTask(e)})
            BY <1>0, <2>1, <2>2, <2>3, DequeueOne, DequeueAny DEF FinalAt, OnlyIf
        <3>2. AtMostOne(worker', {FinalTask(e)})
            BY <1>0, <2>1, <2>2, <3>1 DEF FinalAt, OnlyIf, NoneOf, AtMostOne
        <3>3. FinalAt(e, "worker")'
            BY <2>2, <3>1, <3>2 DEF FinalAt, OnlyIf
        <3>4. QED
            BY <3>3
    <2>4. CASE t # FinalTask(e)
        <3> HIDE DEF t
        <3>1. /\ NoneOf(tasks, {FinalTask(e)}) => NoneOf(tasks', {FinalTask(e)})
              /\ AtMostOne(tasks, {FinalTask(e)}) => AtMostOne(tasks', {FinalTask(e)})
            BY <1>0, <2>1, <2>2, DequeueAny
        <3>2. /\ NoneOf(worker, {FinalTask(e)}) => NoneOf(worker', {FinalTask(e)})
              /\ AtMostOne(worker, {FinalTask(e)}) => AtMostOne(worker', {FinalTask(e)})
            BY <1>0, <2>1, <2>2, <2>4 DEF NoneOf, AtMostOne
        <3>3. FinalAt(e, place)'
            BY <2>2, <3>1, <3>2 DEF FinalAt, OnlyIf
        <3>4. QED
            BY <3>3
    <2>5. QED
        BY <2>3, <2>4
<1>11. ASSUME NEW w \in Worker, React(w) PROVE FinalAt(e, place)'
    <2>1. worker[w] # None
        BY <1>11 DEF React
    <2>2. worker[w].event \in Event
        BY <1>0, <2>1 DEF Task
    <2>3. /\ worker' = [worker EXCEPT ![w] = None]
          /\ UNCHANGED <<deletion, tasks, registered, finals, rdesc, batch>>
        BY <1>11 DEF React, register, reactor
    <2>4. /\ NoneOf(worker, {FinalTask(e)}) => NoneOf(worker', {FinalTask(e)})
          /\ AtMostOne(worker, {FinalTask(e)}) => AtMostOne(worker', {FinalTask(e)})
        BY <1>0, <2>3 DEF NoneOf, AtMostOne
    <2>5. /\ AtMostOne(completion[s], {FinalCompletion(e)})
                 => AtMostOne(completion'[s], {FinalCompletion(e)})
          /\ NoneOf(completion[s], {FinalCompletion(e)})
                 => NoneOf(completion'[s], {FinalCompletion(e)})
        BY <1>2, <1>11, <2>2 DEF React
    <2>6. QED
        BY <2>3, <2>4, <2>5 DEF FinalAt, OnlyIf
<1>12. ASSUME NEW w \in Worker, EnqueueFinal(w) PROVE \E p \in FinalPlace : FinalAt(e, p)'
    <2> DEFINE a == worker[w].event
    <2>1. worker[w] # None /\ worker[w].code = "FINAL"
        BY <1>12 DEF EnqueueFinal
    <2>2. a \in Event /\ worker[w] = FinalTask(a) /\ FinalCompletion(a) \in Completion
        BY <1>0, <2>1 DEF Task, FinalTask, FinalCompletion, Completion
    <2>3. /\ completion' = [completion EXCEPT ![StrandOf[a[1]]] = Append(@, FinalCompletion(a))]
          /\ worker' = [worker EXCEPT ![w] = None]
          /\ UNCHANGED <<deletion, tasks, registered, finals, rdesc, batch>>
        BY <1>12 DEF EnqueueFinal, FinalCompletion, register, reactor
    <2> HIDE DEF a
    <2>4. CASE a = e
        <3>1. /\ place = "worker"
              /\ NoneOf(worker', {FinalTask(e)}) /\ AtMostOne(worker', {FinalTask(e)})
            BY <1>0, <2>2, <2>3, <2>4 DEF FinalAt, OnlyIf, NoneOf, AtMostOne
        <3>2. completion'[s] = Append(completion[s], FinalCompletion(e))
            BY <2>3, <2>4
        <3>3. AtMostOne(completion'[s], {FinalCompletion(e)})
            BY <1>0, <2>2, <2>4, <3>1, <3>2, EnqueueOne DEF FinalAt, OnlyIf
        <3>4. FinalAt(e, "strand")'
            BY <2>3, <3>1, <3>3 DEF FinalAt, OnlyIf
        <3>5. QED
            BY <3>4
    <2>5. CASE a # e
        <3>1. /\ NoneOf(worker, {FinalTask(e)}) => NoneOf(worker', {FinalTask(e)})
              /\ AtMostOne(worker, {FinalTask(e)}) => AtMostOne(worker', {FinalTask(e)})
            BY <1>0, <2>3 DEF NoneOf, AtMostOne
        <3>2. FinalCompletion(a) \notin {FinalCompletion(e)}
            BY <2>5 DEF FinalCompletion
        <3>3. \/ completion'[s] = completion[s]
              \/ completion'[s] = Append(completion[s], FinalCompletion(a))
            BY <2>2, <2>3
        <3>4. /\ AtMostOne(completion[s], {FinalCompletion(e)})
                     => AtMostOne(completion'[s], {FinalCompletion(e)})
              /\ NoneOf(completion[s], {FinalCompletion(e)})
                     => NoneOf(completion'[s], {FinalCompletion(e)})
            <4>1. CASE completion'[s] = completion[s]
                BY <4>1
            <4>2. CASE completion'[s] = Append(completion[s], FinalCompletion(a))
                BY <1>0, <2>2, <3>2, <4>2, EnqueueOther
            <4>3. QED
                BY <3>3, <4>1, <4>2
        <3>5. FinalAt(e, place)'
            BY <2>3, <3>1, <3>4 DEF FinalAt, OnlyIf
        <3>6. QED
            BY <3>5
    <2>6. QED
        BY <2>4, <2>5
<1>13. ASSUME NEW z \in Strand, completion[z] # <<>>,
              completion' = [completion EXCEPT ![z] = Tail(@)]
       PROVE  /\ AtMostOne(completion[s], {FinalCompletion(e)})
                     => AtMostOne(completion'[s], {FinalCompletion(e)})
              /\ NoneOf(completion[s], {FinalCompletion(e)})
                     => NoneOf(completion'[s], {FinalCompletion(e)})
    <2>1. CASE z = s
        <3>1. completion'[s] = Tail(completion[s])
            BY <1>13, <2>1
        <3>2. QED
            BY <1>0, <1>13, <2>1, <3>1, DequeueAny
    <2>2. CASE z # s
        <3>1. completion'[s] = completion[s]
            BY <1>13, <2>2
        <3>2. QED
            BY <3>1
    <2>3. QED
        BY <2>1, <2>2
<1>14. ASSUME NEW z \in Strand, Complete(z) PROVE FinalAt(e, place)'
    <2>1. completion[z] # <<>> /\ completion' = [completion EXCEPT ![z] = Tail(@)]
        BY <1>14 DEF Complete, IsNext
    <2>2. UNCHANGED <<deletion, tasks, worker, registered, finals, rdesc, batch>>
        BY <1>14 DEF Complete, register, reactor
    <2>3. QED
        BY <1>13, <2>1, <2>2 DEF FinalAt, OnlyIf
<1>15. ASSUME NEW z \in Strand, CallbackReturn(z) PROVE FinalAt(e, place)'
    BY <1>1, <1>15 DEF CallbackReturn, register, reactor
<1>16. ASSUME NEW z \in Strand, Final(z) PROVE \E p \in FinalPlace : FinalAt(e, p)'
    <2> DEFINE a == Head(completion[z]).event
    <2>1. /\ a \in Event /\ a \in finals /\ StrandOf[a[1]] = z
          /\ Head(completion[z]) = FinalCompletion(a)
          /\ completion[z] # <<>>
        BY <1>16, FinalOnStrand DEF Final, IsNext, FinalCompletion
    <2>2. UNCHANGED <<deletion, tasks, worker, rdesc, batch>>
        BY <1>16, StrandFrame DEF StrandThread
    <2>3. CASE Postponed(a)
        <3>1. completion' =
                  [completion EXCEPT ![z] = Append(Tail(completion[z]), Head(completion[z]))]
            BY <1>16, <2>3, Zenon DEF Final
        <3>2. UNCHANGED <<registered, finals>>
            BY <1>16, <2>3 DEF Final, register
        <3>3. \/ completion'[s] = completion[s]
              \/ z = s /\ completion'[s] = Append(Tail(completion[s]), Head(completion[s]))
            BY <3>1
        <3>4. /\ AtMostOne(completion[s], {FinalCompletion(e)})
                     => AtMostOne(completion'[s], {FinalCompletion(e)})
              /\ NoneOf(completion[s], {FinalCompletion(e)})
                     => NoneOf(completion'[s], {FinalCompletion(e)})
            <4>1. CASE completion'[s] = completion[s]
                BY <4>1
            <4>2. CASE z = s /\ completion'[s] = Append(Tail(completion[s]), Head(completion[s]))
                BY <1>0, <2>1, <4>2, Requeue
            <4>3. QED
                BY <3>3, <4>1, <4>2
        <3>5. FinalAt(e, place)'
            BY <2>2, <3>2, <3>4 DEF FinalAt, OnlyIf
        <3>6. QED
            BY <3>5
    <2>4. CASE ~Postponed(a)
        <3>1. /\ completion' = [completion EXCEPT ![z] = Tail(@)]
              /\ registered' = registered \ {a} /\ finals' = finals \ {a}
            BY <1>16, <2>4 DEF Final
        <3> HIDE DEF a
        <3>2. CASE a = e
            <4>1. z = s /\ Head(completion[s]) \in {FinalCompletion(e)} /\ completion[s] # <<>>
                BY <2>1, <3>2
            <4>2. completion'[s] = Tail(completion[s])
                BY <3>1, <4>1
            <4>3. /\ place = "strand" /\ NoneOf(completion'[s], {FinalCompletion(e)})
                  /\ AtMostOne(completion'[s], {FinalCompletion(e)})
                BY <1>0, <4>1, <4>2, DequeueOne, DequeueAny DEF FinalAt, OnlyIf
            <4>4. FinalAt(e, "given")'
                BY <2>2, <3>1, <3>2, <4>3 DEF FinalAt, OnlyIf
            <4>5. QED
                BY <4>4
        <3>3. CASE a # e
            <4>1. FinalAt(e, place)'
                BY <1>13, <2>1, <2>2, <3>1, <3>3 DEF FinalAt, OnlyIf
            <4>2. QED
                BY <4>1
        <3>4. QED
            BY <3>2, <3>3
    <2>5. QED
        BY <2>3, <2>4
<1>17. CASE UNCHANGED vars
    BY <1>1, <1>17 DEF vars, register, reactor
<1>18. QED
    BY <1>3, <1>4, <1>5, <1>6, <1>7, <1>8, <1>9, <1>10, <1>11, <1>12, <1>14, <1>15, <1>16,
       <1>17, StepOf DEF Reactor, TaskThread, StrandThread

LEMMA DestructionInit == Init => TypeInv /\ LockHeld /\ DestructionInv
<1> SUFFICES ASSUME Init PROVE TypeInv /\ LockHeld /\ DestructionInv
    OBVIOUS
<1> USE DEF Init
<1>1. TypeInv /\ LockHeld
    BY TypeInit DEF LockHeld
<1>2. CallsOK /\ ReactorOK /\ StrandsOK /\ TakenOnce /\ GivenEmpty
    BY NoneIsNothing DEF CallsOK, ReactorOK, StrandsOK, TakenOnce, GivenEmpty, Arming
<1>3. ASSUME NEW e \in Event PROVE FinalAt(e, "none")
    <2>1. completion[StrandOf[e[1]]] = <<>>
        BY EventParts, StrandOfType
    <2>2. \A w \in DOMAIN worker : worker[w] # FinalTask(e)
        BY ServiceAssumption DEF FinalTask, Event
    <2>3. QED
        BY <2>1, <2>2, NoneIsNothing, EventParts DEF FinalAt, OnlyIf, NoneOf, AtMostOne
<1>4. QED
    BY <1>1, <1>2, <1>3 DEF DestructionInv, OneFinalPlace, FinalPlace

LEMMA DestructionNext ==
    TypeInv /\ LockHeld /\ DestructionInv /\ [Next]_vars => DestructionInv'
BY CallsNext, ReactorNext, StrandsNext, TakenNext, GivenNext, FinalPlaceNext DEF DestructionInv

LEMMA DestructionAlways == Spec => []DestructionInv
BY DestructionInit, TypeAlways, LockAlwaysHeld, DestructionNext, PTL DEF Spec

\* Where the final events are that a pointer leads to.
LEMMA FinalReferencedAt ==
    ASSUME TypeInv, StrandsOK, OneFinalPlace, NEW e \in FinalReferenced
    PROVE  /\ e \in Event
           /\ \/ FinalAt(e, "deletion") /\ \E i \in DOMAIN deletion : deletion[i] = e
              \/ \E place \in {"task", "worker", "strand"} : FinalAt(e, place)
<1> USE Types DEF FinalAt, OnlyIf, NoneOf, FinalPlace
<1>1. CASE e \in {deletion[i] : i \in DOMAIN deletion}
    <2>1. e \in Event
        BY <1>1
    <2>2. PICK place \in FinalPlace : FinalAt(e, place)
        BY <2>1 DEF OneFinalPlace
    <2>3. place = "deletion"
        BY <1>1, <2>2
    <2>4. QED
        BY <1>1, <2>1, <2>2, <2>3
<1>2. CASE e \in {tasks[i].event : i \in {i \in DOMAIN tasks : tasks[i].code = "FINAL"}}
    <2>1. PICK i \in DOMAIN tasks : tasks[i].code = "FINAL" /\ tasks[i].event = e
        BY <1>2
    <2>0. tasks[i] \in Task
        OBVIOUS
    <2>2. e \in Event /\ tasks[i] = FinalTask(e)
        BY <2>0, <2>1 DEF Task, FinalTask
    <2>3. PICK place \in FinalPlace : FinalAt(e, place)
        BY <2>2 DEF OneFinalPlace
    <2>4. place = "task"
        BY <2>2, <2>3
    <2>5. QED
        BY <2>2, <2>3, <2>4
<1>3. CASE e \in {worker[w].event :
                     w \in {w \in Worker : worker[w] # None /\ worker[w].code = "FINAL"}}
    <2>1. PICK w \in Worker : worker[w] # None /\ worker[w].code = "FINAL" /\ worker[w].event = e
        BY <1>3
    <2>2. e \in Event /\ worker[w] = FinalTask(e)
        BY <2>1 DEF Task, FinalTask
    <2>3. PICK place \in FinalPlace : FinalAt(e, place)
        BY <2>2 DEF OneFinalPlace
    <2>4. place = "worker"
        BY <2>2, <2>3
    <2>5. QED
        BY <2>2, <2>3, <2>4
<1>4. CASE e \in UNION {{completion[s][i].event :
                            i \in {j \in DOMAIN completion[s] : completion[s][j].final}} :
                        s \in Strand}
    <2>1. PICK s \in Strand : \E i \in DOMAIN completion[s] :
            completion[s][i].final /\ completion[s][i].event = e
        BY <1>4
    <2>0. PICK i \in DOMAIN completion[s] : completion[s][i].final /\ completion[s][i].event = e
        BY <2>1
    <2>2. completion[s] \in Seq(Completion)
        OBVIOUS
    <2>3. completion[s][i] \in Completion
        BY <2>2
    <2>4. e \in Event /\ completion[s][i] = FinalCompletion(e) /\ StrandOf[e[1]] = s
        BY <2>0, <2>3 DEF Completion, FinalCompletion, StrandsOK
    <2>5. PICK place \in FinalPlace : FinalAt(e, place)
        BY <2>4 DEF OneFinalPlace
    <2>6. place = "strand"
        BY <2>4, <2>5
    <2>7. QED
        BY <2>4, <2>5, <2>6
<1>5. QED
    BY <1>1, <1>2, <1>3, <1>4 DEF FinalReferenced

\* Whatever the program does: when a final event leaves the deletion queue, epoll
\* and the reactor have forgotten its object.
THEOREM FinalsFollowReports == Spec => []FinalAfterReports
<1>1. TypeInv /\ DestructionInv => FinalAfterReports
    <2> SUFFICES ASSUME TypeInv, DestructionInv, NEW e \in Event, e \in FinalReferenced,
                        \A i \in DOMAIN deletion : deletion[i] # e
                 PROVE  interest[e[1]] = {} /\ rdesc # e[1] /\ \A r \in batch : r.desc # e[1]
        BY DEF FinalAfterReports
    <2>1. PICK place \in {"task", "worker", "strand"} : FinalAt(e, place)
        BY FinalReferencedAt DEF DestructionInv
    <2>2. e \in finals /\ rdesc # e[1] /\ \A r \in batch : r.desc # e[1]
        BY <2>1 DEF FinalAt
    <2>3. interest[e[1]] = {}
        BY <2>2, EventParts DEF DestructionInv, TakenOnce, ReactorOK
    <2>4. QED
        BY <2>2, <2>3
<1>2. QED
    BY <1>1, TypeAlways, DestructionAlways, PTL

-----------------------------------------------------------------------------
(* Operations: what a step leaves of an operation in progress.              *)

LEMMA OneBit == \A d \in Desc : Kind[d] # "tcp" => \A a, b \in Bits(d) : a = b
BY DEF Bits

\* The events of the actions that run or drop an operation.
LEMMA ActedOn ==
    ASSUME TypeInv
    PROVE  /\ \A c \in Thread : upc[c] \in Arming =>
                 ArmedEvent(c) \in Event /\ ArmedEvent(c)[1] = uobj[c]
           /\ \A w \in Worker : React(w) =>
                 /\ worker[w].event \in Event
                 /\ worker[w] \in OperationsOf(worker[w].event[1])
           /\ \A c \in Thread : ArmFails(c) => upc[c] \in Arming
<1>1. ASSUME NEW c \in Thread, upc[c] \in Arming
      PROVE  ArmedEvent(c) \in Event /\ ArmedEvent(c)[1] = uobj[c]
    BY <1>1, EventMember, Types DEF ArmedEvent, Arming, TypeInv, BitsOK
<1>2. ASSUME NEW w \in Worker, React(w)
      PROVE  /\ worker[w].event \in Event
             /\ worker[w] \in OperationsOf(worker[w].event[1])
    <2>1. worker[w] # None /\ worker[w].code # "FINAL"
        BY <1>2 DEF React
    <2>2. worker[w] \in Task
        BY <2>1, Types
    <2>3. QED
        BY <2>1, <2>2 DEF Task, Operations, OperationsOf
<1>3. ASSUME NEW c \in Thread, ArmFails(c) PROVE upc[c] \in Arming
    BY <1>3 DEF ArmFails, Arming
<1>4. QED
    BY <1>1, <1>2, <1>3

LEMMA EventKept ==
    ASSUME TypeInv, DestructionInv, [Next]_vars, NEW e \in Event,
           \A c \in Thread : ArmFails(c) => ArmedEvent(c) # e,
           \A w \in Worker : React(w) => worker[w].event # e,
           \A s \in Strand : Final(s) /\ ~hasActive[e] => Head(completion[s]).event # e
    PROVE  /\ Waiting(e) => Waiting(e)' /\ (hasActive[e] => hasActive'[e])
           /\ Reacted(e) /\ (\A s \in Strand : Complete(s) => Head(completion[s]).event # e)
                 => Reacted(e)' /\ (hasActive[e] => hasActive'[e])
<1> USE Types DEF Waiting, Reacted, Pending
<1> DEFINE Active == hasActive[e] => hasActive'[e]
           Kept == (Waiting(e) => Waiting(e)' /\ Active) /\ (Reacted(e) => Reacted(e)' /\ Active)
<1>1. ASSUME react'[e] = react[e], complete'[e] = complete[e], issued'[e] = issued[e],
             called'[e] = called[e], hasActive'[e] = hasActive[e] \/ hasActive'[e] = TRUE
      PROVE  Kept
    BY <1>1
<1>2. ASSUME NEW c \in Thread, NEW a \in Event, Initiate(c, a) PROVE Kept
    <2>1. /\ ~Pending(a) /\ react' = [react EXCEPT ![a] = issued[a] + 1]
          /\ issued' = [issued EXCEPT ![a] = @ + 1]
          /\ UNCHANGED <<complete, called, hasActive>>
        BY <1>2 DEF Initiate
    <2>2. QED
        BY <2>1
<1>3. ASSUME NEW c \in Thread, ArmFails(c) PROVE Kept
    <2> DEFINE a == ArmedEvent(c)
    <2>1. a \in Event /\ a # e
        BY <1>3, ActedOn
    <2>2. /\ complete' = [complete EXCEPT ![a] = issued[a]]
          /\ react' = [react EXCEPT ![a] = 0]
          /\ UNCHANGED <<issued, called, hasActive>>
        BY <1>3 DEF ArmFails, history
    <2> HIDE DEF a
    <2>3. QED
        BY <1>1, <2>1, <2>2
<1>4. ASSUME NEW c \in Thread, Begin(c) \/ Call(c), ~ArmFails(c),
             ~\E a \in Event : Initiate(c, a)
      PROVE  Kept
    <2>1. UNCHANGED <<react, complete, issued>>
        BY <1>4, Zenon DEF Begin, Call, Destroy, DestroyBegin, Arm, DestroyRemove, DestroyClose,
           Dispose, Interrupt, DestroyEnd, events, history
    <2>2. QED
        BY <1>1, <1>4, <2>1, CallFrame
<1>5. CASE Reactor \/ WaitInterrupted
    <2>1. UNCHANGED <<react, complete, issued, called>>
        BY <1>5, ReactorFrame
    <2>2. hasActive' = hasActive \/ \E a : hasActive' = [hasActive EXCEPT ![a] = TRUE]
        BY <1>5, Zenon DEF Reactor, WaitInterrupted, Wait, Drain, ClearMask, Rearm, RearmFails,
           MarkActive, Dispatch, ReportDone, StartDeletion, Delete, EndDeletion, events
    <2>3. QED
        BY <1>1, <2>1, <2>2
<1>6. ASSUME NEW w \in Worker, React(w) PROVE Kept
    <2> DEFINE a == worker[w].event
    <2>1. a \in Event /\ a # e
        BY <1>6, ActedOn
    <2>2. /\ complete' = [complete EXCEPT ![a] = react[a]]
          /\ react' = [react EXCEPT ![a] = 0]
          /\ UNCHANGED <<issued, called, hasActive>>
        BY <1>6 DEF React, history
    <2> HIDE DEF a
    <2>3. QED
        BY <1>1, <2>1, <2>2
<1>7. ASSUME NEW w \in Worker, TakeTask(w) \/ EnqueueFinal(w) PROVE Kept
    <2>1. UNCHANGED <<react, complete, issued, called, hasActive>>
        BY <1>7, Zenon DEF TakeTask, EnqueueFinal, events, history
    <2>2. QED
        BY <1>1, <2>1
<1>8. ASSUME NEW s \in Strand, Complete(s)
      PROVE  /\ Waiting(e) => Waiting(e)' /\ Active
             /\ Reacted(e) /\ Head(completion[s]).event # e => Reacted(e)' /\ Active
    <2> DEFINE a == Head(completion[s]).event
    <2>1. a \in Event /\ complete[a] # 0
        BY <1>8, OperationOnStrand DEF Complete, DestructionInv
    <2>2. /\ complete' = [complete EXCEPT ![a] = 0]
          /\ hasActive' = [hasActive EXCEPT ![a] = FALSE]
          /\ called' = called \/ called' = [called EXCEPT ![a] = complete[a]]
          /\ UNCHANGED <<react, issued>>
        BY <1>8 DEF Complete, NoLongerActive
    <2> HIDE DEF a
    <2>3. a # e => Kept
        BY <1>1, <2>1, <2>2
    <2>4. Waiting(e) => a # e
        BY <2>1
    <2>5. QED
        BY <2>3, <2>4 DEF a
<1>9. ASSUME NEW s \in Strand, CallbackReturn(s) PROVE Kept
    BY <1>1, <1>9 DEF CallbackReturn, events, history
<1>10. ASSUME NEW s \in Strand, Final(s) PROVE Kept
    <2> DEFINE a == Head(completion[s]).event
    <2>1. a \in Event
        BY <1>10, FinalOnStrand DEF Final, DestructionInv
    <2>2. UNCHANGED <<issued, called, hasActive>>
        BY <1>10 DEF Final, events, history
    <2>3. \/ UNCHANGED <<react, complete>>
          \/ ~hasActive[a] /\ react' = [react EXCEPT ![a] = 0]
                           /\ complete' = [complete EXCEPT ![a] = 0]
        BY <1>10 DEF Final, Postponed, events
    <2>4. ~hasActive[a] => a # e
        BY <1>10
    <2> HIDE DEF a
    <2>5. QED
        BY <1>1, <2>1, <2>2, <2>3, <2>4
<1>11. CASE UNCHANGED vars
    BY <1>1, <1>11 DEF vars, events, history
<1>12. QED
    BY <1>2, <1>3, <1>4, <1>5, <1>6, <1>7, <1>8, <1>9, <1>10, <1>11, StepOf
       DEF TaskThread, StrandThread

\* The place of the operation of d is what its pieces say.
LEMMA PlaceOf ==
    ASSUME TypeInv, ConveyorInv, NEW d \in Desc
    PROVE  \E place \in OperationPlace :
              /\ OperationAt(d, place)
              /\ \A w \in Worker : worker[w] \in OperationsOf(d) => place = "worker"
              /\ \A i \in DOMAIN tasks : tasks[i] \in OperationsOf(d) => place = "task"
              /\ \A i \in DOMAIN completion[StrandOf[d]] :
                    completion[StrandOf[d]][i] \in CompletionsOf(d) => place = "strand"
<1>1. PICK place \in OperationPlace : OperationAt(d, place)
    BY DEF ConveyorInv, OperationsOK, OnePlace
<1>2. QED
    BY <1>1, Types DEF OperationAt, OnlyIf, NoneOf

LEMMA OnDescriptorKept ==
    ASSUME TypeInv, ConveyorInv, [Next]_vars, NEW e \in Event, Waiting(e),
           \/ interest[e[1]] # {}
           \/ \E r \in batch : r.desc = e[1]
           \/ rdesc = e[1] /\ (rpc = "rearm" \/ rtodo # {})
    PROVE  Waiting(e)' /\ (hasActive[e] => hasActive'[e])
<1> USE DEF ConveyorInv, DestructionInv
<1>1. PICK place \in OperationPlace :
        /\ OperationAt(e[1], place)
        /\ \A w \in Worker : worker[w] \in OperationsOf(e[1]) => place = "worker"
    BY PlaceOf, Types
<1>2. place \in {"epoll", "report", "reactor"}
    BY <1>1 DEF OperationAt
<1>3. ASSUME NEW c \in Thread, ArmFails(c), ArmedEvent(c) = e PROVE FALSE
    BY <1>1, <1>2, <1>3, ActedOn DEF OperationAt
<1>4. ASSUME NEW w \in Worker, React(w), worker[w].event = e PROVE FALSE
    BY <1>1, <1>2, <1>4, ActedOn
<1>5. ASSUME NEW s \in Strand, Final(s), Head(completion[s]).event = e PROVE FALSE
    <2>1. FinalAt(e, "strand") /\ e \in finals
        BY <1>5, FinalOnStrand DEF Final
    <2>2. ~fdOpen[e[1]] /\ rdesc # e[1] /\ \A r \in batch : r.desc # e[1]
        BY <2>1 DEF FinalAt, TakenOnce
    <2>3. QED
        BY <2>2, Types DEF ReactorOK
<1>6. QED
    BY <1>3, <1>4, <1>5, EventKept DEF ConveyorInv

LEMMA InCallKept ==
    ASSUME TypeInv, ConveyorInv, [Next]_vars, NEW c \in Thread, upc[c] \in Arming, ~ArmFails(c),
           NEW e \in Event, e = ArmedEvent(c)
    PROVE  Waiting(e)'
<1> USE DEF ConveyorInv, DestructionInv
<1>1. e[1] = uobj[c] /\ Waiting(e)
    BY ActedOn DEF OperationsOK, InCall
<1>2. PICK place \in OperationPlace :
        /\ OperationAt(e[1], place)
        /\ \A w \in Worker : worker[w] \in OperationsOf(e[1]) => place = "worker"
    BY PlaceOf, Types
<1>3. place = "call"
    BY <1>1, <1>2 DEF OperationAt
<1>4. ASSUME NEW o \in Thread, ArmFails(o), ArmedEvent(o) = e PROVE FALSE
    <2>1. upc[o] \in Arming /\ uobj[o] = uobj[c] /\ uobj[c] # None /\ o # c
        BY <1>1, <1>4, ActedOn, Types DEF Arming
    <2>2. WaitsFor(o, c) \/ WaitsFor(c, o)
        BY <2>1 DEF CallsOK
    <2>3. QED
        BY <2>1, <2>2 DEF WaitsFor, Arming
<1>5. ASSUME NEW w \in Worker, React(w), worker[w].event = e PROVE FALSE
    BY <1>2, <1>3, <1>5, ActedOn
<1>6. ASSUME NEW s \in Strand, Final(s), Head(completion[s]).event = e PROVE FALSE
    <2>1. e \in finals
        BY <1>6, FinalOnStrand DEF Final
    <2>2. QED
        BY <1>1, <2>1 DEF TakenOnce, CallsOK
<1>7. QED
    BY <1>1, <1>4, <1>5, <1>6, EventKept DEF ConveyorInv

LEMMA InTaskKept ==
    ASSUME TypeInv, ConveyorInv, [Next]_vars, NEW i \in DOMAIN tasks, tasks[i] \in Operations,
           NEW e \in Event, e = tasks[i].event
    PROVE  Waiting(e)' /\ hasActive'[e]
<1> USE DEF ConveyorInv, DestructionInv
<1>1. Waiting(e) /\ hasActive[e] /\ tasks[i] \in OperationsOf(e[1])
    BY DEF OperationsOK, InTask, OperationsOf
<1>2. PICK place \in OperationPlace :
        /\ OperationAt(e[1], place)
        /\ \A w \in Worker : worker[w] \in OperationsOf(e[1]) => place = "worker"
        /\ place = "task"
    BY <1>1, PlaceOf, Types
<1>3. ASSUME NEW c \in Thread, ArmFails(c), ArmedEvent(c) = e PROVE FALSE
    BY <1>2, <1>3, ActedOn DEF OperationAt
<1>4. ASSUME NEW w \in Worker, React(w), worker[w].event = e PROVE FALSE
    BY <1>2, <1>4, ActedOn
<1>5. QED
    BY <1>1, <1>3, <1>4, EventKept DEF ConveyorInv

LEMMA InWorkerKept ==
    ASSUME TypeInv, ConveyorInv, [Next]_vars, NEW w \in Worker, worker[w] \in Operations,
           ~React(w), NEW e \in Event, e = worker[w].event
    PROVE  Waiting(e)' /\ hasActive'[e]
<1> USE DEF ConveyorInv, DestructionInv
<1>1. Waiting(e) /\ hasActive[e] /\ worker[w] \in OperationsOf(e[1])
    BY DEF OperationsOK, InWorker, OperationsOf
<1>2. PICK place \in OperationPlace : OperationAt(e[1], place) /\ place = "worker"
    BY <1>1, PlaceOf, Types
<1>3. ASSUME NEW c \in Thread, ArmFails(c), ArmedEvent(c) = e PROVE FALSE
    BY <1>2, <1>3, ActedOn DEF OperationAt
<1>4. ASSUME NEW v \in Worker, React(v), worker[v].event = e PROVE FALSE
    <2>1. worker[v] \in OperationsOf(e[1])
        BY <1>4, ActedOn
    <2>2. v = w
        BY <1>1, <1>2, <2>1, Types DEF OperationAt, OnlyIf, AtMostOne
    <2>3. QED
        BY <1>4, <2>2
<1>5. QED
    BY <1>1, <1>3, <1>4, EventKept DEF ConveyorInv

LEMMA InStrandKept ==
    ASSUME TypeInv, ConveyorInv, [Next]_vars,
           NEW s \in Strand, NEW i \in DOMAIN completion[s], completion[s][i] \in Completions,
           ~(i = 1 /\ Complete(s)), NEW e \in Event, e = completion[s][i].event
    PROVE  Reacted(e)' /\ (hasActive[e] => hasActive'[e])
<1> USE DEF ConveyorInv, DestructionInv
<1>1. /\ Reacted(e) /\ StrandOf[e[1]] = s
      /\ completion[s][i] \in CompletionsOf(e[1])
      /\ completion[s] \in Seq(Completion) /\ i \in Nat
    BY Types DEF OperationsOK, InStrand, StrandsOK, CompletionsOf, Reacted
<1>2. PICK place \in OperationPlace :
        /\ OperationAt(e[1], place)
        /\ \A w \in Worker : worker[w] \in OperationsOf(e[1]) => place = "worker"
        /\ place = "strand"
    BY <1>1, PlaceOf, Types
<1>3. ASSUME NEW c \in Thread, ArmFails(c), ArmedEvent(c) = e PROVE FALSE
    BY <1>2, <1>3, ActedOn DEF OperationAt
<1>4. ASSUME NEW w \in Worker, React(w), worker[w].event = e PROVE FALSE
    BY <1>2, <1>4, ActedOn
<1>5. ASSUME NEW z \in Strand, Complete(z), Head(completion[z]).event = e PROVE FALSE
    <2>1. /\ z = s /\ 1 \in DOMAIN completion[s]
          /\ completion[s][1] = [event |-> e, final |-> FALSE]
        BY <1>1, <1>5, OperationOnStrand DEF Complete
    <2>2. completion[s][1] \in CompletionsOf(e[1])
        BY <2>1 DEF CompletionsOf, Completions
    <2>3. i = 1
        BY <1>1, <1>2, <2>1, <2>2 DEF OperationAt, OnlyIf, AtMostOne
    <2>4. QED
        BY <1>5, <2>1, <2>3
<1>6. ASSUME NEW z \in Strand, Final(z), ~hasActive[e], Head(completion[z]).event = e
      PROVE  FALSE
    <2>1. z = s /\ Head(completion[s]) = FinalCompletion(e) /\ completion[s] # <<>>
        <3>1. IsNext(z, TRUE) /\ completion[z] # <<>>
            BY <1>6 DEF Final, IsNext
        <3>2. StrandOf[e[1]] = z /\ Head(completion[z]) = [event |-> e, final |-> TRUE]
            BY <1>6, <3>1, FinalOnStrand
        <3>3. QED
            BY <1>1, <3>1, <3>2 DEF FinalCompletion
    <2>2. 1 \in DOMAIN completion[s] /\ completion[s][1] = FinalCompletion(e)
        BY <1>1, <2>1, AfterDequeue
    <2>3. completion[s][i] = [event |-> e, final |-> FALSE]
        BY DEF Completions
    <2>4. i < 1
        BY <1>6, <2>2, <2>3 DEF FinalIsLast
    <2>5. QED
        BY <1>1, <2>4
<1>7. QED
    BY <1>1, <1>3, <1>4, <1>5, <1>6, EventKept DEF ConveyorInv

\* A strand completes an operation that has reacted.
LEMMA CompletedEvent ==
    ASSUME TypeInv, ConveyorInv, NEW s \in Strand, IsNext(s, FALSE)
    PROVE  LET e == Head(completion[s]).event IN
           /\ e \in Event /\ Reacted(e) /\ StrandOf[e[1]] = s
           /\ Head(completion[s]) \in CompletionsOf(e[1])
<1> DEFINE e == Head(completion[s]).event
<1>1. /\ e \in Event /\ StrandOf[e[1]] = s /\ 1 \in DOMAIN completion[s]
      /\ completion[s][1] = [event |-> e, final |-> FALSE]
    BY OperationOnStrand DEF ConveyorInv, DestructionInv
<1>2. completion[s][1] \in Completions /\ completion[s][1].event = e
    BY <1>1 DEF Completions
<1>3. Reacted(e)
    BY <1>1, <1>2 DEF ConveyorInv, OperationsOK, InStrand, Reacted
<1>4. completion[s] \in Seq(Completion) /\ completion[s] # <<>>
    BY Types DEF IsNext
<1>5. Head(completion[s]) = completion[s][1]
    BY <1>4, AfterDequeue
<1>6. QED
    BY <1>1, <1>2, <1>3, <1>5 DEF CompletionsOf

-----------------------------------------------------------------------------
(* Operations: each place keeps what it promises.                           *)

\* No operation of the object is in progress when one is started.
LEMMA InitiateFree ==
    ASSUME Simplex, TypeInv, NEW c \in Thread, NEW a \in Event, Initiate(c, a)
    PROVE  \A e \in Event : e[1] = a[1] => ~Pending(e)
<1>1. ASSUME NEW e \in Event, e[1] = a[1] PROVE ~Pending(e)
    <2>1. CASE Kind[a[1]] = "tcp"
        <3>1. e \in EventsOf(a[1])
            BY <1>1, Types DEF EventsOf
        <3>2. QED
            BY <2>1, <3>1, Types DEF Simplex, Initiate
    <2>2. CASE Kind[a[1]] # "tcp"
        <3>1. e = a
            <4>1. e[2] = a[2]
                BY <1>1, <2>2, OneBit, Types
            <4>2. e = <<e[1], e[2]>> /\ a = <<a[1], a[2]>>
                BY Types
            <4>3. QED
                BY <1>1, <4>1, <4>2
        <3>2. QED
            BY <3>1 DEF Initiate
    <2>3. QED
        BY <2>1, <2>2
<1>2. QED
    BY <1>1

\* Two operations of a descriptor that are in progress are the same.
LEMMA SameOperation ==
    ASSUME TypeInv, OneOperation, NEW a \in Event, NEW b \in Event, a[1] = b[1],
           Pending(a), Pending(b)
    PROVE  a = b
<1>1. a = <<a[1], a[2]>> /\ b = <<a[1], b[2]>> /\ a[1] \in Desc
    BY Types
<1>2. a[2] \in Bits(a[1]) /\ b[2] \in Bits(a[1])
    BY Types
<1>3. a[2] = b[2]
    BY <1>1, <1>2 DEF OneOperation
<1>4. QED
    BY <1>1, <1>3

\* An operation that starts, and one that is called back, by their numbers alone.
LEMMA PendingCounts ==
    ASSUME TypeInv, CountsOK, NEW e \in Event, Pending(e)
    PROVE  issued[e] = called[e] + 1 /\ issued[e] # 0
BY Types DEF CountsOK, Pending

LEMMA CalledEvent ==
    ASSUME TypeInv, StrandsOK, CountsOK, NEW s \in Strand, Complete(s)
    PROVE  LET e == Head(completion[s]).event IN e \in Event /\ Reacted(e)
BY OperationOnStrand DEF Complete, CountsOK

LEMMA CountsStep ==
    ASSUME TypeInv, DestructionInv, CountsOK, [Next]_vars,
           \A c \in Thread : ArmFails(c) => Waiting(ArmedEvent(c))
    PROVE  CountsOK'
<1> USE Types DEF CountsOK, Waiting, Reacted, Pending
<1>1. ASSUME NEW c \in Thread, NEW a \in Event, Initiate(c, a) PROVE CountsOK'
    <2>1. /\ issued[a] = called[a] /\ react' = [react EXCEPT ![a] = issued[a] + 1]
          /\ issued' = [issued EXCEPT ![a] = @ + 1]
          /\ UNCHANGED <<complete, called>>
        BY <1>1 DEF Initiate
    <2>2. QED
        BY <2>1
<1>2. ASSUME NEW a \in Event, Waiting(a), UNCHANGED <<issued, called>>,
             react' = [react EXCEPT ![a] = 0], complete' = [complete EXCEPT ![a] = issued[a]]
      PROVE  CountsOK'
    BY <1>2
<1>3. ASSUME NEW c \in Thread, ArmFails(c) PROVE CountsOK'
    <2>1. ArmedEvent(c) \in Event /\ Waiting(ArmedEvent(c))
        BY <1>3, ActedOn
    <2>2. QED
        BY <1>2, <1>3, <2>1 DEF ArmFails, history
<1>4. ASSUME NEW w \in Worker, React(w) PROVE CountsOK'
    <2> DEFINE a == worker[w].event
    <2>1. a \in Event /\ Waiting(a) /\ react[a] = issued[a]
        BY <1>4, ActedOn DEF React
    <2>2. /\ react' = [react EXCEPT ![a] = 0] /\ complete' = [complete EXCEPT ![a] = react[a]]
          /\ UNCHANGED <<issued, called>>
        BY <1>4 DEF React, history
    <2> HIDE DEF a
    <2>3. QED
        BY <1>2, <2>1, <2>2
<1>5. ASSUME UNCHANGED <<react, complete, issued, called>> PROVE CountsOK'
    BY <1>5
<1>6. ASSUME NEW c \in Thread, Begin(c) \/ Call(c), ~ArmFails(c),
             ~\E a \in Event : Initiate(c, a)
      PROVE  CountsOK'
    <2>1. UNCHANGED <<react, complete, issued>>
        BY <1>6, Zenon DEF Begin, Call, Destroy, DestroyBegin, Arm, DestroyRemove, DestroyClose,
           Dispose, Interrupt, DestroyEnd, events, history
    <2>2. QED
        BY <1>5, <1>6, <2>1, CallFrame
<1>7. CASE Reactor \/ WaitInterrupted
    BY <1>5, <1>7, ReactorFrame
<1>8. ASSUME NEW w \in Worker, TakeTask(w) \/ EnqueueFinal(w) PROVE CountsOK'
    <2>1. UNCHANGED <<react, complete, issued, called>>
        BY <1>8, Zenon DEF TakeTask, EnqueueFinal, events, history
    <2>2. QED
        BY <1>5, <2>1
<1>9. ASSUME NEW s \in Strand, Complete(s) PROVE CountsOK'
    <2> DEFINE a == Head(completion[s]).event
    <2>1. a \in Event /\ Reacted(a)
        BY <1>9, CalledEvent DEF DestructionInv
    <2>2. /\ complete' = [complete EXCEPT ![a] = 0] /\ UNCHANGED <<react, issued>>
          /\ called' = called \/ called' = [called EXCEPT ![a] = complete[a]]
        BY <1>9 DEF Complete
    <2> HIDE DEF a
    <2>3. QED
        BY <2>1, <2>2
<1>10. ASSUME NEW s \in Strand, CallbackReturn(s) PROVE CountsOK'
    BY <1>5, <1>10 DEF CallbackReturn, events, history
<1>11. ASSUME NEW s \in Strand, Final(s) PROVE CountsOK'
    <2> DEFINE a == Head(completion[s]).event
    <2>1. a \in Event
        BY <1>11, FinalOnStrand DEF Final, DestructionInv
    <2>2. /\ UNCHANGED <<issued, called>>
          /\ \/ UNCHANGED <<react, complete>>
             \/ react' = [react EXCEPT ![a] = 0] /\ complete' = [complete EXCEPT ![a] = 0]
        BY <1>11 DEF Final, events, history
    <2> HIDE DEF a
    <2>3. QED
        BY <2>1, <2>2
<1>12. CASE UNCHANGED vars
    BY <1>5, <1>12 DEF vars, events, history
<1>13. QED
    BY <1>1, <1>3, <1>4, <1>6, <1>7, <1>8, <1>9, <1>10, <1>11, <1>12, StepOf
       DEF TaskThread, StrandThread

LEMMA CountsNext ==
    ASSUME TypeInv, ConveyorInv, [Next]_vars
    PROVE  CountsOK'
<1>1. \A c \in Thread : ArmFails(c) => Waiting(ArmedEvent(c))
    BY ActedOn DEF ConveyorInv, OperationsOK, InCall
<1>2. QED
    BY <1>1, CountsStep DEF ConveyorInv, OperationsOK

\* The mask of a descriptor, but for the two that set and clear its bits.
LEMMA MaskFrame ==
    ASSUME [Next]_vars
    PROVE  mask' = mask \/ ClearMask \/ \E c \in Thread, a \in Event : Initiate(c, a)
<1>1. ASSUME NEW c \in Thread, Begin(c) \/ Call(c), ~\E a \in Event : Initiate(c, a)
      PROVE  mask' = mask
    BY <1>1, Zenon DEF Begin, Call, Destroy, DestroyBegin, Arm, ArmFails, DestroyRemove,
       DestroyClose, Dispose, Interrupt, DestroyEnd
<1>2. ASSUME Reactor \/ WaitInterrupted, ~ClearMask PROVE mask' = mask
    BY <1>2, Zenon DEF Reactor, WaitInterrupted, Wait, Drain, Rearm, RearmFails, MarkActive,
       Dispatch, ReportDone, StartDeletion, Delete, EndDeletion
<1>3. CASE UNCHANGED vars
    BY <1>3 DEF vars
<1>4. QED
    BY <1>1, <1>2, <1>3, StepOf, TaskFrame, StrandFrame

LEMMA MaskSteps ==
    ASSUME TypeInv, [Next]_vars, NEW d \in Desc
    PROVE  \A b \in mask'[d] : b \in mask[d] \/ \E c \in Thread : Initiate(c, <<d, b>>)
<1>0. mask \in [Desc -> SUBSET Bit]
    BY DEF TypeInv, TypeOK
<1>1. CASE mask' = mask
    BY <1>1
<1>2. CASE ClearMask
    <2>1. \E r \in batch : mask' = [mask EXCEPT ![r.desc] = mask[r.desc] \ r.events]
        BY <1>2, Zenon DEF ClearMask, MaskLeft
    <2>2. QED
        BY <1>0, <2>1
<1>3. ASSUME NEW c \in Thread, NEW a \in Event, Initiate(c, a)
      PROVE  \A b \in mask'[d] : b \in mask[d] \/ \E o \in Thread : Initiate(o, <<d, b>>)
    <2>1. mask' = [mask EXCEPT ![a[1]] = @ \cup {a[2]}] /\ a = <<a[1], a[2]>>
        BY <1>3, Types DEF Initiate
    <2>2. CASE a[1] = d
        <3>1. mask'[d] = mask[d] \cup {a[2]} /\ Initiate(c, <<d, a[2]>>)
            BY <1>0, <1>3, <2>1, <2>2
        <3>2. QED
            BY <3>1
    <2>3. CASE a[1] # d
        BY <1>0, <2>1, <2>3
    <2>4. QED
        BY <2>2, <2>3
<1>4. QED
    BY <1>1, <1>2, <1>3, MaskFrame

\* A file is never opened again.
LEMMA OpenSteps ==
    ASSUME TypeInv, [Next]_vars, NEW d \in Desc, fdOpen'[d]
    PROVE  fdOpen[d]
<1>1. fdOpen' = fdOpen \/ \E c \in Thread : fdOpen' = [fdOpen EXCEPT ![uobj[c]] = FALSE]
    <2>1. ASSUME NEW c \in Thread, Begin(c) \/ Call(c), ~DestroyClose(c) PROVE fdOpen' = fdOpen
        BY <2>1, Zenon DEF Begin, Call, Destroy, Initiate, DestroyBegin, Arm, ArmFails,
           DestroyRemove, Dispose, Interrupt, DestroyEnd, kernel
    <2>2. ASSUME NEW c \in Thread, DestroyClose(c)
          PROVE  fdOpen' = [fdOpen EXCEPT ![uobj[c]] = FALSE]
        BY <2>2 DEF DestroyClose
    <2>3. QED
        BY <2>1, <2>2, StepOf, ReactorFrame, TaskFrame, StrandFrame DEF vars, kernel
<1>2. QED
    BY <1>1, Types

LEMMA InitiateWaits ==
    ASSUME TypeInv, CountsOK, NEW c \in Thread, NEW a \in Event, Initiate(c, a)
    PROVE  Waiting(a)'
<1>1. /\ issued[a] = called[a] /\ react' = [react EXCEPT ![a] = issued[a] + 1]
      /\ issued' = [issued EXCEPT ![a] = @ + 1]
      /\ UNCHANGED <<complete, called>>
    BY DEF Initiate, Pending
<1>2. complete[a] = 0
    BY <1>1 DEF CountsOK, Reacted, Pending
<1>3. QED
    BY <1>1, <1>2, Types DEF Waiting, Pending

\* An operation becomes pending when it is started.
LEMMA PendingSteps ==
    ASSUME TypeInv, ConveyorInv, [Next]_vars, NEW e \in Event, Pending(e)'
    PROVE  Pending(e) \/ \E c \in Thread : Initiate(c, e)
<1>1. called'[e] = called[e] \/ called'[e] = issued[e]
    <2>1. CASE called' = called
        BY <2>1
    <2>2. CASE called' # called
        <3>1. PICK s \in Strand : Complete(s)
            BY <2>2, StepOf, CallFrame, ReactorFrame, TaskFrame, Zenon DEF vars, history,
               StrandThread, CallbackReturn, Final
        <3> DEFINE a == Head(completion[s]).event
        <3>2. a \in Event /\ Reacted(a)
            BY <3>1, CompletedEvent DEF Complete
        <3>3. called' = called \/ called' = [called EXCEPT ![a] = complete[a]]
            BY <3>1 DEF Complete
        <3> HIDE DEF a
        <3>4. QED
            BY <3>2, <3>3, Types DEF Reacted
    <2>3. QED
        BY <2>1, <2>2
<1>2. issued' = issued \/ \E c \in Thread, a \in Event :
                             Initiate(c, a) /\ issued' = [issued EXCEPT ![a] = @ + 1]
    <2>1. ASSUME NEW c \in Thread, Begin(c) \/ Call(c), ~\E a \in Event : Initiate(c, a)
          PROVE  issued' = issued
        BY <2>1, Zenon DEF Begin, Call, Destroy, DestroyBegin, Arm, ArmFails,
           DestroyRemove, DestroyClose, Dispose, Interrupt, DestroyEnd, history
    <2>2. ASSUME NEW c \in Thread, NEW a \in Event, Initiate(c, a)
          PROVE  issued' = [issued EXCEPT ![a] = @ + 1]
        BY <2>2 DEF Initiate
    <2>3. QED
        BY <2>1, <2>2, StepOf, ReactorFrame, TaskFrame, StrandFrame DEF vars, history
<1>3. CASE issued' = issued
    BY <1>1, <1>3 DEF Pending
<1>4. CASE issued' # issued
    <2>1. PICK c \in Thread, a \in Event :
            Initiate(c, a) /\ issued' = [issued EXCEPT ![a] = @ + 1]
        BY <1>2, <1>4
    <2>2. called' = called
        BY <2>1 DEF Initiate
    <2>3. CASE a = e
        BY <2>1, <2>3
    <2>4. CASE a # e
        BY <2>1, <2>2, <2>4, Types DEF Pending
    <2>5. QED
        BY <2>3, <2>4
<1>5. QED
    BY <1>3, <1>4

LEMMA OneOperationNext ==
    ASSUME Simplex, TypeInv, ConveyorInv, [Next]_vars
    PROVE  OneOperation'
<1> USE DEF ConveyorInv, OperationsOK
\* No operation starts while one is pending.
<1>1. \A d \in Desc : \A a, b \in Bits(d) : (Pending(<<d, a>>) /\ Pending(<<d, b>>))' => a = b
    <2>1. ASSUME NEW e \in Event, Pending(e)'
          PROVE  Pending(e) \/ \E c \in Thread : Initiate(c, e)
        BY <2>1, PendingSteps
    <2>2. ASSUME NEW e \in Event, NEW f \in Event, Pending(e)', Pending(f)', e[1] = f[1]
          PROVE  e = f
        <3>1. ASSUME NEW c \in Thread, Initiate(c, e), NEW o \in Thread, Initiate(o, f)
              PROVE  e = f
            <4>1. /\ issued' = [issued EXCEPT ![e] = @ + 1]
                  /\ issued' = [issued EXCEPT ![f] = @ + 1]
                BY <3>1 DEF Initiate
            <4>2. QED
                BY <4>1, Types
        <3>2. ASSUME NEW c \in Thread, Initiate(c, e), Pending(f) PROVE FALSE
            BY <2>2, <3>2, InitiateFree
        <3>3. ASSUME NEW c \in Thread, Initiate(c, f), Pending(e) PROVE FALSE
            BY <2>2, <3>3, InitiateFree
        <3>4. CASE Pending(e) /\ Pending(f)
            BY <2>2, <3>4, SameOperation
        <3>5. QED
            BY <2>1, <2>2, <3>1, <3>2, <3>3, <3>4
    <2>3. ASSUME NEW d \in Desc, NEW a \in Bits(d), NEW b \in Bits(d),
                 Pending(<<d, a>>)', Pending(<<d, b>>)'
          PROVE  a = b
        <3>1. <<d, a>> = <<d, b>>
            BY <2>2, <2>3, EventMember
        <3>2. QED
            BY <3>1
    <2>4. QED
        BY <2>3
\* A bit of the mask belongs to an operation that waits for epoll.
<1>2. ASSUME NEW d \in Desc, Kind[d] = "tcp", fdOpen'[d], NEW b \in mask'[d]
      PROVE  Waiting(<<d, b>>)'
    <2> DEFINE e == <<d, b>>
    <2>0. fdOpen[d] /\ b \in Bits(d)
        BY <1>2, OpenSteps, TypeNext DEF TypeInv, BitsOK
    <2>1. e \in Event
        BY <2>0, EventMember
    <2>2. ASSUME NEW c \in Thread, Initiate(c, e) PROVE Waiting(e)'
        BY <2>1, <2>2, InitiateWaits
    <2>3. CASE b \in mask[d]
        <3>1. Waiting(e)
            BY <1>2, <2>0, <2>3 DEF OneOperation
        <3>2. PICK place \in OperationPlace :
                /\ OperationAt(d, place)
                /\ \A w \in Worker : worker[w] \in OperationsOf(d) => place = "worker"
            BY PlaceOf
        <3>3. place \in {"call", "epoll", "report"}
            BY <1>2, <2>0, <2>3, <3>2 DEF OperationAt
        <3>4. ASSUME NEW c \in Thread, ArmFails(c), ArmedEvent(c) = e PROVE FALSE
            <4>1. uobj[c] = d
                BY <3>4, ActedOn
            <4>2. fdOpen[uobj[c]] => ArmMayFail
                BY <3>4 DEF ArmFails
            <4>3. QED
                BY <1>2, <2>0, <4>1, <4>2 DEF Simplex
        <3>5. ASSUME NEW w \in Worker, React(w), worker[w].event = e PROVE FALSE
            BY <3>2, <3>3, <3>5, ActedOn
        <3>6. ASSUME NEW s \in Strand, Final(s), Head(completion[s]).event = e PROVE FALSE
            BY <2>0, <2>1, <3>6, FinalOnStrand DEF Final, TakenOnce, DestructionInv
        <3>7. QED
            BY <2>1, <3>1, <3>4, <3>5, <3>6, EventKept DEF ConveyorInv
    <2>4. QED
        BY <1>2, <2>2, <2>3, MaskSteps
<1>3. QED
    BY <1>1, <1>2 DEF OneOperation

\* A call in progress goes on, or has just begun.
LEMMA ArmingSteps ==
    ASSUME TypeInv, [Next]_vars, NEW c \in Thread, upc'[c] \in Arming
    PROVE  \/ /\ upc[c] \in Arming /\ upc'[c] = upc[c]
              /\ uobj'[c] = uobj[c] /\ ubits'[c] = ubits[c]
           \/ \E a \in Event : Initiate(c, a)
<1> USE Types DEF Arming
<1>1. ASSUME NEW o \in Thread, NEW a \in Event, Initiate(o, a), o # c
      PROVE  upc'[c] = upc[c] /\ uobj'[c] = uobj[c] /\ ubits'[c] = ubits[c]
    BY <1>1 DEF Initiate
<1>2. ASSUME NEW o \in Thread, Begin(o) \/ Call(o), ~\E a \in Event : Initiate(o, a)
      PROVE  o # c /\ upc'[c] = upc[c] /\ uobj'[c] = uobj[c] /\ ubits'[c] = ubits[c]
    <2>1. /\ \E pc \in {"idle", "lock", "close", "dispose", "interrupt"} :
                upc' = [upc EXCEPT ![o] = pc]
          /\ uobj' = uobj \/ \E x : uobj' = [uobj EXCEPT ![o] = x]
          /\ ubits' = ubits \/ \E x : ubits' = [ubits EXCEPT ![o] = x]
        <3>1. ASSUME Arm(o) \/ ArmFails(o) \/ DestroyEnd(o) PROVE Return(o)
            BY <3>1 DEF Arm, ArmFails, DestroyEnd
        <3>2. CASE Return(o)
            BY <3>2 DEF Return
        <3>3. CASE \E d \in Desc : DestroyBegin(o, d)
            BY <3>3 DEF DestroyBegin
        <3>4. CASE DestroyRemove(o) \/ DestroyClose(o) \/ Dispose(o) \/ Interrupt(o)
            BY <3>4 DEF DestroyRemove, DestroyClose, Dispose, Interrupt
        <3>5. QED
            BY <1>2, <3>1, <3>2, <3>3, <3>4 DEF Begin, Call, Destroy
    <2>2. QED
        BY <2>1
<1>3. CASE UNCHANGED user
    BY <1>3 DEF user
<1>4. QED
    BY <1>1, <1>2, <1>3, StepOf, ReactorFrame, TaskFrame, StrandFrame DEF vars, user

\* As long as an operation of a descriptor is in progress, only the reactor, with
\* its report, changes its mask.
LEMMA MaskKeptBy ==
    ASSUME Simplex, TypeInv, [Next]_vars, NEW e \in Event, Pending(e)
    PROVE  \/ mask'[e[1]] = mask[e[1]]
           \/ ClearMask /\ \E r \in batch : r.desc = e[1] /\ batch' = batch \ {r}
<1>0. mask \in [Desc -> SUBSET Bit]
    BY DEF TypeInv, TypeOK
<1>1. ASSUME NEW c \in Thread, NEW a \in Event, Initiate(c, a) PROVE mask'[e[1]] = mask[e[1]]
    <2>1. a[1] # e[1]
        BY <1>1, InitiateFree
    <2>2. mask' = [mask EXCEPT ![a[1]] = @ \cup {a[2]}]
        BY <1>1 DEF Initiate
    <2>3. QED
        BY <1>0, <2>1, <2>2
<1>2. CASE ClearMask
    <2>1. PICK r \in batch :
            mask' = [mask EXCEPT ![r.desc] = mask[r.desc] \ r.events] /\ batch' = batch \ {r}
        BY <1>2, Zenon DEF ClearMask, MaskLeft
    <2>2. QED
        BY <1>0, <1>2, <2>1
<1>3. QED
    BY <1>1, <1>2, MaskFrame

LEMMA InCallNext ==
    ASSUME Simplex, TypeInv, ConveyorInv, [Next]_vars
    PROVE  InCall'
<1> USE DEF ConveyorInv, OperationsOK
<1> SUFFICES ASSUME NEW c \in Thread, upc'[c] \in Arming
             PROVE  /\ Waiting(ArmedEvent(c))'
                    /\ fdOpen'[uobj'[c]] => /\ ubits'[c] = {ArmedEvent(c)'[2]}
                                            /\ mask'[uobj'[c]] = ubits'[c]
    BY DEF InCall
<1>0. mask \in [Desc -> SUBSET Bit]
    BY DEF TypeInv, TypeOK
<1>1. ASSUME NEW a \in Event, Initiate(c, a)
      PROVE  /\ Waiting(ArmedEvent(c))'
             /\ fdOpen'[uobj'[c]] => /\ ubits'[c] = {ArmedEvent(c)'[2]}
                                     /\ mask'[uobj'[c]] = ubits'[c]
    <2>1. /\ upc' = [upc EXCEPT ![c] = IF a[2] = "IN" THEN "armIN" ELSE "armOUT"]
          /\ uobj' = [uobj EXCEPT ![c] = a[1]]
          /\ ubits' = [ubits EXCEPT ![c] = mask[a[1]] \cup {a[2]}]
          /\ mask' = [mask EXCEPT ![a[1]] = @ \cup {a[2]}]
          /\ fdOpen' = fdOpen
        BY <1>1 DEF Initiate, kernel
    <2>2. a[1] \in Desc /\ a[2] \in Bits(a[1]) /\ a[2] \in {"IN", "OUT"} /\ a = <<a[1], a[2]>>
        BY EventParts DEF Bit
    <2>3. ArmedEvent(c)' = a
        BY <2>1, <2>2, Types DEF ArmedEvent
    <2>4. Waiting(a)'
        BY <1>1, InitiateWaits
    <2>5. fdOpen[a[1]] => mask[a[1]] \subseteq {a[2]}
        <3> SUFFICES ASSUME fdOpen[a[1]], NEW b \in mask[a[1]] PROVE b = a[2]
            OBVIOUS
        <3>1. b \in Bits(a[1])
            BY <2>2 DEF TypeInv, BitsOK
        <3>2. CASE Kind[a[1]] = "tcp"
            <4>1. Pending(<<a[1], b>>)
                BY <2>2, <3>2 DEF OneOperation, Waiting
            <4>2. <<a[1], b>> \in Event
                BY <2>2, <3>1, EventMember
            <4>3. QED
                BY <1>1, <4>1, <4>2, InitiateFree
        <3>3. CASE Kind[a[1]] # "tcp"
            BY <2>2, <3>1, <3>3, OneBit
        <3>4. QED
            BY <3>2, <3>3
    <2>6. QED
        BY <1>0, <2>1, <2>2, <2>3, <2>4, <2>5, Types
<1>2. ASSUME upc[c] \in Arming, upc'[c] = upc[c], uobj'[c] = uobj[c], ubits'[c] = ubits[c]
      PROVE  /\ Waiting(ArmedEvent(c))'
             /\ fdOpen'[uobj'[c]] => /\ ubits'[c] = {ArmedEvent(c)'[2]}
                                     /\ mask'[uobj'[c]] = ubits'[c]
    <2>0. PICK e \in Event : e = ArmedEvent(c)
        BY <1>2, ActedOn
    <2>1. ArmedEvent(c)' = e
        BY <1>2, <2>0 DEF ArmedEvent
    <2>2. ~ArmFails(c)
        BY <1>2, Types DEF ArmFails, Return, Arming
    <2>3. e[1] = uobj[c] /\ Waiting(e)
        BY <1>2, <2>0, ActedOn DEF InCall
    <2>4. Waiting(e)'
        BY <1>2, <2>0, <2>2, InCallKept
    <2>5. ASSUME NEW r \in batch, r.desc = e[1] PROVE FALSE
        <3>1. PICK place \in OperationPlace : OperationAt(e[1], place)
            BY <2>3, PlaceOf, Types
        <3>2. QED
            BY <1>2, <2>3, <2>5, <3>1 DEF OperationAt
    <2>6. mask'[e[1]] = mask[e[1]]
        BY <2>3, <2>5, MaskKeptBy DEF Waiting
    <2>7. fdOpen'[e[1]] => fdOpen[e[1]]
        BY <2>3, OpenSteps, Types
    <2>8. fdOpen[e[1]] => ubits[c] = {e[2]} /\ mask[e[1]] = ubits[c]
        BY <1>2, <2>0, <2>3 DEF InCall
    <2>9. QED
        <3>1. Waiting(ArmedEvent(c))'
            BY <2>1, <2>4, Zenon DEF Waiting, Pending
        <3>2. uobj'[c] = e[1]
            BY <1>2, <2>3
        <3>3. QED
            BY <1>2, <2>1, <2>6, <2>7, <2>8, <3>1, <3>2
<1>3. QED
    BY <1>1, <1>2, ArmingSteps

\* A file is armed by arm, with the mask, and by the reactor, with what is left.
LEMMA InterestSteps ==
    ASSUME TypeInv, [Next]_vars, NEW d \in Desc, interest'[d] # {}
    PROVE  \/ interest'[d] = interest[d]
           \/ \E c \in Thread : Arm(c) /\ uobj[c] = d /\ interest'[d] = ubits[c]
           \/ Rearm /\ rdesc = d /\ interest'[d] = rtodo
<1>0. interest \in [Desc -> SUBSET Bit]
    BY DEF TypeInv, TypeOK
<1>1. ASSUME NEW c \in Thread, Begin(c) \/ Call(c)
      PROVE  interest'[d] = interest[d] \/ (Arm(c) /\ uobj[c] = d /\ interest'[d] = ubits[c])
    <2>1. CASE Arm(c)
        BY <1>0, <2>1 DEF Arm
    <2>2. CASE DestroyRemove(c) \/ DestroyClose(c)
        BY <1>0, <2>2 DEF DestroyRemove, DestroyClose
    <2>3. CASE ~(Arm(c) \/ DestroyRemove(c) \/ DestroyClose(c))
        <3>1. interest' = interest
            BY <1>1, <2>3, Zenon DEF Begin, Call, Destroy, Initiate, DestroyBegin, ArmFails,
               Dispose, Interrupt, DestroyEnd, kernel
        <3>2. QED
            BY <3>1
    <2>4. QED
        BY <2>1, <2>2, <2>3
<1>2. CASE Wait
    BY <1>2, ReportedWereArmed
<1>3. CASE Rearm
    BY <1>0, <1>3 DEF Rearm, Rearmed
<1>4. ASSUME Reactor \/ WaitInterrupted, ~Wait, ~Rearm PROVE interest' = interest
    BY <1>4, Zenon DEF Reactor, WaitInterrupted, Drain, ClearMask, RearmFails, MarkActive,
       Dispatch, ReportDone, StartDeletion, Delete, EndDeletion, kernel
<1>5. QED
    BY <1>1, <1>2, <1>3, <1>4, StepOf, TaskFrame, StrandFrame DEF vars, kernel

LEMMA InEpollNext ==
    ASSUME Simplex, TypeInv, ConveyorInv, [Next]_vars
    PROVE  InEpoll'
<1> USE DEF ConveyorInv, OperationsOK
<1> SUFFICES ASSUME NEW d \in Desc, interest'[d] # {}
             PROVE  mask'[d] = interest'[d] /\ \A b \in interest'[d] : Waiting(<<d, b>>)'
    BY DEF InEpoll, Waiting, Pending
<1>0. interest \in [Desc -> SUBSET Bit] /\ mask \in [Desc -> SUBSET Bit]
    BY DEF TypeInv, TypeOK
<1>1. CASE interest'[d] = interest[d]
    <2>1. /\ mask[d] = interest[d] /\ interest[d] # {}
          /\ \A b \in interest[d] : Waiting(<<d, b>>) /\ <<d, b>> \in Event
        BY <1>1, EventMember DEF InEpoll, TypeInv, BitsOK
    <2>2. \A b \in interest[d] : Waiting(<<d, b>>)'
        BY <2>1, OnDescriptorKept
    <2>3. ASSUME NEW r \in batch, r.desc = d PROVE FALSE
        <3>1. PICK place \in OperationPlace : OperationAt(d, place)
            BY PlaceOf
        <3>2. QED
            BY <2>1, <2>3, <3>1 DEF OperationAt
    <2>4. mask'[d] = mask[d]
        <3>1. PICK b \in interest[d] : Pending(<<d, b>>) /\ <<d, b>> \in Event
            BY <2>1 DEF Waiting
        <3>2. QED
            BY <2>3, <3>1, MaskKeptBy
    <2>5. QED
        BY <1>1, <2>1, <2>2, <2>4
<1>2. ASSUME NEW c \in Thread, Arm(c), uobj[c] = d, interest'[d] = ubits[c]
      PROVE  mask'[d] = interest'[d] /\ \A b \in interest'[d] : Waiting(<<d, b>>)'
    <2>1. upc[c] \in Arming /\ fdOpen[d]
        BY <1>2 DEF Arm, Arming
    <2>2. Waiting(ArmedEvent(c)) /\ ubits[c] = {ArmedEvent(c)[2]} /\ mask[d] = ubits[c]
        BY <1>2, <2>1 DEF InCall
    <2>3. ArmedEvent(c) = <<d, ArmedEvent(c)[2]>>
        BY <1>2 DEF ArmedEvent
    <2>4. UNCHANGED <<mask, react, complete, issued, called>>
        BY <1>2 DEF Arm, events, history
    <2>5. QED
        BY <1>2, <2>2, <2>3, <2>4 DEF Waiting, Pending
<1>3. ASSUME Rearm, rdesc = d, interest'[d] = rtodo
      PROVE  mask'[d] = interest'[d] /\ \A b \in interest'[d] : Waiting(<<d, b>>)'
    <2>1. mask[d] = rtodo /\ \A b \in rtodo : Waiting(<<d, b>>)
        BY <1>3 DEF Rearm, InReactor, TypeInv, BitsOK
    <2>2. UNCHANGED <<mask, react, complete, issued, called>>
        BY <1>3 DEF Rearm, events, history
    <2>3. QED
        BY <1>3, <2>1, <2>2 DEF Waiting, Pending
<1>4. QED
    BY <1>1, <1>2, <1>3, InterestSteps

LEMMA BatchFrame ==
    ASSUME [Next]_vars
    PROVE  Wait \/ batch' \subseteq batch
<1>1. ASSUME Reactor \/ WaitInterrupted, ~Wait PROVE batch' \subseteq batch
    <2>1. batch' = batch \/ \E r \in batch : batch' = batch \ {r}
        BY <1>1, Zenon DEF Reactor, WaitInterrupted, Drain, ClearMask, Rearm, RearmFails,
           MarkActive, Dispatch, ReportDone, StartDeletion, Delete, EndDeletion, reactor
    <2>2. QED
        BY <2>1
<1>2. QED
    BY <1>1, StepOf, CallFrame, TaskFrame, StrandFrame DEF vars, reactor

LEMMA InReportNext ==
    ASSUME Simplex, TypeInv, ConveyorInv, [Next]_vars
    PROVE  InReport'
<1> USE DEF ConveyorInv, DestructionInv, OperationsOK
<1>0. /\ batch \subseteq Report /\ batch' \subseteq Report
      /\ interest \in [Desc -> SUBSET Bit] /\ mask \in [Desc -> SUBSET Bit]
    BY TypeNext DEF TypeInv, TypeOK
<1>1. ASSUME batch' \subseteq batch, NEW r \in batch'
      PROVE  /\ mask'[r.desc] # {} /\ r.events \cap Bit \subseteq mask'[r.desc]
             /\ \A b \in mask'[r.desc] : Waiting(<<r.desc, b>>)'
             /\ Kind[r.desc] = "tcp" => mask'[r.desc] \subseteq r.events
             /\ \A q \in batch' : q.desc = r.desc => q = r
    <2> DEFINE d == r.desc
    <2>1. /\ d \in Desc /\ r \in batch
          /\ mask[d] # {} /\ r.events \cap Bit \subseteq mask[d]
          /\ \A b \in mask[d] : Waiting(<<d, b>>) /\ <<d, b>> \in Event
          /\ Kind[d] = "tcp" => mask[d] \subseteq r.events
          /\ \A q \in batch : q.desc = d => q = r
        BY <1>0, <1>1, EventMember DEF InReport, Report, TypeInv, BitsOK
    <2>2. mask'[d] = mask[d]
        <3>1. PICK b \in mask[d] : Pending(<<d, b>>) /\ <<d, b>> \in Event
            BY <2>1 DEF Waiting
        <3>2. ASSUME NEW q \in batch, q.desc = d, batch' = batch \ {q} PROVE FALSE
            BY <1>1, <2>1, <3>2
        <3>3. QED
            BY <3>1, <3>2, MaskKeptBy
    <2>3. \A b \in mask[d] : Waiting(<<d, b>>)'
        BY <2>1, OnDescriptorKept
    <2>4. QED
        BY <1>1, <2>1, <2>2, <2>3
<1>2. ASSUME Wait, NEW r \in batch'
      PROVE  /\ mask'[r.desc] # {} /\ r.events \cap Bit \subseteq mask'[r.desc]
             /\ \A b \in mask'[r.desc] : Waiting(<<r.desc, b>>)'
             /\ Kind[r.desc] = "tcp" => mask'[r.desc] \subseteq r.events
             /\ \A q \in batch' : q.desc = r.desc => q = r
    <2> DEFINE d == r.desc
    <2>1. /\ d \in Desc /\ interest[d] # {} /\ r.events \in Reportable(d)
          /\ \A q \in batch' : q.desc = d => q = r
        BY <1>2, ReportedWereArmed
    <2>2. UNCHANGED <<mask, react, complete, issued, called>>
        BY <1>2 DEF Wait, events, history
    <2>3. mask[d] = interest[d] /\ \A b \in interest[d] : Waiting(<<d, b>>)
        BY <2>1 DEF InEpoll
    <2>4. \A b \in mask[d] : Waiting(<<d, b>>)'
        BY <2>2, <2>3 DEF Waiting, Pending
    <2>5. r.events \cap Bit \subseteq interest[d]
        BY <2>1 DEF Reportable, Bit
    <2>6. Kind[d] = "tcp" => mask[d] \subseteq r.events
        <3> SUFFICES ASSUME Kind[d] = "tcp", NEW b \in mask[d] PROVE b \in r.events
            OBVIOUS
        <3>1. r.events \cap Bit # {}
            BY <2>1 DEF Simplex, Reportable
        <3>2. PICK a \in r.events \cap Bit : a \in mask[d]
            BY <2>3, <2>5, <3>1
        <3>3. a \in Bits(d) /\ b \in Bits(d) /\ Pending(<<d, a>>) /\ Pending(<<d, b>>)
            BY <2>1, <2>3, <3>2 DEF TypeInv, BitsOK, Waiting
        <3>4. a = b
            BY <2>1, <3>3 DEF OneOperation
        <3>5. QED
            BY <3>2, <3>4
    <2>7. QED
        BY <2>1, <2>2, <2>3, <2>4, <2>5, <2>6
<1>3. QED
    BY <1>1, <1>2, BatchFrame DEF InReport, Waiting, Pending

\* The reactor's own variables.
LEMMA ReportFrame ==
    ASSUME [Next]_vars
    PROVE  \/ UNCHANGED <<rpc, rdesc, revents, rtodo>>
           \/ ClearMask \/ Rearm \/ RearmFails \/ MarkActive \/ Dispatch \/ ReportDone
           \/ Wait \/ StartDeletion \/ EndDeletion \/ WaitInterrupted
<1>1. CASE Drain \/ Delete
    BY <1>1 DEF Drain, Delete, reactor
<1>2. QED
    BY <1>1, StepOf, CallFrame, TaskFrame, StrandFrame DEF Reactor, vars, reactor

LEMMA InReactorNext ==
    ASSUME Simplex, TypeInv, ConveyorInv, [Next]_vars
    PROVE  InReactor'
<1> USE DEF ConveyorInv, DestructionInv, OperationsOK
<1>0. /\ batch \subseteq Report /\ rtodo \subseteq Bit /\ hasActive \in [Event -> BOOLEAN]
      /\ interest \in [Desc -> SUBSET Bit] /\ mask \in [Desc -> SUBSET Bit]
      /\ None \notin Desc
    BY NoneIsNothing DEF TypeInv, TypeOK
<1>1. ASSUME UNCHANGED <<rpc, rdesc, revents, rtodo>> PROVE InReactor'
    <2> SUFFICES ASSUME NEW d \in Desc, d = rdesc PROVE InReactor'
        BY <1>1 DEF InReactor, TypeInv, TypeOK
    <2>1. \A b \in rtodo : Waiting(<<d, b>>) /\ <<d, b>> \in Event
        BY <1>0, EventMember DEF InReactor, TypeInv, BitsOK
    <2>2. ASSUME NEW b \in rtodo
          PROVE  Waiting(<<d, b>>)' /\ (hasActive[<<d, b>>] => hasActive'[<<d, b>>])
        BY <2>1, OnDescriptorKept
    <2>3. ASSUME rpc = "rearm" PROVE mask'[d] = mask[d]
        <3>1. rtodo # {} /\ ~ClearMask
            BY <1>0, <2>3 DEF InReactor, ClearMask
        <3>2. PICK b \in rtodo : Pending(<<d, b>>) /\ <<d, b>> \in Event
            BY <2>1, <3>1 DEF Waiting
        <3>3. QED
            BY <3>1, <3>2, MaskKeptBy
    <2>4. ASSUME rpc = "dispatch" PROVE hasActive'[<<d, First(rtodo)>>]
        <3>1. First(rtodo) \in rtodo /\ hasActive[<<d, First(rtodo)>>]
            BY <1>0, <2>4, FirstMember DEF InReactor, TypeInv, BitsOK
        <3>2. QED
            BY <2>2, <3>1
    <2>5. rdesc' = d /\ rtodo' = rtodo /\ rpc' = rpc /\ revents' = revents
        BY <1>1
    <2>6. \A b \in rtodo' : Waiting(<<rdesc, b>>)'
        BY <2>2, <2>5 DEF Waiting, Pending
    <2>7. rpc = "rearm" => /\ Kind[d] # "tcp" /\ revents \cap Bit = {}
                           /\ mask[d] = rtodo /\ rtodo # {}
        BY <1>0 DEF InReactor
    <2>8. rpc' = "rearm" => /\ Kind[rdesc'] # "tcp" /\ revents' \cap Bit = {}
                            /\ mask'[rdesc'] = rtodo' /\ rtodo' # {}
        BY <2>3, <2>5, <2>7
    <2>9. rpc' = "dispatch" => hasActive'[<<rdesc', First(rtodo')>>]
        BY <2>4, <2>5
    <2>10. QED
        BY <2>6, <2>8, <2>9 DEF InReactor
\* Operations that wait do so after a step of the reactor.
<1>2. ASSUME UNCHANGED <<react, complete, issued, called>>,
             \A b \in rtodo' : Waiting(<<rdesc', b>>),
             rpc' \notin {"rearm", "dispatch"}
      PROVE  InReactor'
    BY <1>2 DEF InReactor, Waiting, Pending
<1>3. CASE ClearMask
    <2>0. PICK r \in batch :
            /\ rdesc' = r.desc /\ revents' = r.events
            /\ mask' = [mask EXCEPT ![r.desc] = mask[r.desc] \ r.events]
            /\ rtodo' = IF mask[r.desc] \ r.events # {} THEN mask[r.desc] \ r.events
                                                       ELSE r.events \cap Bit
            /\ rpc' = IF mask[r.desc] \ r.events # {} THEN "rearm" ELSE "mark"
        BY <1>3 DEF ClearMask, MaskLeft, Dispatched
    <2>1. PICK d \in Desc : d = r.desc
        BY <1>0 DEF Report
    <2>2. /\ d \in Desc
          /\ mask[d] # {} /\ r.events \cap Bit \subseteq mask[d]
          /\ \A b \in mask[d] : Waiting(<<d, b>>) /\ b \in Bits(d)
          /\ Kind[d] = "tcp" => mask[d] \subseteq r.events
        BY <1>0, <2>1 DEF InReport, TypeInv, BitsOK
    <2>3. UNCHANGED <<react, complete, issued, called>>
        BY <1>3 DEF ClearMask, events, history
    <2>4. rdesc' = d /\ \A b \in rtodo' : Waiting(<<d, b>>)
        BY <2>0, <2>1, <2>2
    <2>5. CASE mask[d] \subseteq r.events
        BY <1>2, <2>0, <2>1, <2>3, <2>4, <2>5
    <2>6. CASE ~(mask[d] \subseteq r.events)
        <3>1. Kind[d] # "tcp"
            BY <2>2, <2>6
        <3>2. r.events \cap Bit = {}
            <4>1. \A a, b \in mask[d] : a = b
                BY <2>2, <3>1, OneBit
            <4>2. QED
                BY <2>2, <2>6, <4>1
        <3>3. mask'[d] = mask[d] \ r.events
            BY <1>0, <2>0, <2>1, <2>2
        <3>4. \A b \in rtodo' : Waiting(<<rdesc, b>>)'
            BY <2>3, <2>4 DEF Waiting, Pending
        <3>5. rtodo' = mask[d] \ r.events /\ rtodo' # {} /\ rpc' = "rearm"
            BY <2>0, <2>1, <2>6
        <3>6. QED
            BY <2>0, <2>4, <3>1, <3>2, <3>3, <3>4, <3>5 DEF InReactor
    <2>7. QED
        BY <2>5, <2>6
<1>4. CASE Rearm
    <2>1. /\ rdesc' = rdesc /\ rtodo' = revents \cap Bit /\ rpc' = "mark"
          /\ UNCHANGED <<react, complete, issued, called>>
        BY <1>4 DEF Rearm, Dispatched, events, history
    <2>2. rtodo' = {}
        BY <1>4, <2>1 DEF Rearm, InReactor, TypeInv, BitsOK
    <2>3. QED
        BY <1>2, <2>1, <2>2
<1>5. CASE RearmFails
    <2>1. /\ rdesc' = rdesc /\ rtodo' = Bits(rdesc) /\ rpc' = "mark" /\ rpc = "rearm"
          /\ UNCHANGED <<react, complete, issued, called>>
        BY <1>5 DEF RearmFails, events, history
    <2>2. /\ rdesc \in Desc /\ Kind[rdesc] # "tcp" /\ rtodo # {} /\ rtodo \subseteq Bits(rdesc)
          /\ \A b \in rtodo : Waiting(<<rdesc, b>>)
        BY <2>1 DEF InReactor, TypeInv, TypeOK, BitsOK
    <2>3. rtodo' \subseteq rtodo
        BY <2>1, <2>2, OneBit
    <2>4. QED
        BY <1>2, <2>1, <2>2, <2>3
<1>6. CASE MarkActive
    <2>1. /\ rtodo # {} /\ rpc' = "dispatch"
          /\ UNCHANGED <<rdesc, rtodo, react, complete, issued, called>>
          /\ hasActive' = [hasActive EXCEPT ![<<rdesc, First(rtodo)>>] = TRUE]
        BY <1>6 DEF MarkActive, history
    <2>2. <<rdesc, First(rtodo)>> \in Event /\ \A b \in rtodo : Waiting(<<rdesc, b>>)
        BY <1>0, <1>6, <2>1, FirstMember, EventMember
           DEF MarkActive, TypeInv, TypeOK, BitsOK, InReactor
    <2>3. hasActive'[<<rdesc, First(rtodo)>>]
        BY <1>0, <2>1, <2>2
    <2>4. \A b \in rtodo' : Waiting(<<rdesc, b>>)'
        BY <2>1, <2>2 DEF Waiting, Pending
    <2>5. hasActive'[<<rdesc', First(rtodo')>>]
        BY <2>1, <2>3
    <2>6. QED
        BY <2>1, <2>4, <2>5 DEF InReactor
<1>7. CASE Dispatch
    <2>1. /\ rdesc' = rdesc /\ rtodo' \subseteq rtodo /\ rpc' = "mark" /\ rpc = "dispatch"
          /\ UNCHANGED <<react, complete, issued, called>>
        BY <1>7 DEF Dispatch, events, history
    <2>2. QED
        BY <1>2, <2>1 DEF InReactor, TypeInv, BitsOK
<1>8. CASE ReportDone
    BY <1>8 DEF ReportDone, InReactor
<1>9. CASE Wait \/ StartDeletion \/ EndDeletion \/ WaitInterrupted
    <2>1. rdesc' = None
        BY <1>9 DEF Wait, StartDeletion, EndDeletion, WaitInterrupted, ReactorOK
    <2>2. QED
        BY <2>1 DEF InReactor
<1>10. QED
    BY <1>1, <1>3, <1>4, <1>5, <1>6, <1>7, <1>8, <1>9, ReportFrame

\* The task of an event on its way to react.
LEMMA TaskSteps ==
    ASSUME TypeInv, [Next]_vars, NEW i \in DOMAIN tasks', tasks'[i] \in Operations
    PROVE  \/ \E j \in DOMAIN tasks : tasks'[i] = tasks[j]
           \/ /\ Dispatch /\ rdesc \in Desc /\ First(rtodo) \in rtodo
              /\ tasks'[i].event = <<rdesc, First(rtodo)>>
<1>0. tasks \in Seq(Task) /\ deletion \in Seq(Event)
    BY Types
<1>1. CASE tasks' = tasks
    BY <1>1
<1>2. ASSUME NEW x \in Task, tasks' = Append(tasks, x)
      PROVE  tasks'[i] = x \/ \E j \in DOMAIN tasks : tasks'[i] = tasks[j]
    BY <1>0, <1>2, AfterEnqueue
<1>3. CASE Dispatch
    <2> DEFINE x == [event |-> <<rdesc, First(rtodo)>>, code |-> CodeOf(First(rtodo))]
    <2>1. rdesc \in Desc /\ First(rtodo) \in rtodo /\ x \in Task
        BY <1>3, EventMember, FirstMember DEF Dispatch, Task, CodeOf, TypeInv, TypeOK, BitsOK
    <2>2. tasks' = Append(tasks, x) /\ x.event = <<rdesc, First(rtodo)>>
        BY <1>3 DEF Dispatch
    <2> HIDE DEF x
    <2>3. QED
        BY <1>2, <1>3, <2>1, <2>2
<1>4. CASE Delete
    <2> DEFINE x == [event |-> Head(deletion), code |-> "FINAL"]
    <2>1. x \in Task /\ x \notin Operations
        BY <1>0, <1>4, Dequeued DEF Delete, Task, Operations
    <2>2. tasks' = Append(tasks, x)
        BY <1>4 DEF Delete
    <2> HIDE DEF x
    <2>3. QED
        BY <1>2, <2>1, <2>2
<1>5. ASSUME NEW w \in Worker, TakeTask(w) PROVE \E j \in DOMAIN tasks : tasks'[i] = tasks[j]
    <2>1. tasks # <<>> /\ tasks' = Tail(tasks)
        BY <1>5 DEF TakeTask
    <2>2. i + 1 \in DOMAIN tasks /\ tasks'[i] = tasks[i + 1]
        BY <1>0, <2>1, AfterDequeue
    <2>3. QED
        BY <2>2
<1>6. ASSUME Reactor \/ WaitInterrupted, ~Dispatch, ~Delete PROVE tasks' = tasks
    BY <1>6, Zenon DEF Reactor, WaitInterrupted, Wait, Drain, ClearMask, Rearm, RearmFails,
       MarkActive, ReportDone, StartDeletion, EndDeletion
<1>7. ASSUME NEW w \in Worker, React(w) \/ EnqueueFinal(w) PROVE tasks' = tasks
    BY <1>7 DEF React, EnqueueFinal
<1>8. QED
    BY <1>1, <1>3, <1>4, <1>5, <1>6, <1>7, StepOf, CallFrame, StrandFrame DEF TaskThread, vars

LEMMA InTaskNext ==
    ASSUME Simplex, TypeInv, ConveyorInv, [Next]_vars
    PROVE  InTask'
<1> USE DEF ConveyorInv, DestructionInv, OperationsOK
<1> SUFFICES ASSUME NEW i \in DOMAIN tasks', tasks'[i] \in Operations, NEW e, e = tasks'[i].event
             PROVE  Waiting(e)' /\ hasActive'[e]
    BY DEF InTask, Waiting, Pending
<1>0. e \in Event
    BY DEF Operations
<1>1. ASSUME NEW j \in DOMAIN tasks, tasks'[i] = tasks[j] PROVE Waiting(e)' /\ hasActive'[e]
    BY <1>0, <1>1, InTaskKept
<1>2. ASSUME Dispatch, rdesc \in Desc, First(rtodo) \in rtodo, e = <<rdesc, First(rtodo)>>
      PROVE  Waiting(e)' /\ hasActive'[e]
    <2>1. Waiting(e) /\ hasActive[e]
        BY <1>2, NoneIsNothing DEF InReactor, Dispatch
    <2>2. UNCHANGED <<react, complete, issued, called, hasActive>>
        BY <1>2 DEF Dispatch, events, history
    <2>3. QED
        BY <2>1, <2>2 DEF Waiting, Pending
<1>3. QED
    BY <1>1, <1>2, TaskSteps

LEMMA WorkerSteps ==
    ASSUME TypeInv, [Next]_vars, NEW w \in Worker, worker'[w] \in Operations
    PROVE  \/ worker'[w] = worker[w] /\ ~React(w)
           \/ TakeTask(w) /\ worker'[w] = tasks[1] /\ 1 \in DOMAIN tasks
<1> USE Types
<1>0. None \notin Operations
    BY DEF Task, Operations
<1>1. ASSUME NEW v \in Worker, TakeTask(v)
      PROVE  worker'[w] = worker[w] \/ (v = w /\ worker'[w] = tasks[1] /\ 1 \in DOMAIN tasks)
    <2>1. tasks # <<>> /\ worker' = [worker EXCEPT ![v] = Head(tasks)]
        BY <1>1 DEF TakeTask
    <2>2. 1 \in DOMAIN tasks /\ tasks[1] = Head(tasks)
        BY <2>1, AfterDequeue
    <2>3. QED
        BY <2>1, <2>2
<1>2. ASSUME NEW v \in Worker, React(v) \/ EnqueueFinal(v)
      PROVE  v # w /\ worker'[w] = worker[w]
    <2>1. worker' = [worker EXCEPT ![v] = None]
        BY <1>2 DEF React, EnqueueFinal
    <2>2. QED
        BY <1>0, <2>1
<1>3. React(w) => worker'[w] # worker[w] /\ ~TakeTask(w)
    <2> SUFFICES ASSUME React(w) PROVE worker'[w] # worker[w] /\ ~TakeTask(w)
        OBVIOUS
    <2>1. worker[w] # None /\ worker'[w] = None
        BY DEF React
    <2>2. QED
        BY <2>1 DEF TakeTask
<1>4. QED
    BY <1>1, <1>2, <1>3, StepOf, CallFrame, ReactorFrame, StrandFrame DEF TaskThread, vars

LEMMA InWorkerNext ==
    ASSUME Simplex, TypeInv, ConveyorInv, [Next]_vars
    PROVE  InWorker'
<1> USE DEF ConveyorInv, DestructionInv, OperationsOK
<1> SUFFICES ASSUME NEW w \in Worker, worker'[w] \in Operations, NEW e, e = worker'[w].event
             PROVE  Waiting(e)' /\ hasActive'[e]
    BY DEF InWorker, Waiting, Pending
<1>0. e \in Event
    BY DEF Operations
<1>1. ASSUME worker'[w] = worker[w], ~React(w) PROVE Waiting(e)' /\ hasActive'[e]
    BY <1>0, <1>1, InWorkerKept
<1>2. ASSUME TakeTask(w), worker'[w] = tasks[1], 1 \in DOMAIN tasks
      PROVE  Waiting(e)' /\ hasActive'[e]
    BY <1>0, <1>2, InTaskKept
<1>3. QED
    BY <1>1, <1>2, WorkerSteps

\* What a step does to the queue of a strand.
LEMMA StrandSteps ==
    ASSUME TypeInv, [Next]_vars, NEW s \in Strand
    PROVE  \/ completion'[s] = completion[s]
           \/ \E c \in Thread : ArmFails(c) /\ completion'[s] =
                 Append(completion[s], [event |-> ArmedEvent(c), final |-> FALSE])
           \/ \E w \in Worker : React(w) /\ completion'[s] =
                 Append(completion[s], [event |-> worker[w].event, final |-> FALSE])
           \/ \E w \in Worker : EnqueueFinal(w) /\ completion'[s] =
                 Append(completion[s], [event |-> worker[w].event, final |-> TRUE])
           \/ /\ Complete(s) \/ Final(s)
              /\ completion[s] # <<>> /\ completion'[s] = Tail(completion[s])
           \/ /\ Final(s) /\ hasActive[Head(completion[s]).event]
              /\ completion[s] # <<>>
              /\ completion'[s] = Append(Tail(completion[s]), Head(completion[s]))
<1> USE Types
<1>1. ASSUME NEW c \in Thread, Begin(c) \/ Call(c)
      PROVE  \/ completion'[s] = completion[s]
             \/ ArmFails(c) /\ completion'[s] =
                   Append(completion[s], [event |-> ArmedEvent(c), final |-> FALSE])
    <2>1. CASE ArmFails(c)
        <3>1. completion' = [completion EXCEPT ![StrandOf[uobj[c]]] =
                                Append(@, [event |-> ArmedEvent(c), final |-> FALSE])]
            BY <2>1 DEF ArmFails
        <3>2. QED
            BY <2>1, <3>1
    <2>2. CASE ~ArmFails(c)
        <3>1. completion' = completion
            BY <1>1, <2>2, Zenon DEF Begin, Call, Destroy, Initiate, DestroyBegin, Arm,
               DestroyRemove, DestroyClose, Dispose, Interrupt, DestroyEnd
        <3>2. QED
            BY <3>1
    <2>3. QED
        BY <2>1, <2>2
<1>2. ASSUME NEW w \in Worker, React(w)
      PROVE  \/ completion'[s] = completion[s]
             \/ completion'[s] = Append(completion[s], [event |-> worker[w].event,
                                                        final |-> FALSE])
    <2>1. completion' = [completion EXCEPT ![StrandOf[worker[w].event[1]]] =
                            Append(@, [event |-> worker[w].event, final |-> FALSE])]
        BY <1>2 DEF React
    <2>2. QED
        BY <2>1
<1>3. ASSUME NEW w \in Worker, EnqueueFinal(w)
      PROVE  \/ completion'[s] = completion[s]
             \/ completion'[s] = Append(completion[s], [event |-> worker[w].event,
                                                        final |-> TRUE])
    <2>1. completion' = [completion EXCEPT ![StrandOf[worker[w].event[1]]] =
                            Append(@, [event |-> worker[w].event, final |-> TRUE])]
        BY <1>3 DEF EnqueueFinal
    <2>2. QED
        BY <2>1
<1>4. ASSUME NEW w \in Worker, TakeTask(w) PROVE completion' = completion
    BY <1>4 DEF TakeTask
<1>5. ASSUME NEW z \in Strand, Complete(z)
      PROVE  \/ completion'[s] = completion[s]
             \/ z = s /\ completion[s] # <<>> /\ completion'[s] = Tail(completion[s])
    BY <1>5 DEF Complete, IsNext
<1>6. ASSUME NEW z \in Strand, CallbackReturn(z) PROVE completion' = completion
    BY <1>6 DEF CallbackReturn
<1>7. ASSUME NEW z \in Strand, Final(z)
      PROVE  \/ completion'[s] = completion[s]
             \/ z = s /\ completion[s] # <<>> /\ completion'[s] = Tail(completion[s])
             \/ /\ z = s /\ hasActive[Head(completion[s]).event]
                /\ completion[s] # <<>>
                /\ completion'[s] = Append(Tail(completion[s]), Head(completion[s]))
    <2>1. /\ completion[z] # <<>>
          /\ \/ completion' = [completion EXCEPT ![z] = Tail(@)]
             \/ /\ hasActive[Head(completion[z]).event]
                /\ completion' = [completion EXCEPT ![z] = Append(Tail(@), Head(@))]
        BY <1>7, Zenon DEF Final, IsNext, Postponed
    <2>2. QED
        BY <2>1
<1>8. QED
    BY <1>1, <1>2, <1>3, <1>4, <1>5, <1>6, <1>7, StepOf, ReactorFrame
       DEF TaskThread, StrandThread, vars

LEMMA InStrandNext ==
    ASSUME Simplex, TypeInv, ConveyorInv, [Next]_vars
    PROVE  InStrand'
<1> USE DEF ConveyorInv, DestructionInv, OperationsOK
<1> SUFFICES ASSUME NEW s \in Strand, NEW i \in DOMAIN completion'[s],
                    completion'[s][i] \in Completions, NEW e, e = completion'[s][i].event
             PROVE  Reacted(e)'
    BY DEF InStrand, Reacted, Pending
<1>0. e \in Event /\ completion[s] \in Seq(Completion)
    BY Types DEF Completions
<1>1. ASSUME NEW j \in DOMAIN completion[s], completion'[s][i] = completion[s][j],
             ~(j = 1 /\ Complete(s))
      PROVE  Reacted(e)'
    BY <1>0, <1>1, InStrandKept
\* React and the failed epoll_ctl hand the operation over to complete.
<1>2. ASSUME Waiting(e), UNCHANGED <<issued, called>>,
             react' = [react EXCEPT ![e] = 0], complete' = [complete EXCEPT ![e] = issued[e]]
      PROVE  Reacted(e)'
    BY <1>0, <1>2, Types DEF Waiting, Reacted, Pending
<1>3. CASE Complete(s) \/ Final(s)
    <2>1. ASSUME completion[s] # <<>>, completion'[s] = Tail(completion[s]) PROVE Reacted(e)'
        <3>1. i \in Nat /\ i > 0 /\ i + 1 \in DOMAIN completion[s]
              /\ completion'[s][i] = completion[s][i + 1]
            BY <1>0, <2>1, AfterDequeue
        <3>2. i + 1 # 1
            BY <3>1
        <3>3. QED
            BY <1>1, <3>1, <3>2
    <2>2. ASSUME Final(s), completion[s] # <<>>,
                 completion'[s] = Append(Tail(completion[s]), Head(completion[s]))
          PROVE  Reacted(e)'
        <3>1. CASE i = Len(completion[s])
            <4>1. completion'[s][i] = Head(completion[s])
                BY <1>0, <2>2, <3>1, AfterRequeue
            <4>2. Head(completion[s]).final = TRUE
                BY <2>2 DEF Final, IsNext
            <4>3. QED
                BY <4>1, <4>2 DEF Completions
        <3>2. CASE i # Len(completion[s])
            <4>1. i \in Nat /\ i > 0 /\ i + 1 \in DOMAIN completion[s]
                  /\ completion'[s][i] = completion[s][i + 1]
                BY <1>0, <2>2, <3>2, AfterRequeue
            <4>2. i + 1 # 1
                BY <4>1
            <4>3. QED
                BY <1>1, <4>1, <4>2
        <3>3. QED
            BY <3>1, <3>2
    <2>3. ASSUME Complete(s) PROVE completion[s] # <<>> /\ completion'[s] = Tail(completion[s])
        BY <2>3, Types DEF Complete, IsNext
    <2>4. ASSUME Final(s)
          PROVE  /\ completion[s] # <<>>
                 /\ \/ completion'[s] = Tail(completion[s])
                    \/ completion'[s] = Append(Tail(completion[s]), Head(completion[s]))
        <3>1. /\ completion[s] # <<>>
              /\ \/ completion' = [completion EXCEPT ![s] = Tail(@)]
                 \/ completion' = [completion EXCEPT ![s] = Append(Tail(@), Head(@))]
            BY <2>4, Zenon DEF Final, IsNext
        <3>2. QED
            BY <3>1, Types
    <2>5. QED
        BY <1>3, <2>1, <2>2, <2>3, <2>4
<1>4. CASE ~(Complete(s) \/ Final(s))
    <2>1. CASE completion'[s] = completion[s]
        BY <1>1, <1>4, <2>1
    <2>2. ASSUME NEW x \in Completion, completion'[s] = Append(completion[s], x)
          PROVE  Reacted(e)' \/ completion'[s][i] = x
        <3>1. CASE i \in DOMAIN completion[s]
            <4>1. completion'[s][i] = completion[s][i]
                BY <1>0, <2>2, <3>1, AfterEnqueue
            <4>2. QED
                BY <1>1, <1>4, <3>1, <4>1
        <3>2. CASE i \notin DOMAIN completion[s]
            BY <1>0, <2>2, <3>2, AfterEnqueue
        <3>3. QED
            BY <3>1, <3>2
    <2>3. ASSUME NEW c \in Thread, ArmFails(c), completion'[s] =
                    Append(completion[s], [event |-> ArmedEvent(c), final |-> FALSE])
          PROVE  Reacted(e)'
        <3>1. PICK a \in Event : a = ArmedEvent(c) /\ Waiting(a)
            BY <2>3, ActedOn DEF InCall
        <3>2. /\ react' = [react EXCEPT ![a] = 0] /\ complete' = [complete EXCEPT ![a] = issued[a]]
              /\ UNCHANGED <<issued, called>>
            BY <2>3, <3>1 DEF ArmFails, history
        <3>3. [event |-> a, final |-> FALSE] \in Completion
            BY DEF Completion
        <3>4. Reacted(e)' \/ completion'[s][i] = [event |-> a, final |-> FALSE]
            BY <2>2, <2>3, <3>1, <3>3
        <3>5. Reacted(e)' \/ e = a
            BY <3>4
        <3>6. QED
            BY <1>2, <3>1, <3>2, <3>5
    <2>4. ASSUME NEW w \in Worker, React(w), completion'[s] =
                    Append(completion[s], [event |-> worker[w].event, final |-> FALSE])
          PROVE  Reacted(e)'
        <3>1. PICK a \in Event : a = worker[w].event /\ Waiting(a)
            BY <2>4, ActedOn DEF InWorker, OperationsOf
        <3>2. /\ react' = [react EXCEPT ![a] = 0] /\ complete' = [complete EXCEPT ![a] = issued[a]]
              /\ UNCHANGED <<issued, called>>
            BY <2>4, <3>1 DEF React, history, Waiting
        <3>3. [event |-> a, final |-> FALSE] \in Completion
            BY DEF Completion
        <3>4. Reacted(e)' \/ completion'[s][i] = [event |-> a, final |-> FALSE]
            BY <2>2, <2>4, <3>1, <3>3
        <3>5. Reacted(e)' \/ e = a
            BY <3>4
        <3>6. QED
            BY <1>2, <3>1, <3>2, <3>5
    <2>5. ASSUME NEW w \in Worker, EnqueueFinal(w), completion'[s] =
                    Append(completion[s], [event |-> worker[w].event, final |-> TRUE])
          PROVE  Reacted(e)'
        <3>1. worker[w] # None
            BY <2>5 DEF EnqueueFinal
        <3>2. [event |-> worker[w].event, final |-> TRUE] \in Completion
            BY <3>1, Types DEF Completion, Task
        <3>3. Reacted(e)' \/ completion'[s][i] = [event |-> worker[w].event, final |-> TRUE]
            BY <2>2, <2>5, <3>2
        <3>4. completion'[s][i].final = FALSE
            BY DEF Completions
        <3>5. QED
            BY <3>3, <3>4
    <2>6. QED
        BY <1>4, <2>1, <2>3, <2>4, <2>5, StrandSteps
<1>5. QED
    BY <1>3, <1>4

\* An event becomes inactive when its operation completes.
LEMMA ActiveSteps ==
    ASSUME TypeInv, [Next]_vars, NEW e \in Event, hasActive[e], ~hasActive'[e]
    PROVE  \E s \in Strand : Complete(s) /\ Head(completion[s]).event = e
<1> USE Types
<1>1. CASE Reactor \/ WaitInterrupted
    <2>1. hasActive' = hasActive \/ \E a : hasActive' = [hasActive EXCEPT ![a] = TRUE]
        BY <1>1, Zenon DEF Reactor, WaitInterrupted, Wait, Drain, ClearMask, Rearm, RearmFails,
           MarkActive, Dispatch, ReportDone, StartDeletion, Delete, EndDeletion, events
    <2>2. QED
        BY <2>1
<1>2. ASSUME NEW s \in Strand, Complete(s) PROVE Head(completion[s]).event = e
    <2>1. hasActive' = [hasActive EXCEPT ![Head(completion[s]).event] = FALSE]
        BY <1>2 DEF Complete, NoLongerActive
    <2>2. QED
        BY <2>1
<1>3. ASSUME NEW s \in Strand, CallbackReturn(s) \/ Final(s) PROVE hasActive' = hasActive
    BY <1>3 DEF CallbackReturn, Final, events
<1>4. QED
    BY <1>1, <1>2, <1>3, StepOf, CallFrame, TaskFrame DEF StrandThread, vars, events

LEMMA FinalIsLastNext ==
    ASSUME Simplex, TypeInv, ConveyorInv, [Next]_vars
    PROVE  FinalIsLast'
<1> USE DEF ConveyorInv, DestructionInv, OperationsOK
<1> SUFFICES ASSUME NEW s \in Strand, NEW i \in DOMAIN completion'[s],
                    NEW j \in DOMAIN completion'[s], NEW e \in Event,
                    completion'[s][i] = FinalCompletion(e),
                    completion'[s][j] = [event |-> e, final |-> FALSE],
                    ~hasActive'[e]
             PROVE  j < i
    BY DEF FinalIsLast, FinalCompletion
<1> DEFINE q == completion[s]
           op == [event |-> e, final |-> FALSE]
<1>0. q \in Seq(Completion) /\ FinalCompletion(e) # op /\ op \in Completion
    BY Types DEF FinalCompletion, Completion
<1>1. StrandOf[e[1]] = s
    <2>1. StrandsOK'
        BY StrandsNext
    <2>2. QED
        BY <2>1 DEF StrandsOK
<1>2. ~hasActive[e]
    <2> SUFFICES ASSUME NEW z \in Strand, Complete(z), Head(completion[z]).event = e PROVE FALSE
        BY ActiveSteps
    <2>1. IsNext(z, FALSE) /\ completion[z] # <<>>
        BY DEF Complete, IsNext
    <2>2. z = s /\ Head(q) \in CompletionsOf(e[1])
        BY <1>1, <2>1, CompletedEvent
    <2>3. completion'[s] = Tail(q)
        BY <2>2, Types DEF Complete
    <2>4. AtMostOne(q, CompletionsOf(e[1]))
        BY <1>1, PlaceOf, Types DEF OperationAt, OnlyIf
    <2>5. NoneOf(Tail(q), CompletionsOf(e[1]))
        BY <1>0, <2>1, <2>2, <2>4, DequeueOne
    <2>6. op \in CompletionsOf(e[1])
        BY DEF CompletionsOf, Completions
    <2>7. QED
        BY <2>3, <2>5, <2>6 DEF NoneOf
<1>3. ASSUME NEW k \in DOMAIN q, NEW l \in DOMAIN q, q[k] = FinalCompletion(e), q[l] = op
      PROVE  l < k
    BY <1>2, <1>3 DEF FinalIsLast
<1>4. CASE completion'[s] = q
    BY <1>3, <1>4
<1>5. ASSUME NEW x \in Completion, completion'[s] = Append(q, x)
      PROVE  j < i \/ (x = op /\ i \in DOMAIN q /\ q[i] = FinalCompletion(e))
    <2> HIDE DEF q, op
    <2>1. ASSUME NEW k \in DOMAIN completion'[s]
          PROVE  \/ k \in DOMAIN q /\ completion'[s][k] = q[k] /\ k < Len(q) + 1
                 \/ k = Len(q) + 1 /\ completion'[s][k] = x
        BY <1>0, <1>5, AfterEnqueue
    <2>2. completion'[s][i] = FinalCompletion(e) /\ completion'[s][j] = op
        BY DEF op
    <2>3. \/ i \in DOMAIN q /\ q[i] = FinalCompletion(e)
          \/ i = Len(q) + 1 /\ x = FinalCompletion(e)
        BY <2>1, <2>2
    <2>4. \/ j \in DOMAIN q /\ q[j] = op /\ j < Len(q) + 1
          \/ j = Len(q) + 1 /\ x = op
        BY <2>1, <2>2
    <2>5. QED
        BY <1>0, <1>3, <2>3, <2>4
\* An operation that fails on the calling thread is one of a live object.
<1>6. ASSUME NEW c \in Thread, ArmFails(c),
             completion'[s] = Append(q, [event |-> ArmedEvent(c), final |-> FALSE])
      PROVE  j < i
    <2>1. PICK a \in Event : a = ArmedEvent(c) /\ inScope[a[1]]
        BY <1>6, ActedOn DEF CallsOK
    <2>2. [event |-> a, final |-> FALSE] \in Completion
        BY DEF Completion
    <2>3. ASSUME a = e, i \in DOMAIN q, q[i] = FinalCompletion(e) PROVE FALSE
        <3>1. PICK place \in FinalPlace : FinalAt(e, place)
            BY DEF OneFinalPlace
        <3>2. place = "strand"
            BY <1>1, <2>3, <3>1 DEF FinalAt, OnlyIf, NoneOf
        <3>3. e \in finals
            BY <3>1, <3>2 DEF FinalAt
        <3>4. QED
            BY <2>1, <2>3, <3>3 DEF TakenOnce
    <2>4. QED
        BY <1>5, <1>6, <2>1, <2>2, <2>3
\* One that has reacted is active, and postpones the final event.
<1>7. ASSUME NEW w \in Worker, React(w),
             completion'[s] = Append(q, [event |-> worker[w].event, final |-> FALSE])
      PROVE  j < i
    <2>1. worker[w].event \in Event /\ hasActive[worker[w].event]
        BY <1>7, ActedOn DEF InWorker, OperationsOf
    <2>2. [event |-> worker[w].event, final |-> FALSE] \in Completion
        BY <2>1 DEF Completion
    <2>3. QED
        BY <1>2, <1>5, <1>7, <2>1, <2>2
<1>8. ASSUME NEW w \in Worker, EnqueueFinal(w),
             completion'[s] = Append(q, [event |-> worker[w].event, final |-> TRUE])
      PROVE  j < i
    <2>1. worker[w] # None
        BY <1>8 DEF EnqueueFinal
    <2>2. [event |-> worker[w].event, final |-> TRUE] \in Completion
        BY <2>1, Types DEF Completion, Task
    <2>3. QED
        BY <1>5, <1>8, <2>2
<1>9. CASE q # <<>> /\ completion'[s] = Tail(q)
    <2> HIDE DEF q, op
    <2>1. /\ i \in Nat /\ i + 1 \in DOMAIN q /\ q[i + 1] = FinalCompletion(e)
          /\ j \in Nat /\ j + 1 \in DOMAIN q /\ q[j + 1] = op
        BY <1>0, <1>9, AfterDequeue DEF op
    <2>2. j + 1 < i + 1
        BY <1>3, <2>1
    <2>3. QED
        BY <2>1, <2>2
<1>10. CASE /\ Final(s) /\ hasActive[Head(q).event] /\ q # <<>>
            /\ completion'[s] = Append(Tail(q), Head(q))
    <2>1. Head(q).final = TRUE
        BY <1>10 DEF Final, IsNext
    <2>2. Head(q) # FinalCompletion(e) /\ Head(q) # op
        BY <1>2, <1>10, <2>1 DEF FinalCompletion
    <2> HIDE DEF q, op
    <2>3. i # Len(q) /\ j # Len(q)
        BY <1>0, <1>10, <2>2, AfterRequeue DEF op
    <2>4. /\ i \in Nat /\ i + 1 \in DOMAIN q /\ q[i + 1] = FinalCompletion(e)
          /\ j \in Nat /\ j + 1 \in DOMAIN q /\ q[j + 1] = op
        BY <1>0, <1>10, <2>3, AfterRequeue DEF op
    <2>5. j + 1 < i + 1
        BY <1>3, <2>4
    <2>6. QED
        BY <2>4, <2>5
<1>11. QED
    BY <1>4, <1>6, <1>7, <1>8, <1>9, <1>10, StrandSteps

-----------------------------------------------------------------------------
(* Operations: each has one place.                                          *)

\* An operation enters a strand by react or by a failed epoll_ctl.
LEMMA StrandQueueNext ==
    ASSUME TypeInv, [Next]_vars, NEW d \in Desc, NEW X, X = CompletionsOf(d),
           NEW q, q = completion[StrandOf[d]], NEW r, r = completion'[StrandOf[d]],
           \A c \in Thread : ArmFails(c) => uobj[c] # d,
           \A w \in Worker : React(w) => worker[w].event[1] # d
    PROVE  (NoneOf(q, X) => NoneOf(r, X)) /\ (AtMostOne(q, X) => AtMostOne(r, X))
<1>0. StrandOf[d] \in Strand /\ q \in Seq(Completion)
    BY Types
<1>1. ASSUME NEW x \in Completion, x \notin X, r = Append(q, x)
      PROVE  (NoneOf(q, X) => NoneOf(r, X)) /\ (AtMostOne(q, X) => AtMostOne(r, X))
    BY <1>0, <1>1, EnqueueOther
<1>2. CASE r = q
    BY <1>2
<1>3. ASSUME NEW c \in Thread, ArmFails(c),
             r = Append(q, [event |-> ArmedEvent(c), final |-> FALSE])
      PROVE  (NoneOf(q, X) => NoneOf(r, X)) /\ (AtMostOne(q, X) => AtMostOne(r, X))
    <2>1. ArmedEvent(c) \in Event /\ ArmedEvent(c)[1] # d
        BY <1>3, ActedOn
    <2>2. [event |-> ArmedEvent(c), final |-> FALSE] \in Completion \ X
        BY <2>1 DEF Completion, CompletionsOf
    <2>3. QED
        BY <1>1, <1>3, <2>2
<1>4. ASSUME NEW w \in Worker, React(w),
             r = Append(q, [event |-> worker[w].event, final |-> FALSE])
      PROVE  (NoneOf(q, X) => NoneOf(r, X)) /\ (AtMostOne(q, X) => AtMostOne(r, X))
    <2>1. worker[w].event \in Event /\ worker[w].event[1] # d
        BY <1>4, ActedOn
    <2>2. [event |-> worker[w].event, final |-> FALSE] \in Completion \ X
        BY <2>1 DEF Completion, CompletionsOf
    <2>3. QED
        BY <1>1, <1>4, <2>2
<1>5. ASSUME NEW w \in Worker, EnqueueFinal(w),
             r = Append(q, [event |-> worker[w].event, final |-> TRUE])
      PROVE  (NoneOf(q, X) => NoneOf(r, X)) /\ (AtMostOne(q, X) => AtMostOne(r, X))
    <2>1. worker[w] # None
        BY <1>5 DEF EnqueueFinal
    <2>2. worker[w].event \in Event
        BY <2>1, Types DEF Task
    <2>3. [event |-> worker[w].event, final |-> TRUE] \in Completion \ X
        BY <2>2 DEF Completion, CompletionsOf, Completions
    <2>4. QED
        BY <1>1, <1>5, <2>3
<1>6. CASE q # <<>> /\ r = Tail(q)
    BY <1>0, <1>6, DequeueAny
<1>7. CASE q # <<>> /\ r = Append(Tail(q), Head(q))
    BY <1>0, <1>7, Requeue
<1>8. QED
    BY <1>0, <1>2, <1>3, <1>4, <1>5, <1>6, <1>7, StrandSteps

\* It enters the queue of tasks when it is dispatched.
LEMMA TaskQueueNext ==
    ASSUME TypeInv, [Next]_vars, NEW d \in Desc, NEW X, X = OperationsOf(d),
           ~(Dispatch /\ rdesc = d)
    PROVE  /\ NoneOf(tasks, X) => NoneOf(tasks', X)
           /\ AtMostOne(tasks, X) => AtMostOne(tasks', X)
<1>0. tasks \in Seq(Task) /\ deletion \in Seq(Event)
    BY Types
<1>1. ASSUME NEW x \in Task, x \notin X, tasks' = Append(tasks, x)
      PROVE  /\ NoneOf(tasks, X) => NoneOf(tasks', X)
             /\ AtMostOne(tasks, X) => AtMostOne(tasks', X)
    BY <1>0, <1>1, EnqueueOther
<1>2. CASE Dispatch
    <2> DEFINE x == [event |-> <<rdesc, First(rtodo)>>, code |-> CodeOf(First(rtodo))]
    <2>1. x \in Task
        BY <1>2, EventMember, FirstMember DEF Dispatch, Task, CodeOf, TypeInv, TypeOK, BitsOK
    <2>2. x \notin X
        BY <1>2 DEF OperationsOf
    <2>3. tasks' = Append(tasks, x)
        BY <1>2 DEF Dispatch
    <2> HIDE DEF x
    <2>4. QED
        BY <1>1, <2>1, <2>2, <2>3
<1>3. CASE Delete
    <2> DEFINE x == [event |-> Head(deletion), code |-> "FINAL"]
    <2>1. x \in Task /\ x \notin X
        BY <1>0, <1>3, Dequeued DEF Delete, Task, Operations, OperationsOf
    <2>2. tasks' = Append(tasks, x)
        BY <1>3 DEF Delete
    <2> HIDE DEF x
    <2>3. QED
        BY <1>1, <2>1, <2>2
<1>4. ASSUME NEW w \in Worker, TakeTask(w)
      PROVE  /\ NoneOf(tasks, X) => NoneOf(tasks', X)
             /\ AtMostOne(tasks, X) => AtMostOne(tasks', X)
    BY <1>0, <1>4, DequeueAny DEF TakeTask
<1>5. ASSUME Reactor \/ WaitInterrupted, ~Dispatch, ~Delete PROVE tasks' = tasks
    BY <1>5, Zenon DEF Reactor, WaitInterrupted, Wait, Drain, ClearMask, Rearm, RearmFails,
       MarkActive, ReportDone, StartDeletion, EndDeletion
<1>6. ASSUME NEW w \in Worker, React(w) \/ EnqueueFinal(w) PROVE tasks' = tasks
    BY <1>6 DEF React, EnqueueFinal
<1>7. ASSUME tasks' = tasks
      PROVE  /\ NoneOf(tasks, X) => NoneOf(tasks', X)
             /\ AtMostOne(tasks, X) => AtMostOne(tasks', X)
    BY <1>7
<1>8. QED
    BY <1>2, <1>3, <1>4, <1>5, <1>6, <1>7, StepOf, CallFrame, StrandFrame DEF TaskThread, vars

\* And a task thread when its task is dequeued.
LEMMA WorkerNext ==
    ASSUME TypeInv, [Next]_vars, NEW d \in Desc, NEW X, X = OperationsOf(d),
           \A w \in Worker : TakeTask(w) => Head(tasks) \notin X
    PROVE  /\ NoneOf(worker, X) => NoneOf(worker', X)
           /\ AtMostOne(worker, X) => AtMostOne(worker', X)
<1> USE Types
<1>0. None \notin X
    BY DEF OperationsOf, Operations, Task
<1>1. ASSUME NEW w \in Worker, NEW x, x \notin X, worker' = [worker EXCEPT ![w] = x]
      PROVE  /\ NoneOf(worker, X) => NoneOf(worker', X)
             /\ AtMostOne(worker, X) => AtMostOne(worker', X)
    BY <1>1 DEF NoneOf, AtMostOne
<1>2. ASSUME NEW w \in Worker, TaskThread(w)
      PROVE  \E x : x \notin X /\ worker' = [worker EXCEPT ![w] = x]
    <2>1. CASE TakeTask(w)
        BY <2>1 DEF TakeTask
    <2>2. CASE React(w) \/ EnqueueFinal(w)
        BY <1>0, <2>2 DEF React, EnqueueFinal
    <2>3. QED
        BY <1>2, <2>1, <2>2 DEF TaskThread
<1>3. ASSUME worker' = worker
      PROVE  /\ NoneOf(worker, X) => NoneOf(worker', X)
             /\ AtMostOne(worker, X) => AtMostOne(worker', X)
    BY <1>3
<1>4. QED
    BY <1>1, <1>2, <1>3, StepOf, CallFrame, ReactorFrame, StrandFrame DEF vars

\* The steps that take the operation of d from one place to the next.
Moves(d) ==
    \/ \E c \in Thread : \/ \E e \in EventsOf(d) : Initiate(c, e)
                         \/ uobj[c] = d /\ (Arm(c) \/ ArmFails(c))
    \/ Wait /\ \E r \in batch' : r.desc = d
    \/ ClearMask /\ rdesc' = d
    \/ rdesc = d /\ (Rearm \/ Dispatch)
    \/ \E w \in Worker : \/ TakeTask(w) /\ Head(tasks) \in OperationsOf(d)
                         \/ React(w) /\ worker[w].event[1] = d

\* No other step adds an entry anywhere.
LEMMA PlaceKept ==
    ASSUME TypeInv, ReactorOK, [Next]_vars, NEW d \in Desc, ~Moves(d),
           NEW place \in OperationPlace, OperationAt(d, place)
    PROVE  OperationAt(d, place)'
<1>0. \A c \in Thread, e \in Event : Initiate(c, e) => e[1] # d
    BY Types DEF Moves, EventsOf
<1>1. \A c \in Thread : upc'[c] \in Arming /\ uobj'[c] = d => place = "call"
    <2> SUFFICES ASSUME NEW c \in Thread, upc'[c] \in Arming, uobj'[c] = d PROVE place = "call"
        OBVIOUS
    <2>1. ASSUME NEW e \in Event, Initiate(c, e) PROVE FALSE
        BY <1>0, <2>1, Types DEF Initiate
    <2>2. upc[c] \in Arming /\ uobj[c] = d
        BY <2>1, ArmingSteps
    <2>3. QED
        BY <2>2 DEF OperationAt
<1>2. interest'[d] # {} => place = "epoll"
    BY InterestSteps DEF Moves, OperationAt
<1>3. \A r \in batch' : r.desc = d => place = "report"
    BY BatchFrame DEF Moves, OperationAt
<1>4. rdesc' = d /\ (rpc' = "rearm" \/ rtodo' # {}) => place = "reactor"
    <2> SUFFICES ASSUME rdesc' = d, rpc' = "rearm" \/ rtodo' # {}
                 PROVE  rdesc = d /\ (rpc = "rearm" \/ rtodo # {})
        BY DEF OperationAt
    <2>0. None # d
        BY Types
    <2>1. CASE UNCHANGED <<rpc, rdesc, revents, rtodo>>
        BY <2>1
    <2>2. CASE ClearMask \/ Rearm \/ Dispatch
        BY <2>2 DEF Moves, Rearm, Dispatch
    <2>3. CASE RearmFails
        BY <2>3 DEF RearmFails
    <2>4. CASE MarkActive
        BY <2>4 DEF MarkActive
    <2>5. CASE ReportDone
        BY <2>0, <2>5 DEF ReportDone
    <2>6. CASE Wait \/ StartDeletion \/ EndDeletion \/ WaitInterrupted
        BY <2>0, <2>6 DEF Wait, StartDeletion, EndDeletion, WaitInterrupted, ReactorOK
    <2>7. QED
        BY <2>1, <2>2, <2>3, <2>4, <2>5, <2>6, ReportFrame
<1>5. OnlyIf(place = "task", tasks', OperationsOf(d))
    BY TaskQueueNext DEF Moves, OperationAt, OnlyIf
<1>6. OnlyIf(place = "worker", worker', OperationsOf(d))
    BY WorkerNext DEF Moves, OperationAt, OnlyIf
<1>7. OnlyIf(place = "strand", completion'[StrandOf[d]], CompletionsOf(d))
    <2>1. /\ \A c \in Thread : ArmFails(c) => uobj[c] # d
          /\ \A w \in Worker : React(w) => worker[w].event[1] # d
        BY DEF Moves
    <2>2. QED
        BY <2>1, StrandQueueNext DEF OperationAt, OnlyIf
<1>8. Kind[d] = "tcp" /\ fdOpen'[d] /\ place \notin {"call", "epoll", "report"} => mask'[d] = {}
    <2>1. ASSUME NEW c \in Thread, NEW b \in mask'[d], Initiate(c, <<d, b>>) PROVE FALSE
        <3>1. b \in Bits(d)
            BY TypeNext DEF TypeInv, BitsOK
        <3>2. QED
            BY <1>0, <2>1, <3>1, EventMember
    <2>2. mask'[d] \subseteq mask[d]
        BY <2>1, MaskSteps
    <2>3. fdOpen'[d] => fdOpen[d]
        BY OpenSteps
    <2>4. QED
        BY <2>2, <2>3 DEF OperationAt
<1>9. QED
    BY <1>1, <1>2, <1>3, <1>4, <1>5, <1>6, <1>7, <1>8 DEF OperationAt, OnlyIf, NoneOf, AtMostOne

LEMMA OnePlaceNext ==
    ASSUME Simplex, TypeInv, ConveyorInv, [Next]_vars
    PROVE  OnePlace'
<1> USE DEF ConveyorInv, DestructionInv, OperationsOK
<1> SUFFICES ASSUME NEW d \in Desc PROVE \E place \in OperationPlace : OperationAt(d, place)'
    BY DEF OnePlace
<1> DEFINE s == StrandOf[d]
<1> USE DEF OperationPlace
<1>0. /\ tasks \in Seq(Task) /\ s \in Strand /\ completion[s] \in Seq(Completion)
      /\ worker \in [Worker -> Task \cup {None}] /\ None \notin OperationsOf(d)
      /\ uobj \in [Thread -> Desc \cup {None}] /\ None # d
      /\ batch \subseteq Report /\ rtodo \subseteq Bit /\ mask \in [Desc -> SUBSET Bit]
      /\ interest \in [Desc -> SUBSET Bit]
    BY Types DEF TypeInv, TypeOK, OperationsOf, Operations, Task
<1>1. PICK p \in OperationPlace : OperationAt(d, p)
    BY DEF OnePlace
\* Two calls on the object do not both arm it.
<1>2. ASSUME NEW c \in Thread, upc[c] \in Arming, uobj[c] = d, Return(c)
      PROVE  \A o \in Thread : upc'[o] \in Arming => uobj'[o] # d
    <2> SUFFICES ASSUME NEW o \in Thread, upc'[o] \in Arming, uobj'[o] = d PROVE FALSE
        OBVIOUS
    <2>1. o # c /\ upc[o] \in Arming /\ uobj[o] = d
        BY <1>0, <1>2, Types DEF Return, Arming
    <2>2. WaitsFor(o, c) \/ WaitsFor(c, o)
        BY <1>0, <1>2, <2>1 DEF CallsOK
    <2>3. QED
        BY <1>2, <2>1, <2>2 DEF WaitsFor, Arming
\* The start of an operation: nothing of another one is left.
<1>3. ASSUME NEW c \in Thread, NEW e \in EventsOf(d), Initiate(c, e)
      PROVE  OperationAt(d, "call")'
    <2>0. e \in Event /\ e[1] = d
        BY EventMember DEF EventsOf
    <2>1. \A a \in Event : a[1] = d => ~Pending(a)
        BY <1>3, <2>0, InitiateFree
    <2>2. \A b \in Bits(d) : ~Waiting(<<d, b>>)
        BY <2>1, EventMember DEF Waiting
    <2>3. interest[d] = {}
        BY <2>2 DEF InEpoll, TypeInv, BitsOK
    <2>4. \A r \in batch : r.desc # d
        <3>1. ASSUME NEW r \in batch, r.desc = d PROVE \E b \in Bits(d) : Waiting(<<d, b>>)
            BY <3>1 DEF InReport, TypeInv, BitsOK
        <3>2. QED
            BY <2>2, <3>1
    <2>5. ~(rdesc = d /\ (rpc = "rearm" \/ rtodo # {}))
        BY <1>0, <2>2 DEF InReactor, TypeInv, BitsOK
    <2>6. NoneOf(tasks, OperationsOf(d))
        BY <2>1 DEF InTask, NoneOf, OperationsOf, Operations, Waiting
    <2>7. NoneOf(worker, OperationsOf(d))
        BY <1>0, <2>1 DEF InWorker, NoneOf, OperationsOf, Operations, Waiting
    <2>8. NoneOf(completion[s], CompletionsOf(d))
        BY <1>0, <2>1 DEF InStrand, NoneOf, CompletionsOf, Completions, Reacted
    <2>9. UNCHANGED <<interest, batch, rdesc, rpc, rtodo, tasks, worker, completion>>
        BY <1>3 DEF Initiate, kernel, reactor
    <2>10. QED
        BY <2>3, <2>4, <2>5, <2>6, <2>7, <2>8, <2>9 DEF OperationAt, OnlyIf, NoneOf, AtMostOne
<1>4. ASSUME NEW c \in Thread, uobj[c] = d, Arm(c) PROVE OperationAt(d, "epoll")'
    <2>1. upc[c] \in Arming /\ p = "call"
        BY <1>1, <1>4 DEF Arm, Arming, OperationAt
    <2>2. \A o \in Thread : upc'[o] \in Arming => uobj'[o] # d
        BY <1>2, <1>4, <2>1 DEF Arm
    <2>3. UNCHANGED <<batch, rdesc, rpc, rtodo, tasks, worker, completion>>
        BY <1>4 DEF Arm, reactor
    <2>4. QED
        BY <1>1, <2>1, <2>2, <2>3 DEF OperationAt, OnlyIf, NoneOf, AtMostOne
<1>5. ASSUME NEW c \in Thread, uobj[c] = d, ArmFails(c) PROVE OperationAt(d, "strand")'
    <2>1. upc[c] \in Arming /\ p = "call" /\ ArmedEvent(c) \in Event
        BY <1>1, <1>5, ActedOn DEF OperationAt
    <2>2. \A o \in Thread : upc'[o] \in Arming => uobj'[o] # d
        BY <1>2, <1>5, <2>1 DEF ArmFails
    <2>3. UNCHANGED <<interest, fdOpen, mask, batch, rdesc, rpc, rtodo, tasks, worker>>
        BY <1>5 DEF ArmFails, kernel, reactor
    <2> DEFINE x == [event |-> ArmedEvent(c), final |-> FALSE]
    <2>4. x \in Completion
        BY <2>1 DEF Completion
    <2>5. completion'[s] = Append(completion[s], x)
        BY <1>0, <1>5, Types DEF ArmFails
    <2> HIDE DEF x
    <2>6. AtMostOne(completion'[s], CompletionsOf(d))
        BY <1>0, <1>1, <2>1, <2>4, <2>5, EnqueueOne DEF OperationAt, OnlyIf
    <2>7. Kind[d] = "tcp" => ~fdOpen[d]
        BY <1>5 DEF ArmFails, Simplex
    <2>8. QED
        BY <1>1, <2>1, <2>2, <2>3, <2>6, <2>7 DEF OperationAt, OnlyIf, NoneOf, AtMostOne
<1>6. ASSUME Wait, NEW r \in batch', r.desc = d PROVE OperationAt(d, "report")'
    <2>1. interest[d] # {} /\ interest'[d] = {} /\ p = "epoll"
        BY <1>1, <1>6, ReportedWereArmed DEF OperationAt
    <2>2. rdesc' = None /\ UNCHANGED <<tasks, worker, completion, upc, uobj>>
        BY <1>6 DEF Wait, ReactorOK, user
    <2>3. QED
        BY <1>0, <1>1, <2>1, <2>2 DEF OperationAt, OnlyIf, NoneOf, AtMostOne
<1>7. ASSUME ClearMask, rdesc' = d PROVE OperationAt(d, "reactor")'
    <2>1. PICK r \in batch :
            r.desc = d /\ batch' = batch \ {r} /\ mask' = [mask EXCEPT ![d] = mask[d] \ r.events]
        BY <1>7, Zenon DEF ClearMask, MaskLeft
    <2>2. p = "report" /\ \A q \in batch' : q.desc # d
        BY <1>1, <2>1 DEF OperationAt, InReport
    <2>3. Kind[d] = "tcp" => mask'[d] = {}
        BY <1>0, <2>1 DEF InReport
    <2>4. UNCHANGED <<interest, tasks, worker, completion, upc, uobj>>
        BY <1>7 DEF ClearMask, kernel, user
    <2>5. QED
        BY <1>1, <2>2, <2>3, <2>4 DEF OperationAt, OnlyIf, NoneOf, AtMostOne
<1>8. ASSUME rdesc = d, Rearm PROVE OperationAt(d, "epoll")'
    <2>1. rpc = "rearm" /\ p = "reactor" /\ rpc' = "mark" /\ rtodo' = {}
        BY <1>0, <1>1, <1>8 DEF Rearm, Dispatched, OperationAt, InReactor
    <2>2. UNCHANGED <<batch, tasks, worker, completion, upc, uobj>>
        BY <1>8 DEF Rearm, user
    <2>3. QED
        BY <1>1, <2>1, <2>2 DEF OperationAt, OnlyIf, NoneOf, AtMostOne
<1>9. ASSUME rdesc = d, Dispatch PROVE OperationAt(d, "task")'
    <2>1. rtodo # {} /\ rtodo \subseteq Bits(d) /\ p = "reactor"
        BY <1>1, <1>9 DEF Dispatch, OperationAt, TypeInv, BitsOK
    <2>2. First(rtodo) \in rtodo /\ \A b \in rtodo : Pending(<<d, b>>)
        BY <1>0, <1>9, <2>1, FirstMember DEF InReactor, Waiting
    <2>3. rtodo \ {First(rtodo)} = {}
        BY <2>1, <2>2 DEF OneOperation
    <2> DEFINE x == [event |-> <<rdesc, First(rtodo)>>, code |-> CodeOf(First(rtodo))]
    <2>4. x \in Task
        BY <1>9, <2>1, <2>2, EventMember DEF Task, CodeOf
    <2>5. /\ tasks' = Append(tasks, x) /\ rtodo' = {} /\ rpc' = "mark"
          /\ UNCHANGED <<interest, fdOpen, mask, batch, worker, completion, upc, uobj>>
        BY <1>9, <2>3 DEF Dispatch, kernel, user
    <2> HIDE DEF x
    <2>6. AtMostOne(tasks', OperationsOf(d))
        BY <1>0, <1>1, <2>1, <2>4, <2>5, EnqueueOne DEF OperationAt, OnlyIf
    <2>7. QED
        BY <1>1, <2>1, <2>5, <2>6 DEF OperationAt, OnlyIf, NoneOf, AtMostOne
<1>10. ASSUME NEW w \in Worker, TakeTask(w), Head(tasks) \in OperationsOf(d)
       PROVE  OperationAt(d, "worker")'
    <2>1. /\ tasks # <<>> /\ tasks' = Tail(tasks) /\ worker' = [worker EXCEPT ![w] = Head(tasks)]
          /\ UNCHANGED <<interest, fdOpen, mask, batch, rdesc, rpc, rtodo, completion, upc, uobj>>
        BY <1>10 DEF TakeTask, kernel, reactor, user
    <2>2. ~NoneOf(tasks, OperationsOf(d)) /\ NoneOf(tasks', OperationsOf(d))
        BY <1>0, <1>1, <1>10, <2>1, DequeueOne DEF OperationAt, OnlyIf
    <2>3. p = "task"
        BY <1>1, <2>2 DEF OperationAt, OnlyIf
    <2>4. AtMostOne(worker', OperationsOf(d))
        BY <1>0, <1>1, <2>1, <2>3 DEF OperationAt, OnlyIf, NoneOf, AtMostOne
    <2>5. QED
        BY <1>1, <2>1, <2>2, <2>3, <2>4 DEF OperationAt, OnlyIf, NoneOf, AtMostOne
<1>11. ASSUME NEW w \in Worker, React(w), worker[w].event[1] = d PROVE OperationAt(d, "strand")'
    <2>1. worker[w] \in OperationsOf(d) /\ worker[w].event \in Event
        BY <1>11, ActedOn
    <2>2. p = "worker"
        BY <1>0, <1>1, <2>1 DEF OperationAt, OnlyIf, NoneOf
    <2>3. /\ worker' = [worker EXCEPT ![w] = None]
          /\ UNCHANGED <<interest, fdOpen, mask, batch, rdesc, rpc, rtodo, tasks, upc, uobj>>
        BY <1>11 DEF React, kernel, reactor, user
    <2>4. NoneOf(worker', OperationsOf(d))
        BY <1>0, <1>1, <2>1, <2>3 DEF OperationAt, OnlyIf, NoneOf, AtMostOne
    <2> DEFINE x == [event |-> worker[w].event, final |-> FALSE]
    <2>5. x \in Completion
        BY <2>1 DEF Completion
    <2>6. completion'[s] = Append(completion[s], x)
        BY <1>0, <1>11, Types DEF React
    <2> HIDE DEF x
    <2>7. AtMostOne(completion'[s], CompletionsOf(d))
        BY <1>0, <1>1, <2>2, <2>5, <2>6, EnqueueOne DEF OperationAt, OnlyIf
    <2>8. QED
        BY <1>1, <2>2, <2>3, <2>4, <2>7 DEF OperationAt, OnlyIf, NoneOf, AtMostOne
<1>12. CASE ~Moves(d)
    BY <1>1, <1>12, PlaceKept
<1>13. QED
    BY <1>3, <1>4, <1>5, <1>6, <1>7, <1>8, <1>9, <1>10, <1>11, <1>12 DEF Moves

LEMMA ConveyorInit == Init => TypeInv /\ LockHeld /\ ConveyorInv
<1> SUFFICES ASSUME Init PROVE TypeInv /\ LockHeld /\ ConveyorInv
    OBVIOUS
<1>1. TypeInv /\ LockHeld /\ DestructionInv
    BY DestructionInit
<1>2. \A s \in Strand : completion[s] = <<>>
    BY DEF Init
<1>3. CountsOK /\ OneOperation
    BY EventMember DEF Init, CountsOK, OneOperation, Pending
<1>4. InCall /\ InEpoll /\ InReport /\ InReactor /\ InTask
    BY DEF Init, InCall, InEpoll, InReport, InReactor, InTask, Arming
<1>5. None \notin Operations
    BY Types, <1>1 DEF Operations, Task
<1>6. InWorker /\ InStrand /\ FinalIsLast
    BY <1>2, <1>5 DEF Init, InWorker, InStrand, FinalIsLast
<1>7. ASSUME NEW d \in Desc PROVE OperationAt(d, "none")
    <2>1. NoneOf(tasks, OperationsOf(d)) /\ NoneOf(worker, OperationsOf(d))
        BY <1>5 DEF Init, NoneOf, OperationsOf
    <2>2. NoneOf(completion[StrandOf[d]], CompletionsOf(d))
        BY <1>2, StrandOfType DEF NoneOf
    <2>3. QED
        BY <2>1, <2>2, NoneIsNothing DEF Init, OperationAt, OnlyIf, AtMostOne, NoneOf, Arming
<1>8. QED
    BY <1>1, <1>3, <1>4, <1>6, <1>7 DEF ConveyorInv, OperationsOK, OnePlace, OperationPlace

LEMMA ConveyorNext ==
    ASSUME Simplex, TypeInv, LockHeld, ConveyorInv, [Next]_vars
    PROVE  ConveyorInv'
<1>1. DestructionInv'
    BY DestructionNext DEF ConveyorInv
<1>2. CountsOK' /\ OneOperation' /\ OnePlace'
    BY CountsNext, OneOperationNext, OnePlaceNext
<1>3. InCall' /\ InEpoll' /\ InReport' /\ InReactor' /\ InTask' /\ InWorker' /\ InStrand'
    BY InCallNext, InEpollNext, InReportNext, InReactorNext, InTaskNext, InWorkerNext,
       InStrandNext
<1>4. FinalIsLast'
    BY FinalIsLastNext
<1>5. QED
    BY <1>1, <1>2, <1>3, <1>4 DEF ConveyorInv, OperationsOK

\* In a simplex program, an operation in progress is in one place of the conveyor at
\* a time, and no final event overtakes one.
THEOREM ConveyorIsSound == ASSUME Simplex PROVE Spec => []ConveyorInv
<1>1. Simplex
    OBVIOUS
<1>2. TypeInv /\ LockHeld /\ ConveyorInv /\ [Next]_vars => ConveyorInv'
    BY <1>1, ConveyorNext
<1>3. QED
    BY <1>2, ConveyorInit, TypeAlways, LockAlwaysHeld, PTL DEF Spec

-----------------------------------------------------------------------------
(* What the places are good for.                                            *)

\* The registrar: an event to which a pointer leads is registered.
LEMMA NothingDangles == TypeInv /\ ConveyorInv => NoDangling
<1> SUFFICES ASSUME TypeInv, ConveyorInv PROVE NoDangling
    OBVIOUS
<1> USE Types DEF ConveyorInv, DestructionInv
<1>1. FinalReferenced \subseteq finals \cap registered
    <2> SUFFICES ASSUME NEW e \in FinalReferenced PROVE e \in finals
        BY DEF TakenOnce
    <2>1. QED
        BY FinalReferencedAt DEF FinalAt
<1>2. ASSUME NEW e \in Event, react[e] # 0 \/ complete[e] # 0 PROVE e \in registered
    BY <1>2 DEF GivenEmpty
<1>3. ASSUME NEW d \in Desc, interest[d] # {} \/ rdesc = d \/ \E r \in batch : r.desc = d,
             NEW e \in EventsOf(d)
      PROVE  e \in registered
    <2>0. e \in Event /\ e[1] = d
        BY EventMember DEF EventsOf
    <2>1. PICK place \in FinalPlace : FinalAt(e, place)
        BY <2>0 DEF OneFinalPlace
    <2>2. QED
        BY <1>3, <2>0, <2>1 DEF FinalAt, ReactorOK, TakenOnce
<1>4. ASSUME NEW i \in DOMAIN deletion PROVE deletion[i] \in registered
    <2>1. deletion[i] \in FinalReferenced
        BY DEF FinalReferenced
    <2>2. QED
        BY <1>1, <2>1
<1>5. ASSUME NEW i \in DOMAIN tasks PROVE tasks[i].event \in registered
    <2>0. tasks \in Seq(Task)
        OBVIOUS
    <2>1. tasks[i] \in Task
        BY <2>0
    <2>2. CASE tasks[i].code = "FINAL"
        <3>1. tasks[i].event \in FinalReferenced
            BY <2>2 DEF FinalReferenced
        <3>2. QED
            BY <1>1, <3>1
    <2>3. CASE tasks[i].code # "FINAL"
        <3>1. tasks[i] \in Operations /\ tasks[i].event \in Event
            BY <2>1, <2>3 DEF Task, Operations
        <3>2. react[tasks[i].event] # 0
            BY <3>1, PendingCounts DEF OperationsOK, InTask, Waiting
        <3>3. QED
            BY <1>2, <3>1, <3>2
    <2>4. QED
        BY <2>2, <2>3
<1>6. ASSUME NEW w \in Worker, worker[w] # None PROVE worker[w].event \in registered
    <2>1. worker[w] \in Task
        BY <1>6
    <2>2. CASE worker[w].code = "FINAL"
        <3>1. worker[w].event \in FinalReferenced
            BY <1>6, <2>2 DEF FinalReferenced
        <3>2. QED
            BY <1>1, <3>1
    <2>3. CASE worker[w].code # "FINAL"
        <3>1. worker[w] \in Operations /\ worker[w].event \in Event
            BY <2>1, <2>3 DEF Task, Operations
        <3>2. react[worker[w].event] # 0
            BY <3>1, PendingCounts DEF OperationsOK, InWorker, Waiting
        <3>3. QED
            BY <1>2, <3>1, <3>2
    <2>4. QED
        BY <2>2, <2>3
<1>7. ASSUME NEW s \in Strand, NEW i \in DOMAIN completion[s]
      PROVE  completion[s][i].event \in registered
    <2>0. completion[s] \in Seq(Completion)
        OBVIOUS
    <2>1. completion[s][i] \in Completion
        BY <2>0
    <2>2. CASE completion[s][i].final
        <3>1. completion[s][i].event \in FinalReferenced
            BY <2>2 DEF FinalReferenced
        <3>2. QED
            BY <1>1, <3>1
    <2>3. CASE ~completion[s][i].final
        <3>1. completion[s][i].final = FALSE
            BY <2>1, <2>3 DEF Completion
        <3>2. completion[s][i] \in Completions /\ completion[s][i].event \in Event
            BY <2>1, <3>1 DEF Completion, Completions
        <3>3. complete[completion[s][i].event] # 0
            BY <3>2, PendingCounts DEF OperationsOK, InStrand, Reacted
        <3>4. QED
            BY <1>2, <3>2, <3>3
    <2>4. QED
        BY <2>2, <2>3
<1>8. ASSUME NEW s \in Strand, running[s] # None PROVE running[s] \in registered
    BY <1>8 DEF StrandsOK
<1>9. Referenced \subseteq registered
    <2> SUFFICES ASSUME NEW e \in Referenced PROVE e \in registered
        OBVIOUS
    <2> DEFINE pointed == {d \in Desc : \/ interest[d] # {}
                                        \/ rdesc = d
                                        \/ \E r \in batch : r.desc = d}
    <2>1. CASE e \in UNION {EventsOf(d) : d \in pointed}
        <3>1. PICK d \in pointed : e \in EventsOf(d)
            BY <2>1
        <3>2. QED
            BY <1>3, <3>1
    <2>2. CASE e \in {deletion[i] : i \in DOMAIN deletion}
        BY <1>4, <2>2
    <2>3. CASE e \in {tasks[i].event : i \in DOMAIN tasks}
        BY <1>5, <2>3
    <2>4. CASE e \in {worker[w].event : w \in {w \in Worker : worker[w] # None}}
        BY <1>6, <2>4
    <2>5. CASE e \in UNION {{completion[s][i].event : i \in DOMAIN completion[s]} : s \in Strand}
        BY <1>7, <2>5
    <2>6. CASE e \in {running[s] : s \in {s \in Strand : running[s] # None}}
        BY <1>8, <2>6
    <2>7. QED
        BY <2>1, <2>2, <2>3, <2>4, <2>5, <2>6 DEF Referenced
<1>10. QED
    BY <1>1, <1>9 DEF NoDangling

\* No use after give: no queue, thread, report or file descriptor refers to an event
\* that the registrar has erased.
THEOREM NothingDanglesEver == ASSUME Simplex PROVE Spec => []NoDangling
BY ConveyorIsSound, TypeAlways, NothingDangles, PTL

\* react and complete hold an operation whenever they are called.
THEOREM NoCallIsEmpty == ASSUME Simplex PROVE Spec => []NoEmptyCall
<1>1. TypeInv /\ ConveyorInv => NoEmptyCall
    <2> SUFFICES ASSUME TypeInv, ConveyorInv PROVE NoEmptyCall
        OBVIOUS
    <2>1. ASSUME NEW w \in Worker, worker[w] # None, worker[w].code # "FINAL"
          PROVE  react[worker[w].event] # 0
        <3>1. worker[w] \in Operations /\ worker[w].event \in Event
            BY <2>1, Types DEF Task, Operations
        <3>2. Waiting(worker[w].event)
            BY <3>1 DEF ConveyorInv, OperationsOK, InWorker
        <3>3. QED
            BY <3>1, <3>2, PendingCounts DEF Waiting, ConveyorInv, OperationsOK
    <2>2. ASSUME NEW s \in Strand, IsNext(s, FALSE)
          PROVE  complete[Head(completion[s]).event] # 0
        BY <2>2, CompletedEvent, PendingCounts DEF Reacted, ConveyorInv, OperationsOK
    <2>3. QED
        BY <2>1, <2>2 DEF NoEmptyCall
<1>2. QED
    BY <1>1, ConveyorIsSound, TypeAlways, PTL

-----------------------------------------------------------------------------
(* Callbacks: also where a socket is used in both directions, if an open    *)
(* file can always be armed.                                                *)

LEMMA ScopeSteps ==
    ASSUME TypeInv, [Next]_vars, NEW d \in Desc, inScope'[d]
    PROVE  inScope[d] /\ \A c \in Thread : uobj[c] = d => ~DestroyRemove(c)
<1>1. ASSUME NEW c \in Thread, DestroyRemove(c)
      PROVE  uobj[c] # d /\ inScope'[d] = inScope[d]
    BY <1>1, Types DEF DestroyRemove
<1>2. ASSUME NEW c \in Thread, Begin(c) \/ Call(c), ~DestroyRemove(c) PROVE inScope' = inScope
    BY <1>2, Zenon DEF Begin, Call, Destroy, Initiate, DestroyBegin, Arm, ArmFails, DestroyClose,
       Dispose, Interrupt, DestroyEnd
<1>3. QED
    BY <1>1, <1>2, StepOf, ReactorFrame, TaskFrame, StrandFrame DEF vars

LEMMA ClosedBy ==
    ASSUME TypeInv, [Next]_vars, NEW d \in Desc, fdOpen[d], ~fdOpen'[d]
    PROVE  \E c \in Thread : DestroyClose(c) /\ uobj[c] = d
<1>1. ASSUME NEW c \in Thread, DestroyClose(c) PROVE uobj[c] = d
    BY <1>1, Types DEF DestroyClose
<1>2. ASSUME NEW c \in Thread, Begin(c) \/ Call(c), ~DestroyClose(c) PROVE fdOpen' = fdOpen
    BY <1>2, Zenon DEF Begin, Call, Destroy, Initiate, DestroyBegin, Arm, ArmFails,
       DestroyRemove, Dispose, Interrupt, DestroyEnd, kernel
<1>3. QED
    BY <1>1, <1>2, StepOf, ReactorFrame, TaskFrame, StrandFrame DEF vars, kernel

LEMMA UnopenedNext ==
    ASSUME TypeInv, DestructionInv, UnopenedOK, [Next]_vars
    PROVE  UnopenedOK'
<1> USE DEF DestructionInv
<1> SUFFICES ASSUME NEW d \in Desc, inScope'[d], ~fdOpen'[d]
             PROVE  /\ rdesc' # d /\ \A r \in batch' : r.desc # d
                    /\ NoneOf(tasks', OperationsOf(d)) /\ NoneOf(worker', OperationsOf(d))
    BY DEF UnopenedOK, NoneOf
\* The file of an object in scope is not closed.
<1>1. inScope[d] /\ ~fdOpen[d]
    <2>1. inScope[d]
        BY ScopeSteps
    <2>2. ASSUME fdOpen[d] PROVE FALSE
        <3>1. PICK c \in Thread : DestroyClose(c) /\ uobj[c] = d
            BY <2>2, ClosedBy
        <3>2. ~inScope[d]
            BY <3>1 DEF CallsOK, DestroyClose
        <3>3. QED
            BY <2>1, <3>2
    <2>3. QED
        BY <2>1, <2>2
<1>2. /\ interest[d] = {} /\ rdesc # d /\ \A r \in batch : r.desc # d
      /\ NoneOf(tasks, OperationsOf(d)) /\ NoneOf(worker, OperationsOf(d))
    BY <1>1 DEF UnopenedOK, ReactorOK
<1>3. \A r \in batch' : r.desc # d
    BY <1>2, BatchFrame, ReportedWereArmed
<1>4. rdesc' # d
    <2>1. CASE ClearMask
        BY <1>2, <2>1 DEF ClearMask
    <2>2. CASE ReportDone
        BY <2>2, Types DEF ReportDone
    <2>3. CASE UNCHANGED rdesc
        BY <1>2, <2>3
    <2>4. QED
        BY <2>1, <2>2, <2>3, ReportFrame, Zenon DEF Rearm, RearmFails, MarkActive, Dispatch,
           Wait, StartDeletion, EndDeletion, WaitInterrupted
<1>5. NoneOf(tasks', OperationsOf(d))
    <2> SUFFICES ASSUME NEW i \in DOMAIN tasks', tasks'[i] \in OperationsOf(d) PROVE FALSE
        BY DEF NoneOf
    <2>1. tasks'[i] \in Operations /\ tasks'[i].event[1] = d
        BY DEF OperationsOf
    <2>2. CASE \E j \in DOMAIN tasks : tasks'[i] = tasks[j]
        BY <1>2, <2>2 DEF NoneOf
    <2>3. CASE tasks'[i].event = <<rdesc, First(rtodo)>>
        BY <1>2, <2>1, <2>3
    <2>4. QED
        BY <2>1, <2>2, <2>3, TaskSteps
<1>6. NoneOf(worker', OperationsOf(d))
    <2> SUFFICES ASSUME NEW w \in DOMAIN worker', worker'[w] \in OperationsOf(d) PROVE FALSE
        BY DEF NoneOf
    <2>1. w \in Worker /\ DOMAIN worker = Worker /\ worker'[w] \in Operations
        BY TypeNext, Types DEF TypeInv, TypeOK, OperationsOf
    <2>2. QED
        BY <1>2, <2>1, WorkerSteps DEF NoneOf
<1>7. QED
    BY <1>3, <1>4, <1>5, <1>6

LEMMA FailingCallNext ==
    ASSUME TypeInv, DestructionInv, CountsOK, UnopenedOK, FailingCall, [Next]_vars
    PROVE  FailingCall'
<1> USE DEF DestructionInv
<1> SUFFICES ASSUME NEW c \in Thread, upc'[c] \in Arming, ~fdOpen'[uobj'[c]]
             PROVE  Waiting(ArmedEvent(c))'
    BY DEF FailingCall
<1>1. ASSUME NEW a \in Event, Initiate(c, a) PROVE Waiting(ArmedEvent(c))'
    <2>1. /\ upc' = [upc EXCEPT ![c] = IF a[2] = "IN" THEN "armIN" ELSE "armOUT"]
          /\ uobj' = [uobj EXCEPT ![c] = a[1]]
        BY <1>1 DEF Initiate
    <2>2. a[2] \in {"IN", "OUT"} /\ a = <<a[1], a[2]>>
        BY EventParts DEF Bit
    <2>3. ArmedEvent(c)' = a
        BY <2>1, <2>2, Types DEF ArmedEvent
    <2>4. Waiting(a)'
        BY <1>1, InitiateWaits
    <2>5. QED
        BY <2>3, <2>4, Zenon DEF Waiting, Pending
<1>2. ASSUME upc[c] \in Arming, upc'[c] = upc[c], uobj'[c] = uobj[c]
      PROVE  Waiting(ArmedEvent(c))'
    <2>0. PICK e \in Event : e = ArmedEvent(c) /\ e[1] = uobj[c]
        BY <1>2, ActedOn
    <2>1. ArmedEvent(c)' = e
        BY <1>2, <2>0 DEF ArmedEvent
    <2>2. inScope[e[1]] /\ e[1] \in Desc
        BY <1>2, <2>0, Types DEF CallsOK
    <2>3. ~fdOpen[e[1]]
        <3>1. ASSUME fdOpen[e[1]] PROVE FALSE
            <4>1. PICK o \in Thread : DestroyClose(o) /\ uobj[o] = e[1]
                BY <1>2, <2>0, <2>2, <3>1, ClosedBy
            <4>2. QED
                BY <2>2, <4>1 DEF CallsOK, DestroyClose
        <3>2. QED
            BY <3>1
    <2>4. Waiting(e)
        BY <1>2, <2>0, <2>3 DEF FailingCall
    <2>5. ASSUME NEW o \in Thread, ArmFails(o), ArmedEvent(o) = e PROVE FALSE
        <3>1. upc[o] \in Arming /\ uobj[o] = uobj[c]
            BY <2>0, <2>5, ActedOn
        <3>2. o # c
            BY <1>2, <2>5, Types DEF ArmFails, Return, Arming
        <3>3. QED
            BY <1>2, <2>0, <2>2, <3>1, <3>2, NoneIsNothing DEF CallsOK, WaitsFor, Arming
    <2>6. ASSUME NEW w \in Worker, React(w), worker[w].event = e PROVE FALSE
        <3>1. worker[w] \in OperationsOf(e[1]) /\ DOMAIN worker = Worker
            BY <2>6, ActedOn, Types
        <3>2. QED
            BY <2>2, <2>3, <3>1 DEF UnopenedOK, NoneOf
    <2>7. ASSUME NEW s \in Strand, Final(s), Head(completion[s]).event = e PROVE FALSE
        <3>1. e \in finals
            BY <2>7, FinalOnStrand DEF Final
        <3>2. QED
            BY <2>2, <3>1 DEF TakenOnce
    <2>8. Waiting(e)'
        BY <2>4, <2>5, <2>6, <2>7, EventKept
    <2>9. QED
        BY <2>1, <2>8, Zenon DEF Waiting, Pending
<1>3. QED
    BY <1>1, <1>2, ArmingSteps

LEMMA CalledNext ==
    ASSUME ~ArmMayFail, TypeInv, LockHeld, CalledInv, [Next]_vars
    PROVE  CalledInv'
<1>1. ASSUME NEW c \in Thread, ArmFails(c) PROVE Waiting(ArmedEvent(c))
    BY <1>1, ActedOn DEF ArmFails, CalledInv, FailingCall
<1>2. CountsOK'
    BY <1>1, CountsStep DEF CalledInv
<1>3. QED
    BY <1>2, DestructionNext, UnopenedNext, FailingCallNext DEF CalledInv

\* If an open file can always be armed, react and complete of an event hold its
\* operation one after the other, each once, however the sockets are used.
THEOREM OperationsOnce == ASSUME ~ArmMayFail PROVE Spec => []CalledInv
<1>1. ~ArmMayFail
    OBVIOUS
<1>2. Init => CalledInv
    <2> SUFFICES ASSUME Init PROVE CalledInv
        OBVIOUS
    <2>1. ConveyorInv /\ TypeInv
        BY ConveyorInit
    <2>2. None \notin Operations
        BY Types, <2>1 DEF Operations, Task
    <2>3. UnopenedOK
        BY <2>2, NoneIsNothing DEF Init, UnopenedOK, NoneOf, OperationsOf
    <2>4. FailingCall
        BY DEF Init, FailingCall, Arming
    <2>5. QED
        BY <2>1, <2>3, <2>4 DEF CalledInv, ConveyorInv, OperationsOK
<1>3. TypeInv /\ LockHeld /\ CalledInv /\ [Next]_vars => CalledInv'
    BY <1>1, CalledNext
<1>4. QED
    BY <1>2, <1>3, TypeAlways, LockAlwaysHeld, PTL DEF Spec

\* The two kinds of program whose operations are called back once.
LEMMA CountsAlways ==
    ASSUME Simplex \/ ~ArmMayFail
    PROVE  Spec => [](DestructionInv /\ CountsOK)
<1>1. CASE Simplex
    <2>1. ConveyorInv => DestructionInv /\ CountsOK
        BY DEF ConveyorInv, OperationsOK
    <2>2. Spec => []ConveyorInv
        BY <1>1, ConveyorIsSound
    <2>3. QED
        BY <2>1, <2>2, PTL
<1>2. CASE ~ArmMayFail
    <2>1. CalledInv => DestructionInv /\ CountsOK
        BY DEF CalledInv
    <2>2. Spec => []CalledInv
        BY <1>2, OperationsOnce
    <2>3. QED
        BY <2>1, <2>2, PTL
<1>3. QED
    BY <1>1, <1>2

\* A callback runs once per operation, in order, and never after the destructor.
THEOREM CallbacksOnce == ASSUME Simplex \/ ~ArmMayFail PROVE Spec => CallbackOnce
<1> DEFINE Step == \A s \in Strand : running[s] = None /\ running'[s] # None =>
              LET e == running'[s]
              IN  called'[e] = called[e] + 1 /\ called'[e] <= issued[e] /\ inScope[e[1]]
<1>1. ASSUME TypeInv, DestructionInv, CountsOK, [Next]_vars, NEW s \in Strand,
             running[s] = None, running'[s] # None
      PROVE  LET e == running'[s]
             IN  called'[e] = called[e] + 1 /\ called'[e] <= issued[e] /\ inScope[e[1]]
    <2>1. Complete(s)
        <3>1. PICK t \in Strand : StrandThread(t)
            BY <1>1, StepOf, CallFrame, ReactorFrame, TaskFrame DEF vars
        <3>2. CASE Final(t)
            BY <1>1, <3>2 DEF Final
        <3>3. CASE CallbackReturn(t)
            BY <1>1, <3>3, Types DEF CallbackReturn
        <3>4. CASE Complete(t)
            BY <1>1, <3>4, Types DEF Complete
        <3>5. QED
            BY <3>1, <3>2, <3>3, <3>4 DEF StrandThread
    <2> DEFINE a == Head(completion[s]).event
    <2>2. a \in Event /\ Reacted(a)
        BY <1>1, <2>1, CalledEvent DEF DestructionInv
    <2>3. issued[a] = called[a] + 1
        BY <1>1, <2>2, PendingCounts DEF Reacted
    <2>4. /\ inScope[a[1]] /\ called' = [called EXCEPT ![a] = complete[a]]
          /\ running' = [running EXCEPT ![s] = a]
        BY <1>1, <2>1 DEF Complete, MayCallBack
    <2> HIDE DEF a
    <2>5. running'[s] = a /\ called'[a] = issued[a]
        BY <1>1, <2>2, <2>4, Types DEF Reacted
    <2>6. QED
        BY <1>1, <2>2, <2>3, <2>4, <2>5, Types
<1>2. TypeInv /\ DestructionInv /\ CountsOK /\ [Next]_vars => [Step]_vars
    BY <1>1
<1>3. Spec => [](DestructionInv /\ CountsOK)
    BY CountsAlways
<1>4. QED
    BY <1>2, <1>3, TypeAlways, PTL DEF Spec, CallbackOnce

-----------------------------------------------------------------------------
(* No operation is lost: from each place it only goes to the next one.      *)

LEMMA LeavesEpoll ==
    ASSUME TypeInv, [Next]_vars, NEW d \in Desc
    PROVE  \/ interest'[d] = interest[d]
           \/ Wait /\ \E r \in batch' : r.desc = d
           \/ \E c \in Thread :
                 uobj[c] = d /\ (Arm(c) \/ DestroyRemove(c) \/ DestroyClose(c))
           \/ Rearm /\ rdesc = d
<1>0. interest \in [Desc -> SUBSET Bit]
    BY DEF TypeInv, TypeOK
<1>1. ASSUME NEW c \in Thread, Begin(c) \/ Call(c)
      PROVE  \/ interest'[d] = interest[d]
             \/ uobj[c] = d /\ (Arm(c) \/ DestroyRemove(c) \/ DestroyClose(c))
    <2>1. \/ interest' = interest
          \/ \E x : interest' = [interest EXCEPT ![uobj[c]] = x] /\
                       (Arm(c) \/ DestroyRemove(c) \/ DestroyClose(c))
        BY <1>1, Zenon DEF Begin, Call, Destroy, Initiate, DestroyBegin, Arm, ArmFails,
           DestroyRemove, DestroyClose, Dispose, Interrupt, DestroyEnd, kernel
    <2>2. QED
        BY <1>0, <2>1
<1>2. CASE Wait
    <2>1. PICK D \in SUBSET {c \in Desc : interest[c] # {}}, w \in {FALSE, wake} :
            \E ready \in {f \in [D -> SUBSET Flag] : \A c \in D : f[c] \in Reportable(c)} :
                /\ batch' = {[desc |-> c, events |-> ready[c]] : c \in D}
                /\ interest' = [c \in Desc |-> IF c \in D THEN {} ELSE interest[c]]
                /\ woken' = w
        BY <1>2, WaitReports
    <2>2. PICK ready : batch' = {[desc |-> c, events |-> ready[c]] : c \in D}
        BY <2>1
    <2>3. CASE d \in D
        <3>1. [desc |-> d, events |-> ready[d]] \in batch'
            BY <2>2, <2>3
        <3>2. QED
            BY <1>2, <3>1
    <2>4. CASE d \notin D
        BY <2>1, <2>4
    <2>5. QED
        BY <2>3, <2>4
<1>3. CASE Rearm
    BY <1>0, <1>3 DEF Rearm
<1>4. ASSUME Reactor \/ WaitInterrupted, ~Wait, ~Rearm PROVE interest' = interest
    BY <1>4, Zenon DEF Reactor, WaitInterrupted, Drain, ClearMask, RearmFails, MarkActive,
       Dispatch, ReportDone, StartDeletion, Delete, EndDeletion, kernel
<1>5. QED
    BY <1>1, <1>2, <1>3, <1>4, StepOf, TaskFrame, StrandFrame DEF vars, kernel

LEMMA LeavesCall ==
    ASSUME TypeInv, [Next]_vars, NEW c \in Thread, upc[c] \in Arming
    PROVE  (upc'[c] = upc[c] /\ uobj'[c] = uobj[c]) \/ Arm(c) \/ ArmFails(c)
<1> USE Types DEF Arming
<1>1. ASSUME NEW o \in Thread, Begin(o) \/ Call(o), o # c
      PROVE  upc'[c] = upc[c] /\ uobj'[c] = uobj[c]
    <2>1. /\ \E x : upc' = [upc EXCEPT ![o] = x]
          /\ uobj' = uobj \/ \E x : uobj' = [uobj EXCEPT ![o] = x]
        <3>1. CASE Return(o)
            BY <3>1 DEF Return
        <3>2. CASE \E e \in Event : Initiate(o, e)
            BY <3>2 DEF Initiate
        <3>3. CASE \E d \in Desc : DestroyBegin(o, d)
            BY <3>3 DEF DestroyBegin
        <3>4. CASE DestroyRemove(o) \/ DestroyClose(o) \/ Dispose(o) \/ Interrupt(o)
            BY <3>4 DEF DestroyRemove, DestroyClose, Dispose, Interrupt
        <3>5. QED
            BY <1>1, <3>1, <3>2, <3>3, <3>4 DEF Begin, Call, Destroy, Arm, ArmFails, DestroyEnd
    <2>2. QED
        BY <1>1, <2>1
<1>2. ASSUME Begin(c) \/ Call(c) PROVE Arm(c) \/ ArmFails(c)
    BY <1>2 DEF Begin, Call, Destroy, Initiate, DestroyBegin, MayCall, DestroyRemove,
       DestroyClose, Dispose, Interrupt, DestroyEnd
<1>3. QED
    BY <1>1, <1>2, StepOf, ReactorFrame, TaskFrame, StrandFrame DEF vars, user

LEMMA LeavesTasks ==
    ASSUME TypeInv, [Next]_vars, NEW i \in DOMAIN tasks
    PROVE  \/ \E j \in DOMAIN tasks' : tasks'[j] = tasks[i]
           \/ \E w \in Worker : worker'[w] = tasks[i]
<1>0. tasks \in Seq(Task) /\ deletion \in Seq(Event) /\ worker \in [Worker -> Task \cup {None}]
    BY Types
<1>1. CASE tasks' = tasks
    BY <1>1
<1>2. ASSUME NEW x \in Task, tasks' = Append(tasks, x)
      PROVE  \E j \in DOMAIN tasks' : tasks'[j] = tasks[i]
    BY <1>0, <1>2, AfterEnqueue
<1>3. CASE Dispatch
    <2> DEFINE x == [event |-> <<rdesc, First(rtodo)>>, code |-> CodeOf(First(rtodo))]
    <2>1. x \in Task
        BY <1>3, EventMember, FirstMember DEF Dispatch, Task, CodeOf, TypeInv, TypeOK, BitsOK
    <2>2. tasks' = Append(tasks, x)
        BY <1>3 DEF Dispatch
    <2> HIDE DEF x
    <2>3. QED
        BY <1>2, <2>1, <2>2
<1>4. CASE Delete
    <2> DEFINE x == [event |-> Head(deletion), code |-> "FINAL"]
    <2>1. x \in Task
        BY <1>0, <1>4, Dequeued DEF Delete, Task
    <2>2. tasks' = Append(tasks, x)
        BY <1>4 DEF Delete
    <2> HIDE DEF x
    <2>3. QED
        BY <1>2, <2>1, <2>2
<1>5. ASSUME NEW w \in Worker, TakeTask(w)
      PROVE  \/ \E j \in DOMAIN tasks' : tasks'[j] = tasks[i]
             \/ worker'[w] = tasks[i]
    <2>1. tasks # <<>> /\ tasks' = Tail(tasks) /\ worker' = [worker EXCEPT ![w] = Head(tasks)]
        BY <1>5 DEF TakeTask
    <2>2. CASE i = 1
        BY <1>0, <2>1, <2>2, AfterDequeue
    <2>3. CASE i # 1
        <3>1. i - 1 \in DOMAIN tasks' /\ tasks'[i - 1] = tasks[i]
            BY <1>0, <2>1, <2>3, AfterDequeue
        <3>2. QED
            BY <3>1
    <2>4. QED
        BY <2>2, <2>3
<1>6. ASSUME Reactor \/ WaitInterrupted, ~Dispatch, ~Delete PROVE tasks' = tasks
    BY <1>6, Zenon DEF Reactor, WaitInterrupted, Wait, Drain, ClearMask, Rearm, RearmFails,
       MarkActive, ReportDone, StartDeletion, EndDeletion
<1>7. ASSUME NEW w \in Worker, React(w) \/ EnqueueFinal(w) PROVE tasks' = tasks
    BY <1>7 DEF React, EnqueueFinal
<1>8. QED
    BY <1>1, <1>3, <1>4, <1>5, <1>6, <1>7, StepOf, CallFrame, StrandFrame DEF TaskThread, vars

LEMMA LeavesWorker ==
    ASSUME TypeInv, [Next]_vars, NEW w \in Worker, worker[w] # None
    PROVE  worker'[w] = worker[w] \/ React(w) \/ EnqueueFinal(w)
<1>1. ASSUME NEW v \in Worker, TaskThread(v)
      PROVE  worker'[w] = worker[w] \/ React(w) \/ EnqueueFinal(w)
    <2>1. /\ \E x : worker' = [worker EXCEPT ![v] = x]
          /\ TakeTask(v) \/ React(v) \/ EnqueueFinal(v)
        BY <1>1 DEF TaskThread, TakeTask, React, EnqueueFinal
    <2>2. TakeTask(v) => v # w
        BY DEF TakeTask
    <2>3. CASE v = w
        BY <2>1, <2>2, <2>3
    <2>4. CASE v # w
        BY <2>1, <2>4, Types
    <2>5. QED
        BY <2>3, <2>4
<1>2. QED
    BY <1>1, StepOf, CallFrame, ReactorFrame, StrandFrame DEF vars

\* Where NoLostOperation expects the operation of e.
OnItsWay(e) ==
    \/ e[2] \in interest[e[1]]
    \/ \E c \in Thread : upc[c] \in Arming /\ ArmedEvent(c) = e
    \/ \E r \in batch : r.desc = e[1]
    \/ rdesc = e[1] /\ (rpc = "rearm" \/ e[2] \in rtodo)
    \/ \E i \in DOMAIN tasks : tasks[i].event = e
    \/ \E w \in Worker : worker[w] # None /\ worker[w].event = e
    \/ complete[e] # 0

\* The other bits of a descriptor are not in use.
LEMMA TheBit ==
    ASSUME TypeInv, OneOperation, NEW d \in Desc, NEW b \in Bits(d), Pending(<<d, b>>),
           NEW B, B \subseteq Bits(d), B # {}, \A a \in B : Waiting(<<d, a>>)
    PROVE  B = {b}
<1>1. ASSUME NEW a \in B PROVE a = b
    <2>1. Pending(<<d, a>>) /\ a \in Bits(d)
        BY DEF Waiting
    <2>2. QED
        BY <2>1, Zenon DEF OneOperation
<1>2. QED
    BY <1>1

LEMMA GoesOn ==
    ASSUME Simplex, TypeInv, ConveyorInv, [Next]_vars,
           NEW d \in Desc, NEW b \in Bits(d), NEW e \in Event, e = <<d, b>>, Pending(e),
           Pending(e)', inScope'[d], OnItsWay(e)
    PROVE  OnItsWay(e)'
<1> USE DEF ConveyorInv, DestructionInv, OperationsOK
<1>0. /\ batch \subseteq Report /\ rtodo \subseteq Bit
      /\ interest \in [Desc -> SUBSET Bit] /\ mask \in [Desc -> SUBSET Bit]
      /\ tasks \in Seq(Task) /\ worker \in [Worker -> Task \cup {None}]
      /\ None # d /\ e[1] = d /\ e[2] = b
      /\ inScope[d] /\ \A c \in Thread : uobj[c] = d => ~DestroyRemove(c) /\ ~DestroyClose(c)
    <2>1. inScope[d] /\ \A c \in Thread : uobj[c] = d => ~DestroyRemove(c)
        BY ScopeSteps
    <2>2. \A c \in Thread : uobj[c] = d => ~DestroyClose(c)
        BY <2>1 DEF DestroyClose, CallsOK
    <2>3. QED
        BY <2>1, <2>2, Types DEF TypeInv, TypeOK
\* No final event of the object is about.
<1>1. e \notin finals /\ e \in registered
    BY <1>0 DEF TakenOnce
<1>2. \A s \in Strand : Final(s) => Head(completion[s]).event # e
    BY <1>1, FinalOnStrand DEF Final
<1>3. PICK p \in OperationPlace : OperationAt(d, p)
    BY DEF OnePlace
<1>4. CASE b \in interest[d]
    <2>1. p = "epoll"
        BY <1>3, <1>4 DEF OperationAt
    <2>2. ASSUME NEW c \in Thread, uobj[c] = d, Arm(c) PROVE FALSE
        BY <1>3, <2>1, <2>2 DEF OperationAt, Arm, Arming
    <2>3. ~(Rearm /\ rdesc = d)
        BY <1>3, <2>1 DEF OperationAt, Rearm
    <2>4. interest'[d] = interest[d] \/ \E r \in batch' : r.desc = d
        BY <1>0, <2>2, <2>3, LeavesEpoll
    <2>5. QED
        BY <1>0, <1>4, <2>4 DEF OnItsWay
<1>5. ASSUME NEW c \in Thread, upc[c] \in Arming, ArmedEvent(c) = e PROVE OnItsWay(e)'
    <2>1. uobj[c] = d
        BY <1>0, <1>5, ActedOn
    <2>2. CASE upc'[c] = upc[c] /\ uobj'[c] = uobj[c]
        <3>1. ArmedEvent(c)' = e /\ upc'[c] \in Arming
            BY <1>5, <2>2 DEF ArmedEvent
        <3>2. QED
            BY <3>1 DEF OnItsWay
    <2>3. CASE Arm(c)
        <3>1. ubits[c] = {b} /\ interest'[d] = ubits[c]
            BY <1>0, <1>5, <2>1, <2>3 DEF Arm, InCall
        <3>2. QED
            BY <1>0, <3>1 DEF OnItsWay
    <2>4. CASE ArmFails(c)
        <3>1. complete' = [complete EXCEPT ![e] = issued[e]]
            BY <1>5, <2>4 DEF ArmFails
        <3>2. complete'[e] # 0
            BY <3>1, PendingCounts, Types DEF ConveyorInv, OperationsOK
        <3>3. QED
            BY <3>2 DEF OnItsWay
    <2>5. QED
        BY <1>5, <2>2, <2>3, <2>4, LeavesCall
<1>6. ASSUME NEW r \in batch, r.desc = d PROVE OnItsWay(e)'
    <2>1. ~Wait
        BY <1>6 DEF Wait, ReactorOK
    <2>2. CASE r \in batch'
        BY <1>0, <1>6, <2>2 DEF OnItsWay
    <2>3. ASSUME NEW q \in batch, ClearMask, batch' = batch \ {q}, q = r,
                 rdesc' = q.desc, LET left == mask[q.desc] \ q.events IN
                    /\ rtodo' = IF left # {} THEN left ELSE q.events \cap Bit
                    /\ rpc' = IF left # {} THEN "rearm" ELSE "mark"
          PROVE  OnItsWay(e)'
        <3>1. mask[d] = {b}
            BY <1>0, <1>6, TheBit DEF InReport, TypeInv, BitsOK
        <3>2. rdesc' = d /\ (rpc' = "rearm" \/ b \in rtodo')
            BY <1>0, <1>6, <2>3, <3>1
        <3>3. QED
            BY <1>0, <3>2 DEF OnItsWay
    <2>4. CASE ClearMask
        <3>1. PICK q \in batch :
                /\ batch' = batch \ {q} /\ rdesc' = q.desc
                /\ LET left == mask[q.desc] \ q.events IN
                    /\ rtodo' = IF left # {} THEN left ELSE q.events \cap Bit
                    /\ rpc' = IF left # {} THEN "rearm" ELSE "mark"
            BY <2>4 DEF ClearMask, MaskLeft, Dispatched
        <3>2. QED
            BY <2>2, <2>3, <2>4, <3>1
    <2>5. ASSUME ~ClearMask PROVE batch' = batch
        <3>1. ASSUME Reactor \/ WaitInterrupted PROVE batch' = batch
            BY <2>1, <2>5, <3>1, Zenon DEF Reactor, WaitInterrupted, Drain, Rearm, RearmFails,
               MarkActive, Dispatch, ReportDone, StartDeletion, Delete, EndDeletion, reactor
        <3>2. QED
            BY <3>1, StepOf, CallFrame, TaskFrame, StrandFrame DEF vars, reactor
    <2>6. QED
        BY <2>2, <2>4, <2>5
<1>7. CASE rdesc = d /\ (rpc = "rearm" \/ b \in rtodo)
    <2>1. rtodo = {b}
        <3>1. rtodo # {} /\ rtodo \subseteq Bits(d) /\ \A a \in rtodo : Waiting(<<d, a>>)
            BY <1>0, <1>7 DEF InReactor, TypeInv, BitsOK
        <3>2. QED
            BY <3>1, TheBit
    <2>2. CASE UNCHANGED <<rpc, rdesc, revents, rtodo>>
        BY <1>0, <1>7, <2>2 DEF OnItsWay
    <2>3. CASE Rearm
        <3>1. interest'[d] = {b}
            BY <1>0, <1>7, <2>1, <2>3 DEF Rearm, Rearmed
        <3>2. QED
            BY <1>0, <3>1 DEF OnItsWay
    <2>4. CASE RearmFails
        BY <1>0, <1>7, <2>4 DEF RearmFails, OnItsWay
    <2>5. CASE MarkActive
        BY <1>0, <1>7, <2>1, <2>5 DEF MarkActive, OnItsWay
    <2>6. CASE Dispatch
        <3>1. First(rtodo) = b
            BY <1>0, <2>1, FirstMember
        <3> DEFINE x == [event |-> <<rdesc, First(rtodo)>>, code |-> CodeOf(First(rtodo))]
        <3>2. x \in Task /\ x.event = e
            BY <1>7, <3>1 DEF Task, CodeOf
        <3>3. tasks' = Append(tasks, x)
            BY <2>6 DEF Dispatch
        <3> HIDE DEF x
        <3>4. Len(tasks) + 1 \in DOMAIN tasks' /\ tasks'[Len(tasks) + 1] = x
            BY <1>0, <3>2, <3>3, AfterEnqueue
        <3>5. QED
            BY <3>2, <3>4 DEF OnItsWay
    <2>7. CASE ReportDone
        BY <2>1, <2>7 DEF ReportDone
    <2>8. CASE ClearMask \/ Wait \/ StartDeletion \/ EndDeletion \/ WaitInterrupted
        BY <1>0, <1>7, <2>8
           DEF ClearMask, Wait, StartDeletion, EndDeletion, WaitInterrupted, ReactorOK
    <2>9. QED
        BY <2>2, <2>3, <2>4, <2>5, <2>6, <2>7, <2>8, ReportFrame
<1>8. ASSUME NEW i \in DOMAIN tasks, tasks[i].event = e PROVE OnItsWay(e)'
    <2>1. tasks[i] \in Task /\ tasks[i] # None
        BY <1>0, Types
    <2>2. QED
        BY <1>8, <2>1, LeavesTasks DEF OnItsWay
<1>9. ASSUME NEW w \in Worker, worker[w] # None, worker[w].event = e PROVE OnItsWay(e)'
    <2>1. CASE worker'[w] = worker[w]
        BY <1>9, <2>1 DEF OnItsWay
    <2>2. CASE React(w)
        <3>1. complete' = [complete EXCEPT ![e] = react[e]] /\ react[e] # 0
            BY <1>9, <2>2 DEF React
        <3>2. complete'[e] # 0
            BY <3>1, Types
        <3>3. QED
            BY <3>2 DEF OnItsWay
    <2>3. CASE EnqueueFinal(w)
        <3>1. worker[w] = FinalTask(e)
            BY <1>0, <1>9, <2>3 DEF EnqueueFinal, Task, FinalTask
        <3>2. PICK place \in FinalPlace : FinalAt(e, place)
            BY DEF OneFinalPlace
        <3>3. place = "worker"
            BY <1>0, <3>1, <3>2 DEF FinalAt, OnlyIf, NoneOf
        <3>4. QED
            BY <1>1, <3>2, <3>3 DEF FinalAt
    <2>4. QED
        BY <1>9, <2>1, <2>2, <2>3, LeavesWorker
<1>10. CASE complete[e] # 0
    <2>1. Reacted(e)
        BY <1>10 DEF CountsOK
    <2>2. ASSUME NEW c \in Thread, ArmFails(c), ArmedEvent(c) = e PROVE FALSE
        BY <1>10, <2>2, ActedOn DEF InCall, Waiting
    <2>3. ASSUME NEW w \in Worker, React(w), worker[w].event = e PROVE FALSE
        BY <1>10, <2>3, ActedOn DEF InWorker, Waiting, OperationsOf
    <2>4. ASSUME NEW s \in Strand, Complete(s), Head(completion[s]).event = e PROVE FALSE
        <3>1. called' = [called EXCEPT ![e] = issued[e]] /\ issued' = issued
            BY <1>0, <2>1, <2>4 DEF Complete, MayCallBack, Reacted
        <3>2. QED
            BY <3>1, Types DEF Pending
    <2>5. Reacted(e)'
        BY <1>2, <2>1, <2>2, <2>3, <2>4, EventKept DEF ConveyorInv
    <2>6. CountsOK' /\ issued' \in [Event -> Nat] /\ called' \in [Event -> Nat]
        BY CountsNext, TypeNext DEF TypeInv, TypeOK
    <2>7. complete'[e] # 0
        BY <2>5, <2>6 DEF CountsOK, Reacted, Pending
    <2>8. QED
        BY <2>7 DEF OnItsWay
<1>11. QED
    BY <1>0, <1>4, <1>5, <1>6, <1>7, <1>8, <1>9, <1>10 DEF OnItsWay

LEMMA NoLossNext ==
    ASSUME Simplex, TypeInv, ConveyorInv, NoLostOperation, [Next]_vars
    PROVE  NoLostOperation'
<1> SUFFICES ASSUME NEW e \in Event, Pending(e)', inScope'[e[1]] PROVE OnItsWay(e)'
    BY DEF NoLostOperation, OnItsWay, Arming
<1>0. e[1] \in Desc /\ e[2] \in Bits(e[1]) /\ e = <<e[1], e[2]>>
    BY Types
<1>1. ASSUME NEW c \in Thread, Initiate(c, e) PROVE OnItsWay(e)'
    <2>1. /\ upc' = [upc EXCEPT ![c] = IF e[2] = "IN" THEN "armIN" ELSE "armOUT"]
          /\ uobj' = [uobj EXCEPT ![c] = e[1]]
        BY <1>1 DEF Initiate
    <2>2. e[2] \in {"IN", "OUT"}
        BY EventParts DEF Bit
    <2>3. ArmedEvent(c)' = e /\ upc'[c] \in Arming
        BY <1>0, <2>1, <2>2, Types DEF ArmedEvent, Arming
    <2>4. QED
        BY <2>3 DEF OnItsWay
<1>2. CASE Pending(e)
    <2>1. inScope[e[1]]
        BY <1>0, ScopeSteps
    <2>2. OnItsWay(e)
        BY <1>2, <2>1 DEF NoLostOperation, OnItsWay, Arming
    <2>3. QED
        BY <1>0, <1>2, <2>2, GoesOn
<1>3. QED
    BY <1>1, <1>2, PendingSteps

\* EPOLLONESHOT is honoured: an operation whose callback is still to come is always
\* armed, in a call, in a report or on the conveyor.
THEOREM NothingIsLost == ASSUME Simplex PROVE Spec => []NoLostOperation
<1>1. Simplex
    OBVIOUS
<1>2. Init => NoLostOperation
    BY DEF Init, NoLostOperation, Pending
<1>3. TypeInv /\ ConveyorInv /\ NoLostOperation /\ [Next]_vars => NoLostOperation'
    BY <1>1, NoLossNext
<1>4. QED
    BY <1>2, <1>3, ConveyorIsSound, TypeAlways, PTL DEF Spec

-----------------------------------------------------------------------------
(* The conveyor implements AsyncIo: callbacks are its CallBack, the moment  *)
(* the destructor leaves the scope its Destroy, a final event its Reclaim.  *)

LEMMA PromiseInit == Init => Promise!Init
BY DEF Init, Promise!Init

\* The steps that AsyncIo does not see.
LEMMA Unseen ==
    ASSUME [Next]_vars
    PROVE  \/ \E c \in Thread : DestroyRemove(c) \/ \E e \in Event : Initiate(c, e)
           \/ \E s \in Strand : Complete(s) \/ Final(s)
           \/ UNCHANGED Promise!avars
<1> USE DEF Promise!avars
<1>1. ASSUME NEW c \in Thread, Begin(c) \/ Call(c)
      PROVE  DestroyRemove(c) \/ (\E e \in Event : Initiate(c, e)) \/ UNCHANGED Promise!avars
    BY <1>1, Zenon DEF Begin, Call, Destroy, DestroyBegin, Arm, ArmFails, DestroyClose, Dispose,
       Interrupt, DestroyEnd, history, register
<1>2. ASSUME NEW s \in Strand, StrandThread(s)
      PROVE  Complete(s) \/ Final(s) \/ UNCHANGED Promise!avars
    BY <1>2, Zenon DEF StrandThread, CallbackReturn, history, register
<1>3. Reactor \/ WaitInterrupted => UNCHANGED Promise!avars
    BY ReactorFrame
<1>4. ASSUME NEW w \in Worker, TaskThread(w) PROVE UNCHANGED Promise!avars
    BY <1>4, TaskFrame
<1>5. UNCHANGED vars => UNCHANGED Promise!avars
    BY DEF vars, history, register
<1>6. QED
    BY <1>1, <1>2, <1>3, <1>4, <1>5, StepOf

LEMMA PromiseStart ==
    ASSUME TypeInv, NEW c \in Thread, NEW e \in Event, Initiate(c, e)
    PROVE  Promise!Start(e)
<1>1. inScope[e[1]] /\ issued[e] = called[e]
    BY DEF Initiate, Pending
<1>2. issued' = [issued EXCEPT ![e] = @ + 1]
    BY DEF Initiate
<1>3. UNCHANGED <<called, inScope, registered>>
    BY Zenon DEF Initiate, register
<1>4. QED
    BY <1>1, <1>2, <1>3 DEF Promise!Start

LEMMA PromiseCallBack ==
    ASSUME TypeInv, DestructionInv, CountsOK, NEW s \in Strand, Complete(s)
    PROVE  UNCHANGED Promise!avars \/ \E e \in Event : Promise!CallBack(e)
<1>1. PICK e \in Event : e = Head(completion[s]).event /\ Reacted(e)
    BY CalledEvent DEF DestructionInv
<1>2. issued[e] = called[e] + 1 /\ complete[e] = called[e] + 1
    BY <1>1, PendingCounts DEF Reacted
<1>3. UNCHANGED <<issued, inScope, registered>>
    BY Zenon DEF Complete, register
<1>4. called' = called \/ (inScope[e[1]] /\ called' = [called EXCEPT ![e] = complete[e]])
    BY <1>1 DEF Complete, MayCallBack
<1>5. called[e] < issued[e]
    BY <1>2, Types
<1>6. QED
    BY <1>1, <1>2, <1>3, <1>4, <1>5 DEF Promise!CallBack, Promise!avars

LEMMA PromiseDestroy ==
    ASSUME TypeInv, CallsOK, NEW c \in Thread, DestroyRemove(c)
    PROVE  \E d \in Desc : Promise!Destroy(d)
<1>1. PICK d \in Desc : d = uobj[c]
    BY Types DEF DestroyRemove
<1>2. inScope[d]
    BY <1>1 DEF CallsOK, DestroyRemove
<1>3. inScope' = [inScope EXCEPT ![d] = FALSE]
    BY <1>1 DEF DestroyRemove
<1>4. UNCHANGED <<issued, called, registered>>
    BY Zenon DEF DestroyRemove, register, history
<1>5. QED
    BY <1>2, <1>3, <1>4 DEF Promise!Destroy

LEMMA PromiseReclaim ==
    ASSUME TypeInv, DestructionInv, NEW s \in Strand, Final(s)
    PROVE  UNCHANGED Promise!avars \/ \E e \in Event : Promise!Reclaim(e)
<1>1. PICK e \in Event : e = Head(completion[s]).event /\ e \in finals
    BY FinalOnStrand DEF Final, DestructionInv
<1>2. e \in registered /\ ~inScope[e[1]]
    BY <1>1 DEF DestructionInv, TakenOnce
<1>3. UNCHANGED <<issued, called, inScope>>
    BY Zenon DEF Final, history
<1>4. registered' = registered \/ registered' = registered \ {e}
    BY <1>1 DEF Final, register
<1>5. QED
    BY <1>1, <1>2, <1>3, <1>4 DEF Promise!Reclaim, Promise!avars

\* What the library promises the program: a callback runs at most once per operation,
\* after its start and before the destructor, and memory is reclaimed after it only.
THEOREM KeepsPromise == ASSUME Simplex \/ ~ArmMayFail PROVE Spec => Promise!Spec
<1>1. TypeInv /\ DestructionInv /\ CountsOK /\ [Next]_vars => [Promise!Next]_(Promise!avars)
    BY Unseen, PromiseStart, PromiseCallBack, PromiseDestroy, PromiseReclaim
       DEF DestructionInv, Promise!Next
<1>2. Spec => [](DestructionInv /\ CountsOK)
    BY CountsAlways
<1>3. QED
    BY <1>1, <1>2, PromiseInit, TypeAlways, PTL DEF Spec, Promise!Spec
=============================================================================
