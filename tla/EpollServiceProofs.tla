------------------------- MODULE EpollServiceProofs -------------------------
(* Theorems about EpollService, for every set of objects, strands and threads. *)
EXTENDS EpollService, TLAPS

TypeInv == TypeOK /\ BitsOK

LEMMA BitsAreBits == \A d \in Desc : Bits(d) \subseteq Bit /\ Bits(d) # {}
BY ServiceAssumption DEF Bits, Bit

LEMMA StrandOfType == \A d \in Desc : StrandOf[d] \in Strand
BY ServiceAssumption

LEMMA NoneIsNothing == None \notin Desc /\ None \notin Thread
BY ServiceAssumption

LEMMA EventMember ==
    ASSUME NEW d \in Desc, NEW b \in Bits(d)
    PROVE  <<d, b>> \in Event
BY BitsAreBits DEF Event

LEMMA EventParts ==
    ASSUME NEW e \in Event
    PROVE  e[1] \in Desc /\ e[2] \in Bit /\ e[2] \in Bits(e[1]) /\ e = <<e[1], e[2]>>
BY DEF Event

LEMMA FirstMember == ASSUME NEW b \in SUBSET Bit, b # {} PROVE First(b) \in b
BY DEF First, Bit

\* Queues keep the type of their entries.
LEMMA Enqueued == ASSUME NEW S, NEW q \in Seq(S), NEW x \in S PROVE Append(q, x) \in Seq(S)
OBVIOUS

LEMMA Dequeued ==
    ASSUME NEW S, NEW q \in Seq(S), q # <<>>
    PROVE  Head(q) \in S /\ Tail(q) \in Seq(S)
OBVIOUS

\* What a step of epoll_wait reports, spelled out.
LEMMA WaitReports ==
    ASSUME Wait
    PROVE  \E D \in SUBSET {d \in Desc : interest[d] # {}}, w \in {FALSE, wake} :
             \E ready \in {f \in [D -> SUBSET Flag] : \A d \in D : f[d] \in Reportable(d)} :
                /\ batch' = {[desc |-> d, events |-> ready[d]] : d \in D}
                /\ interest' = [d \in Desc |-> IF d \in D THEN {} ELSE interest[d]]
                /\ woken' = w
BY Zenon DEF Wait

LEMMA NextEntry ==
    ASSUME TypeInv, NEW s \in Strand, NEW final, IsNext(s, final)
    PROVE  /\ Head(completion[s]) \in Completion
           /\ Tail(completion[s]) \in Seq(Completion)
           /\ Head(completion[s]).event \in Event
<1>1. completion[s] \in Seq(Completion) /\ completion[s] # <<>>
    BY DEF TypeInv, TypeOK, IsNext
<1>2. Head(completion[s]) \in Completion /\ Tail(completion[s]) \in Seq(Completion)
    BY <1>1, Dequeued
<1>3. QED
    BY <1>2 DEF Completion

LEMMA TypeInit == Init => TypeInv
<1> SUFFICES ASSUME Init PROVE TypeInv
    OBVIOUS
<1>1. TypeOK
    <2>1. /\ fdOpen \in [Desc -> BOOLEAN]
          /\ deletion \in Seq(Event)
          /\ tasks \in Seq(Task)
          /\ completion \in [Strand -> Seq(Completion)]
        BY DEF Init
    <2>2. QED
        BY <2>1 DEF Init, TypeOK
<1>2. BitsOK
    BY DEF Init, BitsOK
<1>3. QED
    BY <1>1, <1>2 DEF TypeInv

LEMMA TypeNext == TypeInv /\ [Next]_vars => TypeInv'
<1> SUFFICES ASSUME TypeInv, [Next]_vars PROVE TypeInv'
    OBVIOUS
<1> USE StrandOfType, NoneIsNothing, BitsAreBits DEF TypeInv, TypeOK, BitsOK, Thread,
        kernel, events, register, reactor, user, history
<1>1. ASSUME NEW c \in Thread, NEW e \in Event, Initiate(c, e) PROVE TypeInv'
    <2> DEFINE d == e[1]
               b == e[2]
    <2>0. d \in Desc /\ b \in Bit /\ issued[e] + 1 \in Nat
        BY <1>1, EventParts
    <2>1. TypeOK'
        <3> HIDE DEF b
        <3>1. mask[d] \cup {b} \in SUBSET Bit
            BY <2>0
        <3>2. QED
            BY <1>1, <2>0, <3>1 DEF Initiate, b
    <2>2. BitsOK'
        BY <1>1, EventParts DEF Initiate, MayCall, Bit
    <2>3. QED BY <2>1, <2>2
<1>2. ASSUME NEW c \in Thread, NEW d \in Desc, DestroyBegin(c, d) PROVE TypeInv'
    <2>1. TypeOK'
        BY <1>2 DEF DestroyBegin
    <2>2. BitsOK'
        BY <1>2 DEF DestroyBegin, MayCall
    <2>3. QED BY <2>1, <2>2
<1>3. ASSUME NEW c \in Thread, Arm(c) PROVE TypeInv'
    BY <1>3 DEF Arm, Return
<1>4. ASSUME NEW c \in Thread, ArmFails(c) PROVE TypeInv'
    <2> DEFINE e == ArmedEvent(c)
               s == StrandOf[uobj[c]]
    <2>1. e \in Event /\ s \in Strand
        BY <1>4, EventMember DEF ArmFails, ArmedEvent
    <2>2. Append(completion[s], [event |-> e, final |-> FALSE]) \in Seq(Completion)
        BY <2>1, Enqueued DEF Completion
    <2> HIDE DEF e, s
    <2>3. TypeOK'
        BY <1>4, <2>1, <2>2 DEF ArmFails, Return, e, s
    <2>4. BitsOK'
        BY <1>4 DEF ArmFails, Return
    <2>5. QED BY <2>3, <2>4
<1>5. ASSUME NEW c \in Thread, DestroyRemove(c) PROVE TypeInv'
    BY <1>5 DEF DestroyRemove
<1>6. ASSUME NEW c \in Thread, DestroyClose(c) PROVE TypeInv'
    BY <1>6 DEF DestroyClose
<1>7. ASSUME NEW c \in Thread, Dispose(c) PROVE TypeInv'
    <2> DEFINE e == <<uobj[c], First(ubits[c])>>
    <2>1. e \in Event
        BY <1>7, EventMember, FirstMember DEF Dispose
    <2>2. Append(deletion, e) \in Seq(Event)
        BY <2>1, Enqueued
    <2> HIDE DEF e
    <2>3. TypeOK'
        BY <1>7, <2>1, <2>2 DEF Dispose, e
    <2>4. BitsOK'
        BY <1>7 DEF Dispose
    <2>5. QED BY <2>3, <2>4
<1>8. ASSUME NEW c \in Thread, Interrupt(c) PROVE TypeInv'
    BY <1>8 DEF Interrupt
<1>9. ASSUME NEW c \in Thread, DestroyEnd(c) PROVE TypeInv'
    BY <1>9 DEF DestroyEnd, Return, OwnerAfterUnlock
<1>10. CASE Wait
    <2>1. PICK D \in SUBSET {d \in Desc : interest[d] # {}}, w \in {FALSE, wake} :
            \E ready \in {f \in [D -> SUBSET Flag] : \A d \in D : f[d] \in Reportable(d)} :
                /\ batch' = {[desc |-> d, events |-> ready[d]] : d \in D}
                /\ interest' = [d \in Desc |-> IF d \in D THEN {} ELSE interest[d]]
                /\ woken' = w
        BY <1>10, WaitReports
    <2>2. PICK ready \in [D -> SUBSET Flag] :
            /\ \A d \in D : ready[d] \in Reportable(d)
            /\ batch' = {[desc |-> d, events |-> ready[d]] : d \in D}
            /\ interest' = [d \in Desc |-> IF d \in D THEN {} ELSE interest[d]]
            /\ woken' = w
        BY <2>1
    <2>3. \A r \in batch' : r \in Report /\ r.events \cap Bit \subseteq Bits(r.desc)
        <3> SUFFICES ASSUME NEW d \in D
                     PROVE  /\ [desc |-> d, events |-> ready[d]] \in Report
                            /\ ready[d] \cap Bit \subseteq Bits(d)
            BY <2>2
        <3>1. d \in Desc /\ ready[d] \in SUBSET Flag
            BY <2>1, <2>2
        <3>2. ready[d] \subseteq interest[d] \cup {"HUP", "ERR"}
            BY <2>2 DEF Reportable
        <3>3. QED
            BY <3>1, <3>2 DEF Report, Bit
    <2>4. TypeOK'
        BY <1>10, <2>1, <2>2, <2>3 DEF Wait
    <2>5. BitsOK'
        BY <1>10, <2>1, <2>2, <2>3 DEF Wait
    <2>6. QED BY <2>4, <2>5
<1>11. CASE WaitInterrupted
    BY <1>11 DEF WaitInterrupted
<1>12. CASE Drain
    BY <1>12 DEF Drain
<1>13. CASE ClearMask
    BY <1>13 DEF ClearMask, MaskLeft, Dispatched, Report, Bit, Flag
<1>14. CASE Rearm
    <2>1. rdesc \in Desc /\ rtodo \subseteq Bits(rdesc) /\ Dispatched(revents) \subseteq Bits(rdesc)
        BY <1>14 DEF Rearm, Dispatched
    <2>2. TypeOK'
        BY <1>14, <2>1 DEF Rearm, Rearmed
    <2>3. BitsOK'
        BY <1>14, <2>1 DEF Rearm, Rearmed
    <2>4. QED BY <2>2, <2>3
<1>15. CASE RearmFails
    BY <1>15 DEF RearmFails, Bit
<1>16. CASE MarkActive
    BY <1>16 DEF MarkActive
<1>17. CASE Dispatch
    <2> DEFINE t == [event |-> <<rdesc, First(rtodo)>>, code |-> CodeOf(First(rtodo))]
    <2>1. <<rdesc, First(rtodo)>> \in Event
        BY <1>17, EventMember, FirstMember DEF Dispatch
    <2>2. t \in Task
        BY <2>1 DEF Task, CodeOf
    <2>3. Append(tasks, t) \in Seq(Task)
        BY <2>2, Enqueued
    <2> HIDE DEF t
    <2>4. TypeOK'
        BY <1>17, <2>3 DEF Dispatch, t
    <2>5. BitsOK'
        BY <1>17 DEF Dispatch
    <2>6. QED BY <2>4, <2>5
<1>18. CASE ReportDone
    BY <1>18 DEF ReportDone
<1>19. CASE StartDeletion
    BY <1>19 DEF StartDeletion
<1>20. CASE Delete
    <2>1. Head(deletion) \in Event /\ Tail(deletion) \in Seq(Event)
        BY <1>20, Dequeued DEF Delete
    <2>2. Append(tasks, [event |-> Head(deletion), code |-> "FINAL"]) \in Seq(Task)
        BY <2>1, Enqueued DEF Task
    <2>3. TypeOK'
        BY <1>20, <2>1, <2>2 DEF Delete
    <2>4. BitsOK'
        BY <1>20 DEF Delete
    <2>5. QED BY <2>3, <2>4
<1>21. CASE EndDeletion
    BY <1>21 DEF EndDeletion
<1>22. ASSUME NEW w \in Worker, TakeTask(w) PROVE TypeInv'
    BY <1>22 DEF TakeTask
<1>23. ASSUME NEW w \in Worker, React(w) PROVE TypeInv'
    <2> DEFINE t == worker[w]
               e == t.event
               s == StrandOf[e[1]]
    <2>1. e \in Event /\ s \in Strand
        BY <1>23, EventParts DEF React, Task
    <2>2. Append(completion[s], [event |-> e, final |-> FALSE]) \in Seq(Completion)
        BY <2>1, Enqueued DEF Completion
    <2> HIDE DEF s, e
    <2>3. TypeOK'
        BY <1>23, <2>1, <2>2 DEF React, s, e
    <2>4. BitsOK'
        BY <1>23 DEF React
    <2>5. QED BY <2>3, <2>4
<1>24. ASSUME NEW w \in Worker, EnqueueFinal(w) PROVE TypeInv'
    <2> DEFINE t == worker[w]
               e == t.event
               s == StrandOf[e[1]]
    <2>1. e \in Event /\ s \in Strand
        BY <1>24, EventParts DEF EnqueueFinal, Task
    <2>2. Append(completion[s], [event |-> e, final |-> TRUE]) \in Seq(Completion)
        BY <2>1, Enqueued DEF Completion
    <2> HIDE DEF s, e
    <2>3. TypeOK'
        BY <1>24, <2>1, <2>2 DEF EnqueueFinal, s, e
    <2>4. BitsOK'
        BY <1>24 DEF EnqueueFinal
    <2>5. QED BY <2>3, <2>4
<1>25. ASSUME NEW s \in Strand, Complete(s) PROVE TypeInv'
    <2> DEFINE e == Head(completion[s]).event
    <2>1. e \in Event /\ Tail(completion[s]) \in Seq(Completion)
        BY <1>25, NextEntry DEF Complete
    <2> HIDE DEF e
    <2>2. TypeOK'
        <3>1. e[1] \in Desc /\ s \in Thread /\ complete[e] \in Nat
            BY <2>1, EventParts
        <3>2. CASE MayCallBack(e[1])
            <4>1. /\ called' = [called EXCEPT ![e] = complete[e]]
                  /\ running' = [running EXCEPT ![s] = e]
                  /\ owner' = [owner EXCEPT ![e[1]] = s]
                BY <1>25, <3>2 DEF Complete, e
            <4>2. /\ called' \in [Event -> Nat]
                  /\ running' \in [Strand -> Event \cup {None}]
                  /\ owner' \in [Desc -> Thread \cup {None}]
                BY <2>1, <3>1, <4>1
            <4>3. QED
                BY <1>25, <2>1, <3>1, <4>2 DEF Complete, NoLongerActive, e
        <3>3. CASE ~MayCallBack(e[1])
            BY <1>25, <2>1, <3>1, <3>3 DEF Complete, NoLongerActive, e
        <3>4. QED
            BY <3>2, <3>3
    <2>3. BitsOK'
        BY <1>25 DEF Complete
    <2>4. QED BY <2>2, <2>3
<1>26. ASSUME NEW s \in Strand, CallbackReturn(s) PROVE TypeInv'
    BY <1>26 DEF CallbackReturn
<1>27. ASSUME NEW s \in Strand, Final(s) PROVE TypeInv'
    <2>1. Head(completion[s]) \in Completion /\ Tail(completion[s]) \in Seq(Completion)
        BY <1>27, NextEntry DEF Final
    <2>2. Append(Tail(completion[s]), Head(completion[s])) \in Seq(Completion)
        BY <2>1, Enqueued
    <2>3. TypeOK'
        <3>1. CASE Postponed(Head(completion[s]).event)
            <4> DEFINE q == Append(Tail(completion[s]), Head(completion[s]))
            <4>0. completion' = [completion EXCEPT ![s] = q]
                BY <1>27, <3>1, Zenon DEF Final
            <4> HIDE DEF q
            <4>1. completion' \in [Strand -> Seq(Completion)]
                BY <2>2, <4>0 DEF q
            <4>2. UNCHANGED <<events, register>>
                BY <1>27, <3>1 DEF Final
            <4>3. QED
                BY <1>27, <4>1, <4>2 DEF Final
        <3>2. CASE ~Postponed(Head(completion[s]).event)
            <4> DEFINE e == Head(completion[s]).event
            <4>1. /\ completion' = [completion EXCEPT ![s] = Tail(@)]
                  /\ registered' = registered \ {e}
                  /\ finals' = finals \ {e}
                  /\ react' = [react EXCEPT ![e] = 0]
                  /\ complete' = [complete EXCEPT ![e] = 0]
                  /\ UNCHANGED hasActive
                BY <1>27, <3>2 DEF Final
            <4> HIDE DEF e
            <4>2. QED
                BY <1>27, <2>1, <4>1 DEF Final
        <3>3. QED
            BY <3>1, <3>2
    <2>4. BitsOK'
        BY <1>27 DEF Final
    <2>5. QED BY <2>3, <2>4
<1>28. CASE UNCHANGED vars
    BY <1>28 DEF vars
<1>29. QED
    BY <1>1, <1>2, <1>3, <1>4, <1>5, <1>6, <1>7, <1>8, <1>9, <1>10, <1>11, <1>12, <1>13,
       <1>14, <1>15, <1>16, <1>17, <1>18, <1>19, <1>20, <1>21, <1>22, <1>23, <1>24, <1>25,
       <1>26, <1>27, <1>28
       DEF Next, Begin, Call, Destroy, Reactor, TaskThread, StrandThread

LEMMA TypeAlways == Spec => []TypeInv
BY TypeInit, TypeNext, PTL DEF Spec

\* Every variable keeps its type, whatever the population of objects and threads.
THEOREM TypeCorrect == Spec => []TypeOK
<1>1. Spec => []TypeInv
    BY TypeAlways
<1>2. TypeInv => TypeOK
    BY DEF TypeInv
<1>3. QED
    BY <1>1, <1>2, PTL

-----------------------------------------------------------------------------
(* The interrupter.                                                         *)

LEMMA WakeupNext == TypeInv /\ NoLostWakeup /\ [Next]_vars => NoLostWakeup'
<1> SUFFICES ASSUME TypeInv, NoLostWakeup, [Next]_vars PROVE NoLostWakeup'
    OBVIOUS
<1>0. upc \in [Thread -> {"idle", "armIN", "armOUT", "lock", "close", "dispose", "interrupt"}]
    BY DEF TypeInv, TypeOK
<1> USE DEF NoLostWakeup, kernel, events, register, reactor, user, history
\* A thread that does not leave "interrupt" leaves the promise of the others.
<1>1. ASSUME NEW c \in Thread, upc[c] # "interrupt",
             \E pc : upc' = [upc EXCEPT ![c] = pc],
             UNCHANGED <<rpc, deletion, wake>>
      PROVE  NoLostWakeup'
    BY <1>0, <1>1
<1>2. ASSUME NEW c \in Thread, NEW e \in Event, Initiate(c, e) PROVE NoLostWakeup'
    BY <1>1, <1>2 DEF Initiate, MayCall
<1>3. ASSUME NEW c \in Thread, NEW d \in Desc, DestroyBegin(c, d) PROVE NoLostWakeup'
    BY <1>1, <1>3 DEF DestroyBegin, MayCall
<1>4. ASSUME NEW c \in Thread, Arm(c) \/ ArmFails(c) PROVE NoLostWakeup'
    BY <1>1, <1>4 DEF Arm, ArmFails, Return
<1>5. ASSUME NEW c \in Thread, DestroyRemove(c) \/ DestroyClose(c) \/ DestroyEnd(c)
      PROVE  NoLostWakeup'
    BY <1>1, <1>5 DEF DestroyRemove, DestroyClose, DestroyEnd, Return
<1>6. ASSUME NEW c \in Thread, Dispose(c) PROVE NoLostWakeup'
    BY <1>0, <1>6 DEF Dispose
<1>7. ASSUME NEW c \in Thread, Interrupt(c) PROVE NoLostWakeup'
    BY <1>7 DEF Interrupt
\* The pipe is emptied before the deletion queue, never after.
<1>8. CASE Reactor \/ WaitInterrupted
    <2>1. rpc' # "wait" \/ deletion' = <<>>
        BY <1>8, Zenon DEF Reactor, Wait, WaitInterrupted, Drain, ClearMask, Rearm, RearmFails,
               MarkActive, Dispatch, ReportDone, StartDeletion, Delete, EndDeletion, DeletionDone
    <2>2. QED
        BY <2>1
<1>9. ASSUME NEW w \in Worker, TaskThread(w) PROVE NoLostWakeup'
    BY <1>9 DEF TaskThread, TakeTask, React, EnqueueFinal
<1>10. ASSUME NEW s \in Strand, StrandThread(s) PROVE NoLostWakeup'
    BY <1>10 DEF StrandThread, Complete, CallbackReturn, Final
<1>11. CASE UNCHANGED vars
    BY <1>11 DEF vars
<1>12. QED
    BY <1>2, <1>3, <1>4, <1>5, <1>6, <1>7, <1>8, <1>9, <1>10, <1>11
       DEF Next, Begin, Call, Destroy

\* The reactor never sleeps on a final event without somebody to wake it.
THEOREM WakeupNeverLost == Spec => []NoLostWakeup
<1>1. Init => NoLostWakeup
    BY DEF Init, NoLostWakeup
<1>2. QED
    BY <1>1, TypeAlways, WakeupNext, PTL DEF Spec

-----------------------------------------------------------------------------
(* The lock of a descriptor.                                                *)

LEMMA LockNext == TypeInv /\ LockHeld /\ [Next]_vars => LockHeld'
<1> SUFFICES ASSUME TypeInv, LockHeld, [Next]_vars PROVE LockHeld'
    OBVIOUS
<1>0. /\ owner \in [Desc -> Thread \cup {None}]
      /\ running \in [Strand -> Event \cup {None}]
      /\ upc \in [Thread -> {"idle", "armIN", "armOUT", "lock", "close", "dispose", "interrupt"}]
      /\ uobj \in [Thread -> Desc \cup {None}]
      /\ \A s \in Strand : running[s] # None => running[s][1] \in Desc
      /\ \A c \in Thread : upc[c] # "idle" => uobj[c] \in Desc
      /\ Strand \subseteq Thread
      /\ None \notin Thread
    BY EventParts, NoneIsNothing DEF TypeInv, TypeOK, BitsOK, Thread
<1> USE DEF LockHeld, kernel, events, register, reactor, user, history
\* A call that neither takes nor releases a lock.
<1>1. ASSUME NEW c \in Thread, UNCHANGED <<owner, running>>,
             \/ \E pc \in {"idle", "armIN", "armOUT", "lock"} : \E d :
                   upc' = [upc EXCEPT ![c] = pc] /\ uobj' = [uobj EXCEPT ![c] = d]
             \/ /\ upc[c] \in {"close", "dispose", "interrupt"}
                /\ \E pc : upc' = [upc EXCEPT ![c] = pc]
                /\ UNCHANGED uobj
      PROVE  LockHeld'
    BY <1>0, <1>1
<1>2. ASSUME NEW c \in Thread, NEW e \in Event, Initiate(c, e) PROVE LockHeld'
    BY <1>1, <1>2 DEF Initiate
<1>3. ASSUME NEW c \in Thread, NEW d \in Desc, DestroyBegin(c, d) PROVE LockHeld'
    BY <1>1, <1>3 DEF DestroyBegin
<1>4. ASSUME NEW c \in Thread, Arm(c) \/ ArmFails(c) PROVE LockHeld'
    BY <1>1, <1>4 DEF Arm, ArmFails, Return
<1>5. ASSUME NEW c \in Thread, DestroyRemove(c) PROVE LockHeld'
    BY <1>0, <1>5 DEF DestroyRemove, CanLock
<1>6. ASSUME NEW c \in Thread, DestroyClose(c) \/ Dispose(c) \/ Interrupt(c) PROVE LockHeld'
    BY <1>1, <1>6 DEF DestroyClose, Dispose, Interrupt
<1>7. ASSUME NEW c \in Thread, DestroyEnd(c) PROVE LockHeld'
    BY <1>0, <1>7 DEF DestroyEnd, OwnerAfterUnlock, InCallbackOf, Return
<1>8. CASE Reactor \/ WaitInterrupted
    BY <1>8 DEF Reactor, Wait, WaitInterrupted, Drain, ClearMask, Rearm, RearmFails,
           MarkActive, Dispatch, ReportDone, StartDeletion, Delete, EndDeletion
<1>9. ASSUME NEW w \in Worker, TaskThread(w) PROVE LockHeld'
    BY <1>9 DEF TaskThread, TakeTask, React, EnqueueFinal
<1>10. ASSUME NEW s \in Strand, Complete(s) PROVE LockHeld'
    <2> DEFINE e == Head(completion[s]).event
    <2>1. e[1] \in Desc /\ e # None
        BY <1>10, NextEntry, EventParts, ServiceAssumption DEF Complete, Event
    <2> HIDE DEF e
    <2>2. CASE MayCallBack(e[1])
        <3>1. /\ owner[e[1]] = None
              /\ running' = [running EXCEPT ![s] = e]
              /\ owner' = [owner EXCEPT ![e[1]] = s]
              /\ UNCHANGED user
            BY <1>10, <2>2 DEF Complete, e
        <3>2. QED
            BY <1>0, <2>1, <3>1
    <2>3. CASE ~MayCallBack(e[1])
        BY <1>10, <2>3 DEF Complete, e
    <2>4. QED
        BY <2>2, <2>3
<1>11. ASSUME NEW s \in Strand, CallbackReturn(s) PROVE LockHeld'
    BY <1>0, <1>11 DEF CallbackReturn
<1>12. ASSUME NEW s \in Strand, Final(s) PROVE LockHeld'
    BY <1>12 DEF Final
<1>13. CASE UNCHANGED vars
    BY <1>13 DEF vars
<1>14. QED
    BY <1>2, <1>3, <1>4, <1>5, <1>6, <1>7, <1>8, <1>9, <1>10, <1>11, <1>12, <1>13
       DEF Next, Begin, Call, Destroy, StrandThread

\* in_scope_mtx excludes the callbacks and the destructor of an object from each
\* other, but for a destructor run by the callback.
THEOREM LockAlwaysHeld == Spec => []LockHeld
<1>1. Init => LockHeld
    BY DEF Init, LockHeld
<1>2. QED
    BY <1>1, TypeAlways, LockNext, PTL DEF Spec

\* No thread ends the scope of an object under a callback that another one runs.
THEOREM ScopeEnds == Spec => ScopeEndsOutsideCallbacks
<1> DEFINE Step == \A d \in Desc : inScope[d] /\ ~inScope'[d] =>
                       \A s \in Strand : InCallbackOf(s, d) => uobj[s] = d
<1>1. TypeInv /\ LockHeld /\ Next => Step
    <2> SUFFICES ASSUME TypeInv, LockHeld, Next,
                        NEW d \in Desc, inScope[d], ~inScope'[d],
                        NEW s \in Strand, InCallbackOf(s, d)
                 PROVE  uobj[s] = d
        OBVIOUS
    <2> USE DEF kernel, events, register, reactor, user, history
    <2>1. PICK c \in Thread : DestroyRemove(c)
        <3>1. inScope' # inScope
            OBVIOUS
        <3>2. QED
            BY <3>1, Zenon DEF Next, Begin, Call, Destroy, Initiate, Arm, ArmFails, DestroyBegin,
               DestroyClose, Dispose, Interrupt, DestroyEnd, Reactor, Wait, WaitInterrupted, Drain,
               ClearMask, Rearm, RearmFails, MarkActive, Dispatch, ReportDone, StartDeletion,
               Delete, EndDeletion, TaskThread, TakeTask, React, EnqueueFinal, StrandThread,
               Complete, CallbackReturn, Final
    <2>2. uobj[c] = d
        BY <2>1 DEF DestroyRemove, TypeInv, TypeOK
    <2>3. owner[d] = s
        BY DEF LockHeld, InCallbackOf
    <2>4. s = c
        BY <2>1, <2>2, <2>3, NoneIsNothing DEF DestroyRemove, CanLock, Thread
    <2>5. QED
        BY <2>2, <2>4
<1>2. TypeInv /\ LockHeld /\ [Next]_vars => [Step]_vars
    BY <1>1
<1>3. QED
    BY <1>2, TypeAlways, LockAlwaysHeld, PTL DEF Spec, ScopeEndsOutsideCallbacks
=============================================================================
