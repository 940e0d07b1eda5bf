------------------------- MODULE BlockingQueueProofs -------------------------
(***************************************************************************)
(* Proofs about BlockingQueue, for any number of consumers and callers.     *)
(* The invariant: whoever is inside a critical section holds the mutex, and *)
(* the decision to sleep is only taken, and only kept, under the mutex.     *)
(***************************************************************************)
EXTENDS BlockingQueue, SequenceTheorems, FiniteSetTheorems, TLAPS

\* The consumers with a task in their hands.
Busy(c) == pc[c] \notin {"loop", "wait", "check", "sleep", "asleep", "dequeue", "pop", "done"}

Hands == \A c \in Consumer : Busy(c) <=> task[c] # None

Exclusion == \A t \in Thread : pc[t] \in Critical => mutex = t

Asleep == \A c \in sleeping : pc[c] = "asleep"

\* Whoever sleeps, or is about to, has looked at the queue under the mutex.
NothingToDo ==
    \A c \in Consumer : c \in sleeping \/ pc[c] = "sleep" => queue = <<>> /\ active

DoneAfterStop == \A c \in Consumer : pc[c] = "done" => ~run

TypeInv == TypeOK /\ Hands /\ DoneAfterStop
SleepInv == TypeInv /\ Exclusion /\ Asleep /\ NothingToDo

-----------------------------------------------------------------------------
LEMMA LockPlaces ==
    /\ DOMAIN Locking = {"enqueue", "wait", "asleep", "dequeue", "stop"}
    /\ Locking["enqueue"] = "push" /\ Locking["wait"] = "check" /\ Locking["asleep"] = "check"
    /\ Locking["dequeue"] = "pop" /\ Locking["stop"] = "deactivate"
BY DEF Locking

LEMMA NoneIsNoTask == None \notin Nat
BY QueueAssumption

LEMMA TypeInit == Init => TypeInv
BY EmptySeq, NoneIsNoTask DEF Init, TypeInv, TypeOK, Hands, Busy, DoneAfterStop, Thread, Free

LEMMA TypeStep == TypeInv /\ [Next]_vars => TypeInv'
<1> SUFFICES ASSUME TypeInv, [Next]_vars PROVE TypeInv'
    OBVIOUS
<1> USE DEF TypeInv, TypeOK, Hands, Busy, DoneAfterStop, flags, history, Goto, Free, Critical
<1>c. Consumer \subseteq Thread /\ Consumer \cap Program = {}
    BY QueueAssumption DEF Thread
<1>1. ASSUME NEW t \in Thread, Lock(t) PROVE TypeInv'
    BY <1>1, <1>c, LockPlaces DEF Lock
<1>2. ASSUME NEW t \in Thread, Push(t) PROVE TypeInv'
    <2>1. Append(queue, pushed + 1) \in Seq(Nat)
        BY AppendProperties
    <2>2. QED
        BY <1>2, <1>c, <2>1 DEF Push, AtEnd, Unnotified, Back
<1>3. ASSUME NEW t \in Thread, StopOwn(t) \/ Deactivate(t) \/ Begin(t) PROVE TypeInv'
    <2>1. CASE StopOwn(t)
        BY <2>1, <1>c DEF StopOwn
    <2>2. CASE Deactivate(t)
        BY <2>2, <1>c DEF Deactivate, Unnotified, Back
    <2>3. CASE BeginEnqueue(t)
        BY <2>3, <1>c DEF BeginEnqueue, MayCall
    <2>4. CASE BeginStop(t)
        BY <2>4, <1>c DEF BeginStop, MayCall
    <2>5. QED
        BY <1>3, <2>1, <2>2, <2>3, <2>4 DEF Begin
<1>4. ASSUME NEW c \in Consumer, Loop(c) \/ Check(c) \/ Sleep(c) \/ SpuriousWakeup(c)
      PROVE  TypeInv'
    <2>1. CASE Loop(c)
        BY <2>1, <1>c DEF Loop
    <2>2. CASE Check(c)
        BY <2>2, <1>c DEF Check
    <2>3. CASE Sleep(c)
        BY <2>3, <1>c DEF Sleep
    <2>4. CASE SpuriousWakeup(c)
        BY <2>4, <1>c DEF SpuriousWakeup
    <2>5. QED
        BY <1>4, <2>1, <2>2, <2>3, <2>4
<1>5. ASSUME NEW c \in Consumer, Pop(c) PROVE TypeInv'
    <2>1. queue # <<>> => Head(queue) \in Nat /\ Tail(queue) \in Seq(Nat)
        BY HeadTailProperties
    <2>2. QED
        BY <1>5, <1>c, <2>1, NoneIsNoTask DEF Pop, Rest
<1>6. ASSUME NEW c \in Consumer, RunTask(c) PROVE TypeInv'
    <2>1. task[c] \in Nat
        BY <1>6 DEF RunTask
    <2>2. Append(ran, task[c]) \in Seq(Nat)
        BY <2>1, AppendProperties
    <2>3. QED
        BY <1>6, <1>c, <2>2 DEF RunTask
<1>7. ASSUME NEW c \in Consumer, DropTask(c) \/ TaskReturns(c) PROVE TypeInv'
    <2>1. CASE DropTask(c)
        BY <2>1, <1>c, NoneIsNoTask DEF DropTask
    <2>2. CASE TaskReturns(c)
        BY <2>2, <1>c DEF TaskReturns
    <2>3. QED
        BY <1>7, <2>1, <2>2
<1>8. CASE Clear
    <2>1. {queue[i] : i \in DOMAIN queue} \subseteq Nat
        BY ElementOfSeq, LenProperties
    <2>2. <<>> \in Seq(Nat)
        BY EmptySeq
    <2>3. QED
        BY <1>8, <2>1, <2>2 DEF Clear
<1>9. CASE UNCHANGED vars
    BY <1>9 DEF vars
<1>10. QED
    BY <1>1, <1>2, <1>3, <1>4, <1>5, <1>6, <1>7, <1>8, <1>9 DEF Next, Calls, Consume

\* Every variable keeps its type: the queue holds tasks only, and each thread is
\* at a place of its loop or of its call.
THEOREM TypeCorrect == Spec => []TypeOK
<1>1. Spec => []TypeInv
    BY TypeInit, TypeStep, PTL DEF Spec
<1>2. TypeInv => TypeOK
    BY DEF TypeInv
<1>3. QED
    BY <1>1, <1>2, PTL

-----------------------------------------------------------------------------
(* No lost wakeup.                                                          *)

LEMMA SleepStep == SleepInv /\ [Next]_vars => SleepInv'
<1> SUFFICES ASSUME SleepInv, [Next]_vars PROVE SleepInv'
    OBVIOUS
<1>t. TypeInv'
    BY TypeStep DEF SleepInv
<1> USE DEF SleepInv, Exclusion, Asleep, NothingToDo, flags, history, Goto, Critical
<1>c. /\ Consumer \subseteq Thread /\ None \notin Thread
      /\ pc \in [Thread -> Free \cup Critical] /\ sleeping \subseteq Consumer
    BY QueueAssumption DEF Thread, TypeInv, TypeOK
\* Taking the free mutex enters a critical section nobody else is in.
<1>1. ASSUME NEW t \in Thread, Lock(t) PROVE SleepInv'
    BY <1>1, <1>c, <1>t, LockPlaces DEF Lock
\* A push or a stop wakes everybody, and nobody decides to sleep meanwhile.
<1>2. ASSUME NEW t \in Thread, Push(t) PROVE SleepInv'
    BY <1>2, <1>c, <1>t DEF Push, Unnotified, Back
<1>3. ASSUME NEW t \in Thread, Deactivate(t) PROVE SleepInv'
    BY <1>3, <1>c, <1>t DEF Deactivate, Unnotified, Back
<1>4. ASSUME NEW t \in Thread, StopOwn(t) \/ Begin(t) PROVE SleepInv'
    BY <1>4, <1>c, <1>t DEF StopOwn, Begin, BeginEnqueue, BeginStop, MayCall
<1>5. ASSUME NEW c \in Consumer, Check(c) PROVE SleepInv'
    BY <1>5, <1>c, <1>t DEF Check, HasToWait
<1>6. ASSUME NEW c \in Consumer, Sleep(c) \/ SpuriousWakeup(c) PROVE SleepInv'
    BY <1>6, <1>c, <1>t DEF Sleep, SpuriousWakeup
\* Somebody sleeps only if the queue is empty: there is nothing to take.
<1>7. ASSUME NEW c \in Consumer, Pop(c) PROVE SleepInv'
    BY <1>7, <1>c, <1>t DEF Pop
<1>8. ASSUME NEW c \in Consumer, Loop(c) \/ RunTask(c) \/ DropTask(c) \/ TaskReturns(c)
      PROVE  SleepInv'
    BY <1>8, <1>c, <1>t DEF Loop, RunTask, DropTask, TaskReturns
<1>9. CASE Clear
    BY <1>9, <1>c, <1>t DEF Clear
<1>10. CASE UNCHANGED vars
    BY <1>10, <1>t DEF vars
<1>11. QED
    BY <1>1, <1>2, <1>3, <1>4, <1>5, <1>6, <1>7, <1>8, <1>9, <1>10 DEF Next, Calls, Consume

\* A thread stays asleep in the condition variable only while there is no task
\* and no stop, for any number of threads and whatever they interleave.
THEOREM WakeupNeverLost == Spec => []NoSleeperOnWork
<1>1. Init => SleepInv
    BY TypeInit, QueueAssumption
    DEF Init, SleepInv, Exclusion, Asleep, NothingToDo, Critical
<1>2. SleepInv => NoSleeperOnWork
    BY DEF SleepInv, NothingToDo, NoSleeperOnWork, TypeInv, TypeOK
<1>3. QED
    BY <1>1, <1>2, SleepStep, PTL DEF Spec

-----------------------------------------------------------------------------
(* The refinement.                                                          *)

LEMMA StepRefines == TypeInv /\ [Next]_vars => [Atomic!Next]_(Atomic!qvars)
<1> SUFFICES ASSUME TypeInv, [Next]_vars PROVE [Atomic!Next]_(Atomic!qvars)
    OBVIOUS
<1> USE DEF flags, history, Atomic!qvars
<1>1. ASSUME NEW t \in Thread, Push(t) PROVE Atomic!Put
    BY <1>1 DEF Push, AtEnd, Atomic!Put
<1>2. ASSUME NEW t \in Thread, BeginStop(t) PROVE Atomic!Stop
    BY <1>2 DEF BeginStop, Atomic!Stop
<1>3. ASSUME NEW t \in Thread, Lock(t) \/ StopOwn(t) \/ Deactivate(t) \/ BeginEnqueue(t)
      PROVE  UNCHANGED Atomic!qvars
    BY <1>3 DEF Lock, StopOwn, Deactivate, BeginEnqueue
<1>4. ASSUME NEW c \in Consumer,
             Loop(c) \/ Check(c) \/ Sleep(c) \/ RunTask(c) \/ SpuriousWakeup(c)
      PROVE  UNCHANGED Atomic!qvars
    BY <1>4 DEF Loop, Check, Sleep, RunTask, SpuriousWakeup
<1>5. ASSUME NEW c \in Consumer, Pop(c) PROVE [Atomic!Next]_(Atomic!qvars)
    <2>1. task[c] = None
        BY <1>5 DEF Pop, TypeInv, Hands, Busy
    <2>2. CASE queue # <<>>
        <3> Atomic!Take(c)
            BY <1>5, <2>1, <2>2 DEF Pop, Rest, Atomic!Take
        <3> QED BY DEF Atomic!Next
    <2>3. CASE queue = <<>>
        BY <1>5, <2>3 DEF Pop
    <2>4. QED
        BY <2>2, <2>3
<1>6. ASSUME NEW c \in Consumer, DropTask(c) \/ TaskReturns(c) PROVE Atomic!Finish(c)
    BY <1>6 DEF DropTask, TaskReturns, Atomic!Finish, TypeInv, Hands, Busy
\* The consumers have ended, so the service has been stopped.
<1>7. CASE Clear
    <2>1. ~run
        BY <1>7, QueueAssumption DEF Clear, TypeInv, DoneAfterStop
    <2>2. Atomic!Clear
        BY <1>7, <2>1 DEF Clear, Atomic!Clear
    <2>3. QED
        BY <2>2 DEF Atomic!Next
<1>8. CASE UNCHANGED vars
    BY <1>8 DEF vars
<1>9. QED
    BY <1>1, <1>2, <1>3, <1>4, <1>5, <1>6, <1>7, <1>8 DEF Next, Calls, Begin, Consume, Atomic!Next

\* The queue with its mutex and its condition variable implements the queue whose
\* enqueue and dequeue are single steps: the one EpollService is written with.
THEOREM RefinesTaskQueue == Spec => Atomic!Spec
<1>1. Init => Atomic!Init
    BY DEF Init, Atomic!Init
<1>2. QED
    BY <1>1, TypeInit, TypeStep, StepRefines, PTL DEF Spec, Atomic!Spec

-----------------------------------------------------------------------------
(* The order on a strand.                                                   *)

\* Tasks are numbered as they come, so the queue holds the last ones, in order.
QueueNumbered == \A i \in 1..Len(queue) : queue[i] = pushed - Len(queue) + i

\* A lone consumer has run those before, as long as it runs any at all.
Order(c) ==
    /\ QueueNumbered
    /\ \A i \in 1..Len(ran) : ran[i] = i
    /\ InnerRun /\ pc[c] # "done" =>
          pushed - Len(queue) = Len(ran) + (IF pc[c] = "got" THEN 1 ELSE 0)
    /\ InnerRun /\ pc[c] = "got" => task[c] = Len(ran) + 1

OrderInv(c) == TypeInv /\ Order(c)

\* The pushed task is the next number, at the end.
LEMMA PushKeepsOrder ==
    ASSUME TypeInv, QueueNumbered, NEW t \in Thread, Push(t)
    PROVE  QueueNumbered'
<1>1. /\ queue \in Seq(Nat) /\ pushed \in Nat /\ Len(queue) \in Nat
      /\ \A i \in 1..Len(queue) : queue[i] = pushed - Len(queue) + i
    BY LenProperties DEF QueueNumbered, TypeInv, TypeOK
<1>2. queue' = Append(queue, pushed + 1) /\ pushed' = pushed + 1
    BY DEF Push, AtEnd
<1>3. /\ Len(queue') = Len(queue) + 1
      /\ \A i \in 1..Len(queue) : queue'[i] = queue[i]
      /\ queue'[Len(queue) + 1] = pushed + 1
    BY <1>1, <1>2, AppendProperties
<1>4. SUFFICES ASSUME NEW i \in 1..Len(queue')
               PROVE  queue'[i] = pushed' - Len(queue') + i
    BY DEF QueueNumbered
<1>5. CASE i = Len(queue) + 1
    BY <1>1, <1>2, <1>3, <1>5
<1>6. CASE i # Len(queue) + 1
    <2>1. i \in 1..Len(queue)
        BY <1>1, <1>3, <1>6
    <2>2. QED
        BY <1>1, <1>2, <1>3, <2>1
<1>7. QED
    BY <1>5, <1>6

\* The first task is the next one to run.
LEMMA PopKeepsOrder ==
    ASSUME TypeInv, QueueNumbered, NEW c \in Consumer, Pop(c), queue # <<>>
    PROVE  /\ QueueNumbered'
           /\ task'[c] = pushed - Len(queue) + 1
           /\ Len(queue') = Len(queue) - 1
<1>1. /\ queue \in Seq(Nat) /\ pushed \in Nat /\ Len(queue) \in Nat \ {0}
      /\ \A i \in 1..Len(queue) : queue[i] = pushed - Len(queue) + i
      /\ task \in [Consumer -> Nat \cup {None}]
    BY LenProperties, EmptySeq DEF QueueNumbered, TypeInv, TypeOK
<1>2. queue' = Tail(queue) /\ pushed' = pushed /\ task'[c] = Head(queue)
    BY <1>1 DEF Pop, Rest, history
<1>3. /\ Len(queue') = Len(queue) - 1
      /\ \A i \in 1..Len(queue) - 1 : queue'[i] = queue[i + 1]
      /\ Head(queue) = queue[1]
    BY <1>1, <1>2, HeadTailProperties
<1>4. QueueNumbered'
    BY <1>1, <1>2, <1>3 DEF QueueNumbered
<1>5. QED
    BY <1>1, <1>2, <1>3, <1>4

LEMMA OrderStep ==
    ASSUME NEW c \in Consumer, Consumer = {c}
    PROVE  OrderInv(c) /\ [Next]_vars => OrderInv(c)'
<1> SUFFICES ASSUME OrderInv(c), [Next]_vars PROVE Order(c)'
    BY TypeStep DEF OrderInv
<1> USE DEF Order, QueueNumbered, InnerRun, flags, history, Goto
<1>c. /\ c \in Thread /\ pc \in [Thread -> Free \cup Critical] /\ pushed \in Nat
      /\ queue \in Seq(Nat) /\ ran \in Seq(Nat) /\ Len(queue) \in Nat /\ Len(ran) \in Nat
      /\ task \in [Consumer -> Nat \cup {None}] /\ Order(c)
    BY LenProperties DEF Thread, OrderInv, TypeInv, TypeOK
<1>1. ASSUME NEW t \in Thread, Lock(t) PROVE Order(c)'
    BY <1>1, <1>c, LockPlaces DEF Lock
<1>2. ASSUME NEW t \in Thread, Push(t) PROVE Order(c)'
    <2>1. Len(queue') = Len(queue) + 1 /\ pushed' = pushed + 1
        BY <1>2, <1>c, AppendProperties DEF Push, AtEnd
    <2>2. /\ pc'[c] = "got" <=> pc[c] = "got"
          /\ pc'[c] = "done" <=> pc[c] = "done"
          /\ UNCHANGED <<run, ownRun, ran, task>>
        BY <1>2, <1>c DEF Push, Back
    <2>3. QueueNumbered'
        BY <1>2, PushKeepsOrder DEF OrderInv
    <2>4. pushed' - Len(queue') = pushed - Len(queue)
        BY <1>c, <2>1
    <2>5. QED
        BY <1>c, <2>2, <2>3, <2>4
<1>3. ASSUME NEW t \in Thread, StopOwn(t) PROVE Order(c)'
    BY <1>3, <1>c DEF StopOwn
<1>4. ASSUME NEW t \in Thread, Deactivate(t) PROVE Order(c)'
    BY <1>4, <1>c DEF Deactivate, Back
<1>5. ASSUME NEW t \in Thread, Begin(t) PROVE Order(c)'
    BY <1>5, <1>c DEF Begin, BeginEnqueue, BeginStop, MayCall
<1>6. CASE Loop(c) \/ Check(c) \/ Sleep(c) \/ TaskReturns(c) \/ SpuriousWakeup(c)
    BY <1>6, <1>c DEF Loop, Check, Sleep, TaskReturns, SpuriousWakeup
<1>7. CASE Pop(c)
    <2>1. CASE queue # <<>>
        <3>1. /\ pc[c] = "pop" /\ pc'[c] = "got"
              /\ UNCHANGED <<run, ownRun, ran, pushed>>
            BY <1>7, <1>c, <2>1 DEF Pop
        <3>2. /\ QueueNumbered'
              /\ task'[c] = pushed - Len(queue) + 1
              /\ Len(queue') = Len(queue) - 1
            BY <1>7, <2>1, PopKeepsOrder DEF OrderInv
        <3>3. InnerRun => pushed - Len(queue) = Len(ran)
            BY <1>c, <3>1
        <3>4. InnerRun' => pushed' - Len(queue') = Len(ran') + 1 /\ task'[c] = Len(ran') + 1
            <4>1. SUFFICES ASSUME InnerRun'
                  PROVE  pushed' - Len(queue') = Len(ran') + 1 /\ task'[c] = Len(ran') + 1
                OBVIOUS
            <4>2. InnerRun
                BY <3>1, <4>1
            <4>3. pushed - Len(queue) = Len(ran)
                BY <3>3, <4>2
            <4> HIDE DEF InnerRun
            <4>4. pushed - (Len(queue) - 1) = Len(ran) + 1
                BY <1>c, <4>3
            <4>5. QED
                BY <1>c, <3>1, <3>2, <4>3, <4>4
        <3>5. QED
            BY <1>c, <3>1, <3>2, <3>4
    <2>2. CASE queue = <<>>
        BY <1>7, <1>c, <2>2 DEF Pop
    <2>3. QED
        BY <2>1, <2>2
<1>8. CASE RunTask(c)
    <2>1. task[c] = Len(ran) + 1 /\ ran' = Append(ran, Len(ran) + 1)
        BY <1>8, <1>c DEF RunTask
    <2>2. /\ Len(ran') = Len(ran) + 1
          /\ \A i \in 1..Len(ran) : ran'[i] = ran[i]
          /\ ran'[Len(ran) + 1] = Len(ran) + 1
        BY <1>c, <2>1, AppendProperties
    <2>3. \A i \in 1..Len(ran') : ran'[i] = i
        <3>1. TAKE i \in 1..Len(ran')
        <3>2. i \in 1..Len(ran) \/ i = Len(ran) + 1
            BY <1>c, <2>2
        <3>3. QED
            BY <1>c, <2>2, <3>2
    <2>4. QED
        BY <1>8, <1>c, <2>2, <2>3 DEF RunTask
<1>9. CASE DropTask(c)
    BY <1>9, <1>c DEF DropTask
<1>10. CASE Clear
    <2>1. pc[c] = "done" /\ Len(queue') = 0
        BY <1>10, EmptySeq DEF Clear
    <2>2. QED
        BY <1>10, <1>c, <2>1 DEF Clear
<1>11. CASE UNCHANGED vars
    <2>1. UNCHANGED <<queue, run, ownRun, pc, task, pushed, ran>>
        BY <1>11 DEF vars
    <2>2. QED
        BY <1>c, <2>1
<1>12. QED
    BY <1>1, <1>2, <1>3, <1>4, <1>5, <1>6, <1>7, <1>8, <1>9, <1>10, <1>11
    DEF Next, Calls, Consume

\* A strand, one thread on its queue, runs the completions in the order in which
\* they were enqueued and leaves none out, for any number of callers.
THEOREM StrandRunsInOrder == Spec => []InOrder
<1>1. ASSUME NEW c \in Consumer, Consumer = {c}
      PROVE  Spec => [](\A i \in DOMAIN ran : ran[i] = i)
    <2>1. Init => OrderInv(c)
        <3>1. SUFFICES ASSUME Init PROVE Order(c)
            BY TypeInit DEF OrderInv
        <3>2. pc[c] = "loop" /\ Len(queue) = 0 /\ Len(ran) = 0 /\ pushed = 0
            BY <3>1, EmptySeq DEF Init, Thread
        <3>3. QED
            BY <3>2 DEF Order, QueueNumbered
    <2>2. OrderInv(c) => \A i \in DOMAIN ran : ran[i] = i
        BY LenProperties DEF OrderInv, Order, TypeInv, TypeOK
    <2>3. OrderInv(c) /\ [Next]_vars => OrderInv(c)'
        BY <1>1, OrderStep
    <2>4. QED
        BY <2>1, <2>2, <2>3, PTL DEF Spec
<1>2. CASE \E c \in Consumer : Consumer = {c}
    <2>1. PICK c \in Consumer : Consumer = {c}
        BY <1>2
    <2>2. (\A i \in DOMAIN ran : ran[i] = i) => InOrder
        BY DEF InOrder
    <2>3. QED
        BY <1>1, <2>1, <2>2, PTL
<1>3. CASE ~ \E c \in Consumer : Consumer = {c}
    <2>1. InOrder
        BY <1>3 DEF InOrder
    <2>2. QED
        BY <2>1, PTL
<1>4. QED
    BY <1>2, <1>3
-----------------------------------------------------------------------------
(* Each task in one place.                                                  *)

Holding == {c \in Consumer : pc[c] = "got"}
Taken == {task[c] : c \in Holding}
Done == {ran[i] : i \in DOMAIN ran}
Gone == pushed - Len(queue)      \* the tasks that have left the queue

\* No two consumers hold the same task, and none holds one that was dropped.
HeldOnce ==
    \A c \in Holding : task[c] \notin dropped /\ \A d \in Holding : task[d] = task[c] => d = c

\* The tasks before those in the queue are held, run or dropped, and there are as
\* many of these as have left.
OnceInv ==
    /\ TypeInv /\ QueueNumbered /\ HeldOnce
    /\ Taken \cup Done \cup dropped = 1..Gone
    /\ IsFiniteSet(Holding) /\ IsFiniteSet(dropped)
    /\ Cardinality(Holding) + Len(ran) + Cardinality(dropped) = Gone

OnceTypes ==
    /\ Consumer \subseteq Thread /\ Consumer \cap Program = {}
    /\ pc \in [Thread -> Free \cup Critical]
    /\ task \in [Consumer -> Nat \cup {None}]
    /\ pushed \in Nat /\ dropped \subseteq Nat
    /\ queue \in Seq(Nat) /\ Len(queue) \in Nat /\ DOMAIN queue = 1..Len(queue)
    /\ ran \in Seq(Nat) /\ Len(ran) \in Nat /\ DOMAIN ran = 1..Len(ran)
    /\ Cardinality(Holding) \in Nat /\ Cardinality(dropped) \in Nat
    /\ Gone \in Nat

LEMMA OnceTyped == OnceInv => OnceTypes
<1> SUFFICES ASSUME OnceInv PROVE OnceTypes
    OBVIOUS
<1>1. Len(queue) \in Nat /\ Len(ran) \in Nat
    BY LenProperties DEF OnceInv, TypeInv, TypeOK
<1>2. Cardinality(Holding) \in Nat /\ Cardinality(dropped) \in Nat
    BY FS_CardinalityType DEF OnceInv
<1>3. Gone \in Nat
    BY <1>1, <1>2 DEF OnceInv
<1>4. QED
    BY <1>1, <1>2, <1>3, QueueAssumption, LenProperties
    DEF OnceInv, OnceTypes, Thread, TypeInv, TypeOK

\* Whatever keeps the consumers that hold a task, and what they hold, changes nothing.
LEMMA OnceKept ==
    ASSUME OnceInv, TypeInv', QueueNumbered', Gone' = Gone, UNCHANGED <<ran, dropped>>,
           Holding' = Holding, \A c \in Holding : task'[c] = task[c]
    PROVE  OnceInv'
<1>1. HeldOnce' /\ Taken' = Taken /\ Done' = Done
    BY DEF OnceInv, HeldOnce, Taken, Done
<1>2. QED
    BY <1>1 DEF OnceInv

LEMMA PushKeepsOnce == ASSUME OnceInv, TypeInv', NEW t \in Thread, Push(t) PROVE OnceInv'
<1>1. OnceTypes
    BY OnceTyped
<1>2. QueueNumbered'
    BY PushKeepsOrder DEF OnceInv
<1>3. Len(queue') = Len(queue) + 1 /\ pushed' = pushed + 1
    BY <1>1, AppendProperties DEF Push, AtEnd, OnceTypes
<1>4. Gone' = Gone
    BY <1>1, <1>3 DEF Gone, OnceTypes
<1>5. Holding' = Holding
    BY <1>1 DEF Holding, OnceTypes, Push, Goto, Back
<1>6. QED
    BY <1>2, <1>4, <1>5, OnceKept DEF Push

\* The task that is taken is the next one: nobody holds it yet.
LEMMA PopKeepsOnce ==
    ASSUME OnceInv, TypeInv', NEW c \in Consumer, Pop(c), queue # <<>>
    PROVE  OnceInv'
<1>1. OnceTypes
    BY OnceTyped
<1>2. /\ QueueNumbered' /\ task'[c] = Gone + 1
      /\ Len(queue') = Len(queue) - 1 /\ pushed' = pushed
    BY PopKeepsOrder DEF OnceInv, Gone, Pop, history
<1>3. Gone' = Gone + 1
    BY <1>1, <1>2 DEF Gone, OnceTypes
<1>4. /\ c \notin Holding /\ Holding' = Holding \cup {c}
      /\ \A d \in Holding : task'[d] = task[d]
      /\ UNCHANGED <<ran, dropped>>
    BY <1>1 DEF Pop, Holding, Goto, OnceTypes, history
<1>5. Taken' = Taken \cup {Gone + 1}
    BY <1>2, <1>4 DEF Taken
<1>6. Taken' \cup Done' \cup dropped' = 1..Gone'
    <2>1. Taken \cup Done \cup dropped = 1..Gone /\ Done' = Done
        BY <1>4 DEF OnceInv, Done
    <2>2. 1..(Gone + 1) = 1..Gone \cup {Gone + 1}
        BY <1>1 DEF OnceTypes
    <2>3. QED
        BY <1>3, <1>4, <1>5, <2>1, <2>2
<1>7. Gone + 1 \notin Taken /\ Gone + 1 \notin dropped
    BY <1>1 DEF OnceInv, OnceTypes
<1>8. HeldOnce'
    BY <1>2, <1>4, <1>7 DEF OnceInv, HeldOnce, Taken
<1>9. /\ IsFiniteSet(Holding') /\ IsFiniteSet(dropped')
      /\ Cardinality(Holding') = Cardinality(Holding) + 1
    BY <1>4, FS_AddElement DEF OnceInv
<1>10. Cardinality(Holding') + Len(ran') + Cardinality(dropped') = Gone'
    <2>1. Cardinality(Holding) + Len(ran) + Cardinality(dropped) = Gone
        BY DEF OnceInv
    <2>2. Len(ran') = Len(ran) /\ Cardinality(dropped') = Cardinality(dropped)
        BY <1>4
    <2>3. QED
        BY <1>1, <1>3, <1>9, <2>1, <2>2 DEF OnceTypes
<1>11. QED
    BY <1>2, <1>6, <1>8, <1>9, <1>10 DEF OnceInv

\* What a consumer has taken it runs or drops; either way it is counted there.
LEMMA LeavesHand ==
    ASSUME OnceInv, NEW c \in Holding, Holding' = Holding \ {c},
           \A d \in Holding' : task'[d] = task[d]
    PROVE  /\ Taken = Taken' \cup {task[c]} /\ task[c] \notin Taken'
           /\ IsFiniteSet(Holding') /\ Cardinality(Holding') = Cardinality(Holding) - 1
<1>1. Taken = Taken' \cup {task[c]}
    BY DEF Taken
<1>2. task[c] \notin Taken'
    BY DEF Taken, OnceInv, HeldOnce
<1>3. IsFiniteSet(Holding') /\ Cardinality(Holding') = Cardinality(Holding) - 1
    BY FS_RemoveElement DEF OnceInv
<1>4. QED
    BY <1>1, <1>2, <1>3

LEMMA RunKeepsOnce == ASSUME OnceInv, TypeInv', NEW c \in Consumer, RunTask(c) PROVE OnceInv'
<1>1. OnceTypes
    BY OnceTyped
<1>2. /\ c \in Holding /\ Holding' = Holding \ {c} /\ ran' = Append(ran, task[c])
      /\ UNCHANGED <<queue, pushed, task, dropped>>
    BY <1>1 DEF RunTask, Holding, Goto, OnceTypes
<1>3. task[c] \in Nat
    BY <1>1, <1>2 DEF OnceInv, OnceTypes, Taken
<1>4. /\ Len(ran') = Len(ran) + 1 /\ DOMAIN ran' = 1..(Len(ran) + 1)
      /\ \A i \in 1..Len(ran) : ran'[i] = ran[i]
      /\ ran'[Len(ran) + 1] = task[c]
    BY <1>1, <1>2, <1>3, AppendProperties, LenProperties DEF OnceTypes
<1>5. Done' = Done \cup {task[c]}
    <2>1. Len(ran) \in Nat /\ DOMAIN ran = 1..Len(ran)
        BY <1>1 DEF OnceTypes
    <2>2. 1..(Len(ran) + 1) = 1..Len(ran) \cup {Len(ran) + 1}
        BY <2>1
    <2>3. DOMAIN ran' = DOMAIN ran \cup {Len(ran) + 1}
        BY <1>4, <2>1, <2>2
    <2>4. QED
        BY <1>4, <2>1, <2>3 DEF Done
<1>6. /\ Taken = Taken' \cup {task[c]} /\ IsFiniteSet(Holding')
      /\ Cardinality(Holding') = Cardinality(Holding) - 1
    BY <1>2, LeavesHand
<1>7. Gone' = Gone /\ QueueNumbered'
    BY <1>2 DEF Gone, OnceInv, QueueNumbered
<1>8. Taken' \cup Done' \cup dropped' = 1..Gone'
    BY <1>2, <1>5, <1>6, <1>7 DEF OnceInv
<1>9. HeldOnce'
    BY <1>2 DEF OnceInv, HeldOnce
<1>10. Cardinality(Holding') + Len(ran') + Cardinality(dropped') = Gone'
    BY <1>1, <1>2, <1>4, <1>6, <1>7 DEF OnceInv, OnceTypes
<1>11. QED
    BY <1>2, <1>6, <1>7, <1>8, <1>9, <1>10 DEF OnceInv

LEMMA DropKeepsOnce == ASSUME OnceInv, TypeInv', NEW c \in Consumer, DropTask(c) PROVE OnceInv'
<1>1. OnceTypes
    BY OnceTyped
<1>2. /\ c \in Holding /\ Holding' = Holding \ {c} /\ dropped' = dropped \cup {task[c]}
      /\ \A d \in Holding' : task'[d] = task[d]
      /\ UNCHANGED <<queue, pushed, ran>>
    BY <1>1 DEF DropTask, Holding, Goto, OnceTypes
<1>3. /\ Taken = Taken' \cup {task[c]} /\ task[c] \notin Taken' /\ IsFiniteSet(Holding')
      /\ Cardinality(Holding') = Cardinality(Holding) - 1
    BY <1>2, LeavesHand
<1>4. IsFiniteSet(dropped') /\ Cardinality(dropped') = Cardinality(dropped) + 1
    BY <1>2, FS_AddElement DEF OnceInv, HeldOnce
<1>5. Gone' = Gone /\ QueueNumbered' /\ Done' = Done
    BY <1>2 DEF Gone, OnceInv, QueueNumbered, Done
<1>6. Taken' \cup Done' \cup dropped' = 1..Gone'
    BY <1>2, <1>3, <1>5 DEF OnceInv
<1>7. HeldOnce'
    BY <1>2 DEF OnceInv, HeldOnce
<1>8. Cardinality(Holding') + Len(ran') + Cardinality(dropped') = Gone'
    BY <1>1, <1>2, <1>3, <1>4, <1>5 DEF OnceInv, OnceTypes
<1>9. QED
    BY <1>3, <1>4, <1>5, <1>6, <1>7, <1>8 DEF OnceInv

\* The tasks of the queue are those that have not left it.
LEMMA Waiting == OnceInv => {queue[i] : i \in DOMAIN queue} = (Gone + 1)..pushed
<1> SUFFICES ASSUME OnceInv PROVE {queue[i] : i \in DOMAIN queue} = (Gone + 1)..pushed
    OBVIOUS
<1>1. OnceTypes
    BY OnceTyped
<1>2. \A i \in 1..Len(queue) : queue[i] \in (Gone + 1)..pushed
    BY <1>1 DEF OnceInv, QueueNumbered, OnceTypes, Gone
<1>3. ASSUME NEW n \in (Gone + 1)..pushed PROVE n - Gone \in 1..Len(queue) /\ queue[n - Gone] = n
    BY <1>1 DEF OnceInv, QueueNumbered, OnceTypes, Gone
<1>4. QED
    BY <1>1, <1>2, <1>3 DEF OnceTypes

LEMMA ClearKeepsOnce == ASSUME OnceInv, TypeInv', Clear PROVE OnceInv'
<1>1. OnceTypes
    BY OnceTyped
<1>2. /\ Holding = {} /\ Holding' = {} /\ UNCHANGED <<pc, task, ran, pushed>>
      /\ queue' = <<>> /\ dropped' = dropped \cup (Gone + 1)..pushed
    BY Waiting DEF Clear, Holding
<1>3. Len(queue') = 0 /\ Gone' = pushed /\ QueueNumbered'
    BY <1>1, <1>2, EmptySeq DEF Gone, QueueNumbered, OnceTypes
<1>4. Done' = Done /\ Taken' = {} /\ Taken = {} /\ HeldOnce'
    BY <1>2 DEF Done, Taken, HeldOnce
<1>5. dropped \cap (Gone + 1)..pushed = {}
    BY <1>1 DEF OnceInv, OnceTypes
<1>6. /\ IsFiniteSet((Gone + 1)..pushed)
      /\ Cardinality((Gone + 1)..pushed) = pushed - Gone
    <2>1. (IF Gone + 1 > pushed THEN 0 ELSE pushed - (Gone + 1) + 1) = pushed - Gone
        BY <1>1 DEF OnceTypes, Gone
    <2>2. Gone + 1 \in Int /\ pushed \in Int
        BY <1>1 DEF OnceTypes
    <2>3. QED
        BY <2>1, <2>2, FS_Interval
<1>7. /\ IsFiniteSet(dropped')
      /\ Cardinality(dropped') = Cardinality(dropped) + (pushed - Gone) - 0
    <2>1. IsFiniteSet(dropped) /\ Cardinality({}) = 0
        BY FS_EmptySet DEF OnceInv
    <2>2. /\ IsFiniteSet(dropped \cup (Gone + 1)..pushed)
          /\ Cardinality(dropped \cup (Gone + 1)..pushed)
                = Cardinality(dropped) + Cardinality((Gone + 1)..pushed) - Cardinality({})
        <3>1. /\ IsFiniteSet(dropped \cup (Gone + 1)..pushed)
              /\ Cardinality(dropped \cup (Gone + 1)..pushed)
                    = Cardinality(dropped) + Cardinality((Gone + 1)..pushed)
                         - Cardinality(dropped \cap (Gone + 1)..pushed)
            BY <1>6, <2>1, FS_Union
        <3>2. QED
            BY <1>5, <3>1
    <2>3. QED
        BY <1>2, <1>6, <2>1, <2>2
<1>8. Cardinality(Holding') + Len(ran') + Cardinality(dropped') = Gone'
    BY <1>1, <1>2, <1>3, <1>7 DEF OnceInv, OnceTypes
<1>9. Taken' \cup Done' \cup dropped' = 1..Gone'
    BY <1>1, <1>2, <1>3, <1>4 DEF OnceInv, OnceTypes, Gone
<1>10. IsFiniteSet(Holding')
    BY <1>2, FS_EmptySet
<1>11. QED
    BY <1>3, <1>4, <1>7, <1>8, <1>9, <1>10 DEF OnceInv

LEMMA OnceStep == OnceInv /\ [Next]_vars => OnceInv'
<1> SUFFICES ASSUME OnceInv, [Next]_vars PROVE OnceInv'
    OBVIOUS
<1>1. OnceTypes /\ TypeInv'
    BY OnceTyped, TypeStep DEF OnceInv
<1>2. ASSUME UNCHANGED <<queue, pushed, ran, dropped>>, Holding' = Holding,
             \A c \in Holding : task'[c] = task[c]
      PROVE  OnceInv'
    <2>1. Gone' = Gone /\ QueueNumbered'
        BY <1>2 DEF Gone, OnceInv, QueueNumbered
    <2>2. QED
        BY <1>1, <1>2, <2>1, OnceKept
<1> USE DEF Holding, Goto, OnceTypes, flags, history
<1>3. ASSUME NEW t \in Thread, Lock(t) \/ StopOwn(t) \/ Deactivate(t) \/ Begin(t)
      PROVE  OnceInv'
    <2>1. CASE Lock(t)
        BY <1>1, <1>2, <2>1, LockPlaces DEF Lock
    <2>2. CASE StopOwn(t) \/ Deactivate(t)
        BY <1>1, <1>2, <2>2 DEF StopOwn, Deactivate, Back
    <2>3. CASE Begin(t)
        BY <1>1, <1>2, <2>3 DEF Begin, BeginEnqueue, BeginStop, MayCall
    <2>4. QED
        BY <1>3, <2>1, <2>2, <2>3
<1>4. ASSUME NEW c \in Consumer,
             Loop(c) \/ Check(c) \/ Sleep(c) \/ TaskReturns(c) \/ SpuriousWakeup(c)
      PROVE  OnceInv'
    BY <1>1, <1>2, <1>4 DEF Loop, Check, Sleep, TaskReturns, SpuriousWakeup
<1>5. ASSUME NEW c \in Consumer, Pop(c) PROVE OnceInv'
    <2>1. CASE queue = <<>>
        BY <1>1, <1>2, <1>5, <2>1 DEF Pop
    <2>2. QED
        BY <1>1, <1>5, <2>1, PopKeepsOnce
<1>6. CASE UNCHANGED vars
    BY <1>2, <1>6 DEF vars
<1>7. QED
    BY <1>1, <1>3, <1>4, <1>5, <1>6, PushKeepsOnce, RunKeepsOnce, DropKeepsOnce, ClearKeepsOnce
    DEF Next, Calls, Consume

\* Every task enqueued is waiting, taken, run or dropped, and in one of these places
\* once, for any number of threads and also through stop and clear.
THEOREM TasksCounted == Spec => []EachTaskOnce
<1>1. Init => OnceInv
    <2>1. SUFFICES ASSUME Init PROVE OnceInv
        OBVIOUS
    <2>2. Len(queue) = 0 /\ Len(ran) = 0 /\ DOMAIN ran = {} /\ Gone = 0 /\ Holding = {}
        <3>1. Len(<<>>) = 0 /\ DOMAIN <<>> = {}
            BY EmptySeq
        <3>2. Holding = {}
            BY <2>1 DEF Init, Holding, Thread
        <3>3. queue = <<>> /\ ran = <<>> /\ pushed = 0
            BY <2>1 DEF Init
        <3>4. QED
            <4>1. pushed = 0 /\ Len(queue) = 0 /\ Len(ran) = 0 /\ DOMAIN ran = {}
                BY <3>1, <3>3
            <4>2. Gone = 0
                BY <4>1 DEF Gone
            <4>3. QED
                BY <3>2, <4>1, <4>2
    <2>3. TypeInv /\ QueueNumbered /\ HeldOnce
        BY <2>1, <2>2, TypeInit DEF QueueNumbered, HeldOnce
    <2>4. Taken \cup Done \cup dropped = 1..Gone
        BY <2>1, <2>2 DEF Init, Taken, Done
    <2>5. QED
        BY <2>1, <2>2, <2>3, <2>4, FS_EmptySet DEF OnceInv, Init
<1>2. OnceInv => EachTaskOnce
    <2>1. SUFFICES ASSUME OnceInv PROVE EachTaskOnce
        OBVIOUS
    <2>2. OnceTypes /\ {queue[i] : i \in DOMAIN queue} = (Gone + 1)..pushed
        BY <2>1, OnceTyped, Waiting
    <2>3. 1..Gone \cup (Gone + 1)..pushed = 1..pushed
        BY <2>2 DEF OnceTypes, Gone
    <2>4. Len(queue) + Cardinality(Holding) + Len(ran) + Cardinality(dropped) = pushed
        <3>1. Cardinality(Holding) + Len(ran) + Cardinality(dropped) = pushed - Len(queue)
            BY <2>1 DEF OnceInv, Gone
        <3>2. /\ pushed \in Nat /\ Len(queue) \in Nat /\ Len(ran) \in Nat
              /\ Cardinality(Holding) \in Nat /\ Cardinality(dropped) \in Nat
            BY <2>2 DEF OnceTypes
        <3>3. QED
            BY <3>1, <3>2
    <2>5. {queue[i] : i \in DOMAIN queue} \cup Taken \cup Done \cup dropped = 1..pushed
        BY <2>1, <2>2, <2>3 DEF OnceInv
    <2>6. QED
        BY <2>4, <2>5 DEF EachTaskOnce, Holding, Taken, Done
<1>3. QED
    BY <1>1, <1>2, OnceStep, PTL DEF Spec
=============================================================================
