----------------------- MODULE CancellableTaskProofs -----------------------
(***************************************************************************)
(* Proof that the destructor of a cancellable_task is final: the mutex of   *)
(* the shared state is held by the thread that runs a body or by the one    *)
(* that has taken the state out of scope, and each of them keeps it alive.  *)
(***************************************************************************)
EXTENDS CancellableTask, BlockingQueueProofs

\* Where a consumer is while it runs a task.
InTask == {"task", "enqueue", "push", "stopOwn", "stop", "deactivate"}

Places == {"outside", "begin", "lock", "body", "unlock", "unpin"}

CTyped ==
    /\ inScope \in BOOLEAN /\ owned \in BOOLEAN
    /\ scopeMutex \in Thread \cup {None} /\ canceller \in Thread \cup {None}
    /\ place \in [Consumer -> Places]

\* A consumer is in the lambda of a task only while it runs that task, and the
\* destructor is called by a task that runs.
InLambda ==
    /\ \A c \in Consumer : place[c] # "outside" => pc[c] \in InTask /\ task[c] \in wrapped
    /\ canceller \in Consumer =>
          pc[canceller] \in InTask /\ place[canceller] \in {"outside", "body"}

\* Who holds the mutex of the shared state.
ScopeHeld ==
    /\ \A c \in Consumer : place[c] \in {"body", "unlock"} => scopeMutex = c
    /\ scopeMutex # None => \/ scopeMutex = canceller /\ ~inScope
                            \/ scopeMutex \in Consumer /\ place[scopeMutex] \in {"body", "unlock"}
    /\ \A c \in Consumer : place[c] = "body" => inScope

\* What keeps it alive.
KeptAlive ==
    /\ \A c \in Consumer : place[c] \in {"lock", "body", "unlock", "unpin"} => c \in pinned
    /\ canceller # None => owned
    /\ ~owned => ~inScope

NeverIdle == \A c \in Consumer : pc[c] # "idle"
QueueInv == TypeInv /\ NeverIdle

CInv == QueueInv /\ CTyped /\ InLambda /\ ScopeHeld /\ KeptAlive

LEMMA CInit_CInv == CInit => CInv
<1> SUFFICES ASSUME CInit PROVE CInv
    OBVIOUS
<1>1. QueueInv
    BY TypeInit DEF CInit, Init, QueueInv, NeverIdle, Thread
<1>2. None \notin Consumer
    BY QueueAssumption DEF Thread
<1> QED
    BY <1>1, <1>2 DEF CInit, CInv, CTyped, InLambda, ScopeHeld, KeptAlive, Places

\* The queue is that of BlockingQueue: a step is one of its steps, or leaves it alone.
LEMMA StepOfQueue == CNext => [Next]_vars
    BY DEF CNext, Call, Lambda, Queue, Enqueue, Pushes, Destroy, LockToCancel, Destroyed, Runs, Pin,
           Body, BodyReturns, Unlock, Unpin, Returns, Next, Calls, Begin, Consume

LEMMA QueueInvStep == QueueInv /\ [Next]_vars => QueueInv'
<1> SUFFICES ASSUME QueueInv, [Next]_vars PROVE NeverIdle'
    BY TypeStep DEF QueueInv
<1>1. pc \in [Thread -> Free \cup Critical] /\ \A c \in Consumer : c \in Thread
    BY DEF QueueInv, TypeInv, TypeOK, Thread
<1> USE DEF QueueInv, NeverIdle, Goto, Back
<1>2. ASSUME NEW t \in Thread, Lock(t) PROVE NeverIdle'
  <2>1. Locking[pc[t]] # "idle"
    BY <1>2, LockPlaces DEF Lock
  <2> QED
    BY <1>1, <1>2, <2>1 DEF Lock
<1>3. ASSUME NEW t \in Thread, Calls(t) \/ Begin(t) PROVE NeverIdle'
    BY <1>1, <1>3 DEF Calls, Begin, Push, StopOwn, Deactivate, BeginEnqueue, BeginStop
<1>4. ASSUME NEW c \in Consumer, Consume(c) \/ SpuriousWakeup(c) PROVE NeverIdle'
    BY <1>1, <1>4
       DEF Consume, SpuriousWakeup, Loop, Check, Sleep, Pop, RunTask, DropTask, TaskReturns
<1>5. CASE Clear \/ UNCHANGED vars
    BY <1>5 DEF Clear, vars
<1> QED
    BY <1>2, <1>3, <1>4, <1>5 DEF Next

\* A step of the queue that the lambda has no part in.
LEMMA QueueStep ==
    ASSUME CInv, QueueInv', UNCHANGED cvars,
           \A c \in Consumer : pc[c] \in InTask /\ (place[c] # "outside" \/ c = canceller) =>
                                  pc'[c] \in InTask /\ task'[c] = task[c]
    PROVE  CInv'
    BY DEF CInv, CTyped, InLambda, ScopeHeld, KeptAlive, cvars

\* A step of the lambda or of the destructor that the queue has no part in.
LEMMA ScopeStep ==
    ASSUME CInv, UNCHANGED <<vars, wrapped>>, CTyped', ScopeHeld', KeptAlive',
           \A c \in Consumer : place'[c] # "outside" => pc[c] \in InTask /\ task[c] \in wrapped,
           canceller' \in Consumer =>
               pc[canceller'] \in InTask /\ place'[canceller'] \in {"outside", "body"}
    PROVE  CInv'
<1>1. QueueInv'
    BY QueueInvStep DEF CInv
<1> QED
    BY <1>1 DEF CInv, InLambda, vars

LEMMA CallsStep ==
    ASSUME CInv, QueueInv',
           \E t \in Thread : \/ Lock(t) /\ UNCHANGED cvars
                             \/ Acts(t) /\ BeginStop(t) /\ UNCHANGED cvars
                             \/ Call(t) \/ Enqueue(t) \/ Destroy(t)
    PROVE  CInv'
<1> USE DEF Goto, InTask, MayCall, Back
<1>1. pc \in [Thread -> Free \cup Critical]
    BY DEF CInv, QueueInv, TypeInv, TypeOK
<1>2. PICK t \in Thread : \/ Lock(t) /\ UNCHANGED cvars
                          \/ Acts(t) /\ BeginStop(t) /\ UNCHANGED cvars
                          \/ Call(t) \/ Enqueue(t) \/ Destroy(t)
    OBVIOUS
<1>3. CASE Lock(t) /\ UNCHANGED cvars
  <2>1. pc[t] \in InTask => pc'[t] \in InTask
    BY <1>1, <1>3, LockPlaces DEF Lock
  <2> QED
    BY <1>1, <1>3, <2>1, QueueStep DEF Lock, Thread
<1>4. CASE Acts(t) /\ BeginStop(t) /\ UNCHANGED cvars
    BY <1>1, <1>4, QueueStep DEF BeginStop, Thread
<1>5. CASE (StopOwn(t) \/ Deactivate(t)) /\ UNCHANGED cvars
    BY <1>1, <1>5, QueueStep DEF StopOwn, Deactivate, Thread
<1>6. CASE Enqueue(t)
    BY <1>1, <1>6
       DEF Enqueue, BeginEnqueue, CInv, CTyped, InLambda, ScopeHeld, KeptAlive, Thread
<1>7. CASE Pushes(t)
    BY <1>1, <1>7, QueueAssumption
       DEF Pushes, Push, CInv, CTyped, InLambda, ScopeHeld, KeptAlive, Thread
<1>8. CASE Destroy(t)
  <2>1. t \in Consumer => pc[t] = "task" /\ place[t] \in {"outside", "body"}
    BY <1>8, QueueAssumption DEF Destroy, Acts, CInv, InLambda, CTyped, QueueInv, NeverIdle
  <2> QED
    BY <1>8, <2>1, ScopeStep, QueueAssumption
       DEF Destroy, CInv, CTyped, InLambda, ScopeHeld, KeptAlive
<1> QED
    BY <1>2, <1>3, <1>4, <1>5, <1>6, <1>7, <1>8 DEF Call

LEMMA CancelStep ==
    ASSUME CInv, LockToCancel \/ Destroyed
    PROVE  CInv'
<1>1. None \notin Thread
    BY QueueAssumption
<1>2. CASE LockToCancel
    BY <1>1, <1>2, ScopeStep
       DEF LockToCancel, Locks, CInv, CTyped, InLambda, ScopeHeld, KeptAlive, Thread
<1>3. CASE Destroyed
    BY <1>1, <1>3, ScopeStep
       DEF Destroyed, CInv, CTyped, InLambda, ScopeHeld, KeptAlive, Thread
<1> QED
    BY <1>2, <1>3

LEMMA ConsumerStep ==
    ASSUME CInv, QueueInv', NEW c \in Consumer,
           \/ Lambda(c) \/ Body(c) \/ Queue(c)
           \/ SpuriousWakeup(c) /\ UNCHANGED cvars
    PROVE  CInv'
<1>1. pc \in [Thread -> Free \cup Critical] /\ c \in Thread /\ None \notin Thread
    BY QueueAssumption DEF CInv, QueueInv, TypeInv, TypeOK, Thread
<1>2. CASE Queue(c)
    BY <1>1, <1>2, QueueStep
       DEF Queue, Loop, Check, Sleep, Pop, DropTask, Goto, InTask, Thread, CInv, QueueInv,
           TypeInv, TypeOK
<1>3. CASE SpuriousWakeup(c) /\ UNCHANGED cvars
    BY <1>3, QueueStep DEF SpuriousWakeup
<1>4. CASE Runs(c)
    BY <1>1, <1>4
       DEF Runs, RunTask, Goto, InTask, Thread, CInv, CTyped, InLambda, ScopeHeld, KeptAlive, Places
<1>5. CASE Returns(c)
    BY <1>1, <1>5, QueueStep
       DEF Returns, TaskReturns, Goto, InTask, Thread, CInv, QueueInv, TypeInv, TypeOK
<1> USE DEF Move, CInv, CTyped, InLambda, ScopeHeld, KeptAlive, Places
<1>6. CASE Pin(c)
    BY <1>1, <1>6, ScopeStep DEF Pin
<1>7. CASE Body(c)
  <2>1. \A d \in Consumer : place[d] \notin {"body", "unlock"}
    BY <1>1, <1>7 DEF Body, Thread
  <2>2. /\ place[c] = "lock" /\ scopeMutex' = c /\ place' = [place EXCEPT ![c] = place'[c]]
        /\ place'[c] \in {"body", "unlock"} /\ (place'[c] = "body" => inScope)
    BY <1>7 DEF Body, InScope
  <2>3. /\ UNCHANGED <<vars, wrapped, inScope, owned, pinned, canceller>>
        /\ canceller \in Consumer => canceller # c
    BY <1>7, <2>2 DEF Body
  <2>4. CTyped' /\ ScopeHeld' /\ KeptAlive'
    BY <1>1, <2>1, <2>2, <2>3
  <2> QED
    BY <2>2, <2>3, <2>4, ScopeStep
<1>8. CASE BodyReturns(c)
    BY <1>1, <1>8, ScopeStep DEF BodyReturns
<1>9. CASE Unlock(c)
    BY <1>1, <1>9, ScopeStep DEF Unlock, FreedBy
<1>10. CASE Unpin(c)
    BY <1>1, <1>10, ScopeStep DEF Unpin
<1> QED
    BY <1>2, <1>3, <1>4, <1>5, <1>6, <1>7, <1>8, <1>9, <1>10 DEF Lambda

LEMMA CStep == CInv /\ [CNext]_allVars => CInv'
<1> SUFFICES ASSUME CInv, [CNext]_allVars PROVE CInv'
    OBVIOUS
<1>1. QueueInv'
    BY StepOfQueue, QueueInvStep DEF CInv, allVars
<1>2. CASE Clear /\ UNCHANGED cvars
    BY <1>1, <1>2, QueueStep DEF Clear
<1>3. CASE UNCHANGED allVars
    BY <1>1, <1>3, QueueStep DEF allVars, vars
<1> QED
    BY <1>1, <1>2, <1>3, CallsStep, CancelStep, ConsumerStep DEF CNext

\* Once the destructor has returned, no body runs and none begins, and the mutex of
\* the shared state is never destroyed while it is held.
THEOREM CancelFinal == CSpec => []CancelIsFinal
<1>1. CInv => CancelIsFinal
    BY DEF CInv, ScopeHeld, KeptAlive, CancelIsFinal, Exists
<1> QED
    BY <1>1, CInit_CInv, CStep, PTL DEF CSpec

\* The queue under the wrapped tasks is the one of BlockingQueue: what is proved of
\* that one holds of it, the order of the tasks and that no wakeup is lost.
THEOREM WrappedKeepsQueue == CSpec => Spec
<1>1. CInit => Init
    BY DEF CInit
<1>2. [CNext]_allVars => [Next]_vars
    BY StepOfQueue DEF allVars
<1> QED
    BY <1>1, <1>2, PTL DEF CSpec, Spec

\* Completions run in order, wrapped or not.
THEOREM WrappedInOrder == CSpec => []InOrder
    BY WrappedKeepsQueue, StrandRunsInOrder, PTL
=============================================================================
