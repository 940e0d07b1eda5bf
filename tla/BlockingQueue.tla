---------------------------- MODULE BlockingQueue ----------------------------
(***************************************************************************)
(* blocking_queue and the loops of the threads that live on one: the        *)
(* reactor task threads on the task queue, a strand on its completion       *)
(* queue.  Locks are taken and released step by step; a thread sleeps in    *)
(* the condition variable and wakes when notified or for no reason.  Any    *)
(* thread, a task among them, enqueues and stops the service.               *)
(***************************************************************************)
EXTENDS Naturals, Sequences, FiniteSets

CONSTANTS
    Consumer,     \* the threads that run process_reactor_queue or strand::run
    Program,      \* other threads that enqueue and stop
    None,         \* no thread, no task
    OwnRun,       \* is the inner loop ended by a flag of its own, as a strand's?
    MaxTasks      \* bound: tasks enqueued

Thread == Consumer \cup Program

ASSUME QueueAssumption ==
    /\ Consumer # {} /\ Consumer \cap Program = {}
    /\ None \notin Thread \cup Nat
    /\ OwnRun \in BOOLEAN
    /\ MaxTasks \in Nat

VARIABLES
    queue,      \* blocking_queue::_queue; a task is the number it came as
    active,     \* blocking_queue::_active
    mutex,      \* the thread that holds blocking_queue::_mutex
    sleeping,   \* the threads blocked in _signaller.wait
    run,        \* epoll_service::_run
    ownRun,     \* completion_strand_impl::_run
    pc,         \* where each thread is
    task,       \* the task a consumer has dequeued
    pushed,     \* history: number of tasks enqueued
    ran,        \* history: tasks that were run, in that order
    dropped     \* history: tasks dequeued or cleared without being run

flags == <<active, run, ownRun>>
history == <<pushed, ran, dropped>>
vars == <<queue, flags, mutex, sleeping, pc, task, history>>

Init ==
    /\ queue = <<>>
    /\ active = TRUE
    /\ mutex = None
    /\ sleeping = {}
    /\ run = TRUE
    /\ ownRun = TRUE
    /\ pc = [t \in Thread |-> IF t \in Consumer THEN "loop" ELSE "idle"]
    /\ task = [c \in Consumer |-> None]
    /\ pushed = 0
    /\ ran = <<>>
    /\ dropped = {}

Goto(t, place) == pc' = [pc EXCEPT ![t] = place]

-----------------------------------------------------------------------------
(* The mutex and the condition variable.                                    *)

\* The places that wait for the mutex, and where each one goes on.
Locking == [enqueue |-> "push", wait |-> "check", asleep |-> "check",
            dequeue |-> "pop", stop |-> "deactivate"]

Lock(t) ==
    /\ pc[t] \in DOMAIN Locking /\ t \notin sleeping /\ mutex = None
    /\ mutex' = t
    /\ Goto(t, Locking[pc[t]])
    /\ UNCHANGED <<queue, flags, sleeping, task, history>>

\* Who sleeps on after notify_all.  Mutant: notify_one.
OneNotified == IF sleeping = {} THEN {} ELSE sleeping \ {CHOOSE t \in sleeping : TRUE}
Unnotified == {}

SpuriousWakeup(c) ==
    /\ c \in sleeping
    /\ sleeping' = sleeping \ {c}
    /\ UNCHANGED <<queue, flags, mutex, pc, task, history>>

-----------------------------------------------------------------------------
(* Calls of enqueue and stop, by the program or by a running task.          *)

MayCall(t) == pc[t] \in {"idle", "task"}
Back(t) == IF t \in Consumer THEN "task" ELSE "idle"

Enqueuing == {t \in Thread : pc[t] \in {"enqueue", "push"}}

BeginEnqueue(t) ==
    /\ MayCall(t) /\ pushed + Cardinality(Enqueuing) < MaxTasks
    /\ Goto(t, "enqueue")
    /\ UNCHANGED <<queue, flags, mutex, sleeping, task, history>>

\* Mutant: the new task is put in front.
InFront(q, x) == <<x>> \o q
AtEnd(q, x) == Append(q, x)

Push(t) ==
    /\ pc[t] = "push"
    /\ pushed' = pushed + 1
    /\ queue' = AtEnd(queue, pushed')
    /\ sleeping' = Unnotified
    /\ mutex' = None
    /\ Goto(t, Back(t))
    /\ UNCHANGED <<flags, task, ran, dropped>>

\* io_service::stop: the flags first, then the queue. Calling it again changes
\* nothing.
BeginStop(t) ==
    /\ MayCall(t) /\ run
    /\ run' = FALSE
    /\ Goto(t, "stopOwn")
    /\ UNCHANGED <<queue, active, ownRun, mutex, sleeping, task, history>>

StopOwn(t) ==
    /\ pc[t] = "stopOwn"
    /\ ownRun' = FALSE
    /\ Goto(t, "stop")
    /\ UNCHANGED <<queue, active, run, mutex, sleeping, task, history>>

Deactivate(t) ==
    /\ pc[t] = "deactivate"
    /\ active' = FALSE
    /\ sleeping' = Unnotified
    /\ mutex' = None
    /\ Goto(t, Back(t))
    /\ UNCHANGED <<queue, run, ownRun, task, history>>

-----------------------------------------------------------------------------
(* The loop of a consumer.                                                  *)

\* while (_run.load()).
Loop(c) ==
    /\ pc[c] = "loop"
    /\ Goto(c, IF run THEN "wait" ELSE "done")
    /\ UNCHANGED <<queue, flags, mutex, sleeping, task, history>>

\* wait's loop.  Mutant: a condition without _active.
WaitsForTasks == queue = <<>>
HasToWait == active /\ queue = <<>>

Check(c) ==
    /\ pc[c] = "check"
    /\ IF HasToWait
       THEN /\ Goto(c, "sleep")
            /\ UNCHANGED mutex
       ELSE /\ Goto(c, "dequeue")
            /\ mutex' = None
    /\ UNCHANGED <<queue, flags, sleeping, task, history>>

\* _signaller.wait releases the mutex and blocks in one step.
Sleep(c) ==
    /\ pc[c] = "sleep"
    /\ sleeping' = sleeping \cup {c}
    /\ mutex' = None
    /\ Goto(c, "asleep")
    /\ UNCHANGED <<queue, flags, task, history>>

\* dequeue.  Mutants: the task is moved out of front, which stays; front without
\* pop_front.
MovedOut(q) == [q EXCEPT ![1] = None]
NotPopped(q) == q
Rest(q) == Tail(q)

Pop(c) ==
    /\ pc[c] = "pop"
    /\ IF queue # <<>>
       THEN /\ task' = [task EXCEPT ![c] = Head(queue)]
            /\ queue' = Rest(queue)
            /\ Goto(c, "got")
       ELSE /\ Goto(c, "loop")
            /\ UNCHANGED <<task, queue>>
    /\ mutex' = None
    /\ UNCHANGED <<flags, sleeping, history>>

\* _run.load() && task: a task that is dequeued during stop is not run.
InnerRun == IF OwnRun THEN ownRun ELSE run

RunTask(c) ==
    /\ pc[c] = "got" /\ InnerRun
    /\ ran' = Append(ran, task[c])
    /\ Goto(c, "task")
    /\ UNCHANGED <<queue, flags, mutex, sleeping, task, pushed, dropped>>

DropTask(c) ==
    /\ pc[c] = "got" /\ ~InnerRun
    /\ dropped' = dropped \cup {task[c]}
    /\ task' = [task EXCEPT ![c] = None]
    /\ Goto(c, "loop")
    /\ UNCHANGED <<queue, flags, mutex, sleeping, pushed, ran>>

TaskReturns(c) ==
    /\ pc[c] = "task"
    /\ task' = [task EXCEPT ![c] = None]
    /\ Goto(c, "dequeue")
    /\ UNCHANGED <<queue, flags, mutex, sleeping, history>>

\* clear, without a lock: the destructor of the service, after the joins.
Clear ==
    /\ \A c \in Consumer : pc[c] = "done"
    /\ \A p \in Program : pc[p] = "idle"
    /\ queue # <<>>
    /\ dropped' = dropped \cup {queue[i] : i \in DOMAIN queue}
    /\ queue' = <<>>
    /\ UNCHANGED <<flags, mutex, sleeping, pc, task, pushed, ran>>

-----------------------------------------------------------------------------
Calls(t) == Push(t) \/ StopOwn(t) \/ Deactivate(t)
Consume(c) ==
    \/ Loop(c) \/ Check(c) \/ Sleep(c) \/ Pop(c)
    \/ RunTask(c) \/ DropTask(c) \/ TaskReturns(c)
Begin(t) == BeginEnqueue(t) \/ BeginStop(t)

Next == \/ \E t \in Thread : Lock(t) \/ Calls(t) \/ Begin(t)
        \/ \E c \in Consumer : Consume(c) \/ SpuriousWakeup(c)
        \/ Clear

Spec == Init /\ [][Next]_vars

\* Threads keep running, and a mutex that is free again and again is got by each
\* thread that wants it.
Fairness ==
    /\ \A t \in Thread : SF_vars(Lock(t)) /\ WF_vars(Calls(t))
    /\ \A c \in Consumer : WF_vars(Consume(c))

FairSpec == Spec /\ Fairness

-----------------------------------------------------------------------------
(* Properties.                                                              *)

\* The places outside the mutex, and the critical sections.
Free == {"idle", "loop", "task", "got", "done", "stopOwn", "enqueue", "wait", "asleep",
         "dequeue", "stop"}
Critical == {"push", "check", "sleep", "pop", "deactivate"}

TypeOK ==
    /\ queue \in Seq(Nat)
    /\ active \in BOOLEAN /\ run \in BOOLEAN /\ ownRun \in BOOLEAN
    /\ mutex \in Thread \cup {None}
    /\ sleeping \subseteq Consumer
    /\ pc \in [Thread -> Free \cup Critical]
    /\ task \in [Consumer -> Nat \cup {None}]
    /\ pushed \in Nat
    /\ ran \in Seq(Nat)
    /\ dropped \subseteq Nat

\* No lost wakeup: a thread that stays asleep has nothing to do, there is no task
\* and no stop, however enqueue, stop and wait interleave.
NoSleeperOnWork == sleeping # {} => queue = <<>> /\ active

\* Every task enqueued is in one place: waiting, taken, run or dropped, once.
EachTaskOnce ==
    LET waiting == {queue[i] : i \in DOMAIN queue}
        taken == {task[c] : c \in {c \in Consumer : pc[c] = "got"}}
        done == {ran[i] : i \in DOMAIN ran}
    IN  /\ waiting \cup taken \cup done \cup dropped = 1..pushed
        /\ Len(queue) + Cardinality({c \in Consumer : pc[c] = "got"})
             + Len(ran) + Cardinality(dropped) = pushed

\* A strand runs its completions in the order they were enqueued, without a gap
\* (process_deletion_queue counts on it: the final event comes last).
InOrder == \A c \in Consumer : Consumer = {c} => \A i \in DOMAIN ran : ran[i] = i

\* The queue is the atomic one the rest of the models use.
Atomic == INSTANCE TaskQueue WITH Taker <- Consumer, Nothing <- None, line <- queue,
              count <- pushed, hand <- task, open <- run
ImplementsTaskQueue == Atomic!FairSpec

\* After stop every consumer leaves its loop, wherever the call found it: run()
\* joins them.
StopEndsLoops == ~run ~> \A c \in Consumer : pc[c] = "done"
=============================================================================
