-------------------------- MODULE ServiceLifecycle --------------------------
(***************************************************************************)
(* epoll_service from constructor to destructor: run starts the threads and *)
(* joins them, stop ends their loops one flag at a time, the destructor     *)
(* takes down what is left in an order that matters.  What travels through  *)
(* the threads is reduced to the events of destroyed objects, on their way  *)
(* from the deletion queue back to the registrar; queues are TaskQueues.    *)
(***************************************************************************)
EXTENDS Naturals, Sequences, FiniteSets

CONSTANTS
    Strand,           \* the strands the program creates
    Event,            \* the events of its io objects
    StrandOf,         \* StrandOf[e]: the strand of an event
    reactor_threads,  \* the argument of the constructor
    DefaultThreads,   \* bound: the task threads by default, 4 in the code
    Main,             \* a thread of the program, next to the one in run()
    None              \* nobody

ASSUME LifecycleAssumption ==
    /\ Strand # {}
    /\ StrandOf \in [Event -> Strand]
    /\ reactor_threads \in Nat /\ DefaultThreads \in Nat \ {0}
    /\ Main \notin Strand /\ None \notin Strand \cup {Main} \cup Event

\* _num_reactor_threads stays 0 unless the argument is 0.
NumThreads == IF reactor_threads = 0 THEN DefaultThreads ELSE 0
TaskThread == 1..NumThreads

VARIABLES
    run,         \* epoll_service::_run
    strandRun,   \* completion_strand_impl::_run
    strandOpen,  \* _active of the completion queue of a strand
    tasksOpen,   \* _active of the task queue
    reactorRun,  \* epoll_reactor::_run
    pipe,        \* "none", "empty", "full" or "closed": the interrupter's
    strands,     \* _completion_strands, as created
    at,          \* where the event of an object is
    runner,      \* the thread that constructs and destroys the service and calls run()
    reactor,     \* the reactor thread
    worker,      \* the reactor task threads
    hand,        \* the event a task thread has dequeued
    strand,      \* the completion threads; the first strand is the runner's
    carries,     \* the event a completion thread has dequeued
    stopper,     \* who is in stop()
    stopping     \* how far it has come

flags == <<run, strandRun, strandOpen, tasksOpen, reactorRun>>
threads == <<runner, reactor, worker, hand, strand, carries>>
stop == <<stopper, stopping>>
vars == <<flags, pipe, strands, at, threads, stop>>

Init ==
    /\ run = TRUE
    /\ strandRun = [s \in Strand |-> TRUE]
    /\ strandOpen = [s \in Strand |-> TRUE]
    /\ tasksOpen = TRUE
    /\ reactorRun = TRUE
    /\ pipe = "none"
    /\ strands = <<>>
    /\ at = [e \in Event |-> "object"]
    /\ runner = "new"
    /\ reactor = "none"
    /\ worker = [w \in TaskThread |-> "none"]
    /\ hand = [w \in TaskThread |-> None]
    /\ strand = [s \in Strand |-> "none"]
    /\ carries = [s \in Strand |-> None]
    /\ stopper = None
    /\ stopping = "no"

In(place) == {e \in Event : at[e] = place}
Completions(s) == {e \in In("completion") : StrandOf[e] = s}
TearingDown == {"clear", "close", "pipe", "epoll", "gone"}
Created == {strands[i] : i \in DOMAIN strands}

-----------------------------------------------------------------------------
(* epoll_service().                                                         *)

\* The epoll instance of the reactor, or a fatal line in the log.
ConstructReactor ==
    /\ runner = "new"
    /\ runner' \in {"opened", "unopened"}
    /\ UNCHANGED <<flags, pipe, strands, at, reactor, worker, hand, strand, carries, stop>>

\* A pipe, non-blocking at both ends, that epoll watches for good; or abort().
InitInterrupter ==
    \/ /\ runner = "opened"
       /\ runner' = "idle" /\ pipe' = "empty"
       /\ UNCHANGED <<flags, strands, at, reactor, worker, hand, strand, carries, stop>>
    \/ /\ runner \in {"opened", "unopened"}
       /\ runner' = "aborted"
       /\ UNCHANGED <<flags, pipe, strands, at, reactor, worker, hand, strand, carries, stop>>

Built == runner \notin {"new", "opened", "unopened", "aborted"}

-----------------------------------------------------------------------------
(* The program.                                                             *)

\* create_strand, before run.
CreateStrand(s) ==
    /\ runner = "idle" /\ stopping = "no" /\ s \notin Created
    /\ strands' = Append(strands, s)
    /\ UNCHANGED <<flags, pipe, at, threads, stop>>

\* interrupt.  Mutant: the reactor is not woken.
PipeLeft == pipe
PipeWritten == IF pipe = "closed" THEN pipe ELSE "full"

\* The deletion queue, a lockable_queue: which of the events in it is the next one
\* does not matter here.
Enqueued(e) == [at EXCEPT ![e] = "deletion"]
Dequeued(e) == [at EXCEPT ![e] = "tasks"]

\* A destructor of an io object: into the deletion queue, then interrupt.
Destroyed(e) ==
    /\ at' = Enqueued(e)
    /\ pipe' = PipeWritten

\* ... on any thread; the reactor holds the lock of the queue while it empties it.
DestroyObject(e) ==
    /\ runner \notin TearingDown /\ reactor # "delete"
    /\ at[e] = "object" /\ StrandOf[e] \in Created
    /\ Destroyed(e)
    /\ UNCHANGED <<flags, strands, threads, stop>>

-----------------------------------------------------------------------------
(* run(): the thread that calls it.                                         *)

Run ==
    /\ runner = "idle" /\ Created = Strand
    /\ runner' = "tasks"
    /\ reactor' = "loop"
    /\ UNCHANGED <<flags, pipe, strands, at, worker, hand, strand, carries, stop>>

StartTaskThreads ==
    /\ runner = "tasks"
    /\ runner' = "strands"
    /\ worker' = [w \in TaskThread |-> "loop"]
    /\ UNCHANGED <<flags, pipe, strands, at, reactor, hand, strand, carries, stop>>

\* The first strand gets no thread of its own: its loop runs here.
StartStrands ==
    /\ runner = "strands"
    /\ runner' = "serving"
    /\ strand' = [s \in Strand |-> "loop"]
    /\ UNCHANGED <<flags, pipe, strands, at, reactor, worker, hand, carries, stop>>

JoinTasks ==
    /\ runner = "serving" /\ strand[strands[1]] = "done"
    /\ \A w \in TaskThread : worker[w] = "done"
    /\ runner' = "joinReactor"
    /\ UNCHANGED <<flags, pipe, strands, at, reactor, worker, hand, strand, carries, stop>>

JoinReactor ==
    /\ runner = "joinReactor" /\ reactor = "done"
    /\ runner' = "joinStrands"
    /\ UNCHANGED <<flags, pipe, strands, at, reactor, worker, hand, strand, carries, stop>>

\* Mutant: the completion threads are not joined.
NotJoined == TRUE
StrandsDone == \A s \in Strand : strand[s] = "done"

JoinStrands ==
    /\ runner = "joinStrands" /\ StrandsDone
    /\ runner' = "returned"
    /\ UNCHANGED <<flags, pipe, strands, at, reactor, worker, hand, strand, carries, stop>>

-----------------------------------------------------------------------------
(* stop(), by a thread of the program or by a callback.                     *)

Goto(place) == stopping' = place

\* What stop leaves in _run.  Mutant: it only stops the parts.
RunLeft == run
RunCleared == FALSE

Stop(t) ==
    /\ stopping = "no"
    /\ \/ t = Main /\ Built /\ runner # "gone"
       \/ t \in Strand /\ strand[t] = "task"
    /\ stopper' = t
    /\ Goto("strandFlag")
    /\ run' = RunCleared
    /\ UNCHANGED <<strandRun, strandOpen, tasksOpen, reactorRun, pipe, strands, at, threads>>

\* Strand after strand: its flag, then its queue.
StopStrand ==
    LET left == {s \in Created : strandOpen[s]} IN
    /\ stopping \in {"strandFlag", "strandQueue"} /\ left # {}
    /\ \E s \in left :
        /\ \A i, j \in DOMAIN strands : strands[i] \in left /\ strands[j] = s => i >= j
        /\ IF stopping = "strandFlag"
           THEN /\ strandRun' = [strandRun EXCEPT ![s] = FALSE]
                /\ Goto("strandQueue")
                /\ UNCHANGED strandOpen
           ELSE /\ strandOpen' = [strandOpen EXCEPT ![s] = FALSE]
                /\ Goto("strandFlag")
                /\ UNCHANGED strandRun
    /\ UNCHANGED <<run, tasksOpen, reactorRun, pipe, strands, at, threads, stopper>>

StopTasks ==
    /\ stopping = "strandFlag" /\ \A s \in Created : ~strandOpen[s]
    /\ tasksOpen' = FALSE
    /\ Goto("reactor")
    /\ UNCHANGED <<run, strandRun, strandOpen, reactorRun, pipe, strands, at, threads, stopper>>

StopReactor ==
    /\ stopping = "reactor"
    /\ reactorRun' = FALSE
    /\ Goto("interrupt")
    /\ UNCHANGED <<run, strandRun, strandOpen, tasksOpen, pipe, strands, at, threads, stopper>>

Interrupt ==
    /\ stopping = "interrupt"
    /\ pipe' = PipeWritten
    /\ Goto("done")
    /\ stopper' = None
    /\ UNCHANGED <<flags, strands, at, threads>>

-----------------------------------------------------------------------------
(* The loops of the threads.                                                *)

Looping(place) == IF run THEN place ELSE "done"

ReactorLoop ==
    /\ reactor = "loop"
    /\ reactor' = Looping("wait")
    /\ UNCHANGED <<flags, pipe, strands, at, runner, worker, hand, strand, carries, stop>>

\* epoll_wait: the pipe is level-triggered, and emptied unless the reactor has
\* been stopped.
ReactorWake ==
    /\ reactor = "wait" /\ pipe = "full"
    /\ pipe' = IF reactorRun THEN "empty" ELSE pipe
    /\ reactor' = "delete"
    /\ UNCHANGED <<flags, strands, at, runner, worker, hand, strand, carries, stop>>

\* ... or the file of an io object, or a signal.
ReactorReport ==
    /\ reactor = "wait"
    /\ reactor' = "delete"
    /\ UNCHANGED <<flags, pipe, strands, at, runner, worker, hand, strand, carries, stop>>

DeletionQueue ==
    /\ reactor = "delete"
    /\ IF run /\ In("deletion") # {}
       THEN /\ \E e \in In("deletion") : at' = Dequeued(e)
            /\ UNCHANGED reactor
       ELSE /\ reactor' = "loop"
            /\ UNCHANGED at
    /\ UNCHANGED <<flags, pipe, strands, runner, worker, hand, strand, carries, stop>>

WorkerAt(w, place) == worker' = [worker EXCEPT ![w] = place]

\* Mutant: wait returns for a task only.
OnlyForTasks == FALSE
TasksClosed == ~tasksOpen

WorkerLoop(w) ==
    /\ \/ worker[w] = "loop" /\ WorkerAt(w, Looping("wait"))
       \/ /\ worker[w] = "wait" /\ (TasksClosed \/ In("tasks") # {})
          /\ WorkerAt(w, "take")
       \/ worker[w] = "take" /\ In("tasks") = {} /\ WorkerAt(w, "loop")
    /\ UNCHANGED <<flags, pipe, strands, at, runner, reactor, hand, strand, carries, stop>>

WorkerTake(w) ==
    /\ worker[w] = "take"
    /\ \E e \in In("tasks") :
        /\ at' = [at EXCEPT ![e] = "hand"]
        /\ hand' = [hand EXCEPT ![w] = e]
    /\ WorkerAt(w, "got")
    /\ UNCHANGED <<flags, pipe, strands, runner, reactor, strand, carries, stop>>

\* The task enqueues the final event on its strand; during stop it is dropped.
WorkerRun(w) ==
    /\ worker[w] = "got"
    /\ at' = [at EXCEPT ![hand[w]] = IF run THEN "completion" ELSE "dropped"]
    /\ hand' = [hand EXCEPT ![w] = None]
    /\ WorkerAt(w, IF run THEN "take" ELSE "loop")
    /\ UNCHANGED <<flags, pipe, strands, runner, reactor, strand, carries, stop>>

StrandAt(s, place) == strand' = [strand EXCEPT ![s] = place]

StrandLoop(s) ==
    /\ \/ strand[s] = "loop" /\ StrandAt(s, Looping("wait"))
       \/ /\ strand[s] = "wait" /\ (~strandOpen[s] \/ Completions(s) # {})
          /\ StrandAt(s, "take")
       \/ strand[s] = "take" /\ Completions(s) = {} /\ StrandAt(s, "loop")
       \/ strand[s] = "task" /\ stopper # s /\ StrandAt(s, "take")
    /\ UNCHANGED <<flags, pipe, strands, at, runner, reactor, worker, hand, carries, stop>>

\* A callback or a posted task, which may call stop.
StrandTask(s) ==
    /\ strand[s] \in {"wait", "take"} /\ strandRun[s] /\ stopping = "no"
    /\ StrandAt(s, "task")
    /\ UNCHANGED <<flags, pipe, strands, at, runner, reactor, worker, hand, carries, stop>>

StrandTake(s) ==
    /\ strand[s] = "take"
    /\ \E e \in Completions(s) :
        /\ at' = [at EXCEPT ![e] = "carried"]
        /\ carries' = [carries EXCEPT ![s] = e]
    /\ StrandAt(s, "got")
    /\ UNCHANGED <<flags, pipe, strands, runner, reactor, worker, hand, stop>>

StrandRun(s) ==
    /\ strand[s] = "got"
    /\ at' = [at EXCEPT ![carries[s]] = IF strandRun[s] THEN "given" ELSE "dropped"]
    /\ carries' = [carries EXCEPT ![s] = None]
    /\ StrandAt(s, IF strandRun[s] THEN "take" ELSE "loop")
    /\ UNCHANGED <<flags, pipe, strands, runner, reactor, worker, hand, stop>>

-----------------------------------------------------------------------------
(* ~epoll_service(), once run has returned or without it.                   *)

\* Mutant: the interrupter goes before the registrar.
PipeFirst == [clear |-> "pipe", pipe |-> "close", close |-> "epoll", epoll |-> "gone"]
After == [clear |-> "close", close |-> "pipe", pipe |-> "epoll", epoll |-> "gone"]

Destructor ==
    /\ runner \in {"idle", "returned"} /\ stopper = None
    /\ runner' = "clear"
    /\ UNCHANGED <<flags, pipe, strands, at, reactor, worker, hand, strand, carries, stop>>

\* clear of every strand: what was not completed is not any more.
ClearStrands ==
    /\ runner = "clear"
    /\ at' = [e \in Event |-> IF at[e] = "completion" THEN "dropped" ELSE at[e]]
    /\ runner' = After["clear"]
    /\ UNCHANGED <<flags, pipe, strands, reactor, worker, hand, strand, carries, stop>>

\* close: the objects that closures held are destroyed ...
CloseRegistrarResets(e) ==
    /\ runner = "close" /\ at[e] = "object" /\ StrandOf[e] \in Created
    /\ Destroyed(e)
    /\ UNCHANGED <<flags, strands, threads, stop>>

\* ... before the registrar is cleared.  Mutant: not all of them.
AnyLeft == {}
ObjectsLeft == {e \in In("object") : StrandOf[e] \in Created}

CloseRegistrarClears ==
    /\ runner = "close" /\ ObjectsLeft = {}
    /\ at' = [e \in Event |-> IF at[e] \in {"object", "given"} THEN at[e] ELSE "cleared"]
    /\ runner' = After["close"]
    /\ UNCHANGED <<flags, pipe, strands, reactor, worker, hand, strand, carries, stop>>

CloseInterrupter ==
    /\ runner = "pipe"
    /\ pipe' = "closed"
    /\ runner' = After["pipe"]
    /\ UNCHANGED <<flags, strands, at, reactor, worker, hand, strand, carries, stop>>

CloseEpoll ==
    /\ runner = "epoll"
    /\ runner' = After["epoll"]
    /\ UNCHANGED <<flags, pipe, strands, at, reactor, worker, hand, strand, carries, stop>>

-----------------------------------------------------------------------------
Running == Run \/ StartTaskThreads \/ StartStrands \/ JoinTasks \/ JoinReactor \/ JoinStrands
StopStep == StopStrand \/ StopTasks \/ StopReactor \/ Interrupt
ReactorStep == ReactorLoop \/ ReactorWake \/ DeletionQueue
WorkerStep(w) == WorkerLoop(w) \/ WorkerTake(w) \/ WorkerRun(w)
StrandStep(s) == StrandLoop(s) \/ StrandTake(s) \/ StrandRun(s)
TearDown == \/ ClearStrands \/ CloseRegistrarClears \/ CloseInterrupter \/ CloseEpoll
            \/ \E e \in Event : CloseRegistrarResets(e)

Next == \/ \E s \in Strand : CreateStrand(s) \/ StrandStep(s) \/ StrandTask(s)
        \/ \E e \in Event : DestroyObject(e)
        \/ ConstructReactor \/ InitInterrupter
        \/ Running \/ StopStep \/ ReactorStep \/ ReactorReport \/ Destructor \/ TearDown
        \/ \E w \in TaskThread : WorkerStep(w)
        \/ \E t \in Strand \cup {Main} : Stop(t)

Spec == Init /\ [][Next]_vars

\* Every thread runs, once it is started; the queues are first in, first out, so
\* that an event is not passed over for ever by callbacks.
Fairness ==
    /\ WF_vars(Running) /\ WF_vars(StopStep) /\ WF_vars(ReactorStep) /\ WF_vars(TearDown)
    /\ \A w \in TaskThread : WF_vars(WorkerStep(w))
    /\ \A s \in Strand : WF_vars(StrandStep(s)) /\ SF_vars(StrandTake(s))

FairSpec == Spec /\ Fairness

-----------------------------------------------------------------------------
(* Properties.                                                              *)

\* "we are sure that there are no other threads running": when the destructor
\* works without locks, every thread of the service has ended.
AloneInDestructor ==
    runner \in TearingDown =>
        /\ reactor \in {"none", "done"}
        /\ \A w \in TaskThread : worker[w] \in {"none", "done"}
        /\ \A s \in Strand : strand[s] \in {"none", "done"}

\* An event is dropped on its way only because the service stops.
DroppedByStopOnly == (\E e \in Event : at[e] = "dropped") => ~run \/ runner \in TearingDown

\* "event objects ... will use the interrupter during dispose": nobody writes to
\* the pipe before it is opened or after it has been closed.
NoWriteToClosedPipe ==
    [][\A e \in Event :
          at[e] = "object" /\ at'[e] = "deletion" => pipe \in {"empty", "full"}]_vars

\* Whatever stop and the destructor cut short, no event is left in the end.
AllReclaimed ==
    runner = "gone" => \A e \in Event :
        at[e] \in {"given", "cleared"} \/ (at[e] = "object" /\ StrandOf[e] \notin Created)

\* stop, by whom and whenever it is called, makes run return.
StopEndsRun == stopping # "no" /\ runner # "idle" ~> runner \in {"returned"} \cup TearingDown

\* "Deletion event will handle its clean up": while the service runs, the event of
\* a destroyed object is given back.
DestroyedIsGiven ==
    \A e \in Event : at[e] = "deletion" /\ runner = "serving" ~> at[e] = "given" \/ ~run
=============================================================================
