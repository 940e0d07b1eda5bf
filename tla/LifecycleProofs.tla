-------------------------- MODULE LifecycleProofs --------------------------
(***************************************************************************)
(* Proofs about the life of a service: from its constructor to the end of   *)
(* its destructor, with stop called by anybody at any time.  The invariant  *)
(* says, for each place of the thread that runs and destroys the service,   *)
(* which of the other threads have started and ended by then.               *)
(***************************************************************************)
EXTENDS ServiceLifecycle, TLAPS

Unbuilt == {"new", "opened", "unopened", "aborted"}
Places == {"object", "deletion", "tasks", "hand", "completion", "carried", "given", "dropped",
           "cleared"}

Typed ==
    /\ run \in BOOLEAN
    /\ strandRun \in [Strand -> BOOLEAN] /\ strandOpen \in [Strand -> BOOLEAN]
    /\ at \in [Event -> Places]
    /\ worker \in [TaskThread -> {"none", "loop", "wait", "take", "got", "done"}]
    /\ strand \in [Strand -> {"none", "loop", "wait", "take", "task", "got", "done"}]
    /\ reactor \in {"none", "loop", "wait", "delete", "done"}
    /\ \A w \in TaskThread : worker[w] = "got" => hand[w] \in Event
    /\ \A s \in Strand : strand[s] = "got" => carries[s] \in Event
    /\ hand = [w \in TaskThread |-> hand[w]] /\ carries = [s \in Strand |-> carries[s]]

Workers(places) == \A w \in TaskThread : worker[w] \in places
Strands(places) == \A s \in Strand : strand[s] \in places

\* run starts the threads, and joins them in its own order.
StartedAndJoined ==
    /\ runner \in Unbuilt \cup {"idle"} => reactor = "none"
    /\ runner \in Unbuilt \cup {"idle", "tasks"} => Workers({"none"})
    /\ runner \in Unbuilt \cup {"idle", "tasks", "strands"} => Strands({"none"})
    /\ runner \in {"joinReactor", "joinStrands", "returned"} => Workers({"done"})
    /\ runner \in {"joinStrands", "returned"} => reactor = "done"
    /\ runner = "returned" => Strands({"done"})
    /\ AloneInDestructor

\* A flag of a strand falls only in a stop, which has cleared _run before.
StopClearsRunFirst ==
    /\ stopping # "no" => ~run /\ runner \notin Unbuilt
    /\ \A s \in Strand : ~strandRun[s] => stopping # "no"

\* The pipe is there from the constructor to the last step but one of the destructor.
PipeLives ==
    /\ runner \notin Unbuilt \cup {"epoll", "gone"} => pipe \in {"empty", "full"}
    /\ runner \in {"epoll", "gone"} => pipe = "closed"
    /\ runner \in Unbuilt => strands = <<>>

\* Once the registrar has been cleared no event is left anywhere.
ClearedForGood ==
    runner \in {"pipe", "epoll", "gone"} => \A e \in Event :
        at[e] \in {"given", "cleared"} \/ (at[e] = "object" /\ StrandOf[e] \notin Created)

LifeInv ==
    /\ Typed /\ StartedAndJoined /\ StopClearsRunFirst /\ PipeLives
    /\ ClearedForGood /\ DroppedByStopOnly

-----------------------------------------------------------------------------
LEMMA LifeInit == Init => LifeInv
BY DEF Init, LifeInv, Typed, StartedAndJoined, StopClearsRunFirst, PipeLives, ClearedForGood,
       DroppedByStopOnly, AloneInDestructor, TearingDown, Unbuilt, Places, Workers, Strands

LEMMA LifeStep == LifeInv /\ [Next]_vars => LifeInv'
<1> SUFFICES ASSUME LifeInv, [Next]_vars PROVE LifeInv'
    OBVIOUS
<1> USE LifecycleAssumption
    DEF LifeInv, Typed, StartedAndJoined, StopClearsRunFirst, PipeLives, ClearedForGood,
        DroppedByStopOnly, AloneInDestructor, TearingDown, Unbuilt, Places, Workers, Strands,
        flags, threads, stop, Created
<1>1. CASE ConstructReactor \/ InitInterrupter
    BY <1>1 DEF ConstructReactor, InitInterrupter
<1>2. ASSUME NEW s \in Strand, CreateStrand(s) PROVE LifeInv'
    BY <1>2 DEF CreateStrand
<1>3. ASSUME NEW e \in Event, DestroyObject(e) PROVE LifeInv'
    BY <1>3 DEF DestroyObject, Destroyed, Enqueued, PipeWritten
<1>4. CASE Running
    <2>1. CASE Run
        BY <2>1 DEF Run
    <2>2. CASE StartTaskThreads
        BY <2>2 DEF StartTaskThreads
    <2>3. CASE StartStrands
        BY <2>3 DEF StartStrands
    <2>4. CASE JoinTasks
        BY <2>4 DEF JoinTasks
    <2>5. CASE JoinReactor
        BY <2>5 DEF JoinReactor
    <2>6. CASE JoinStrands
        BY <2>6 DEF JoinStrands, StrandsDone
    <2>7. QED
        BY <1>4, <2>1, <2>2, <2>3, <2>4, <2>5, <2>6 DEF Running
<1>5. ASSUME NEW t \in Strand \cup {Main}, Stop(t) PROVE LifeInv'
    <2>1. runner \notin Unbuilt
        BY <1>5 DEF Stop, Built
    <2>2. /\ stopping' = "strandFlag" /\ run' = FALSE
          /\ UNCHANGED <<strandRun, strandOpen, pipe, strands, at, threads>>
        BY <1>5 DEF Stop, Goto, RunCleared
    <2>3. Typed'
        BY <2>2
    <2>4. PipeLives'
        BY <2>2
    <2>5. ClearedForGood'
        BY <2>2
    <2>6. StartedAndJoined'
        BY <2>2
    <2>7. StopClearsRunFirst' /\ DroppedByStopOnly'
        BY <2>1, <2>2
    <2>8. QED
        BY <2>3, <2>4, <2>5, <2>6, <2>7
<1>6. CASE StopStep
    <2>1. CASE StopStrand
        <3>1. /\ stopping # "no" /\ stopping' # "no"
              /\ UNCHANGED <<run, pipe, strands, at, threads>>
            BY <2>1 DEF StopStrand, Goto
        <3>2. strandRun' \in [Strand -> BOOLEAN] /\ strandOpen' \in [Strand -> BOOLEAN]
            <4>1. PICK s : /\ strandRun' = [strandRun EXCEPT ![s] = FALSE] \/ UNCHANGED strandRun
                           /\ strandOpen' = [strandOpen EXCEPT ![s] = FALSE] \/ UNCHANGED strandOpen
                BY <2>1 DEF StopStrand
            <4>2. QED
                BY <4>1
        <3>3. QED
            BY <3>1, <3>2
    <2>2. CASE StopTasks
        BY <2>2 DEF StopTasks, Goto
    <2>3. CASE StopReactor
        BY <2>3 DEF StopReactor, Goto
    <2>4. CASE Interrupt
        BY <2>4 DEF Interrupt, Goto, PipeWritten
    <2>5. QED
        BY <1>6, <2>1, <2>2, <2>3, <2>4 DEF StopStep
<1>7. CASE ReactorStep \/ ReactorReport
    <2>1. CASE ReactorLoop
        BY <2>1 DEF ReactorLoop, Looping
    <2>2. CASE ReactorWake \/ ReactorReport
        BY <2>2 DEF ReactorWake, ReactorReport
    <2>3. CASE DeletionQueue
        BY <2>3 DEF DeletionQueue, Dequeued, In
    <2>4. QED
        BY <1>7, <2>1, <2>2, <2>3 DEF ReactorStep
<1>8. ASSUME NEW w \in TaskThread, WorkerStep(w) PROVE LifeInv'
    <2>1. CASE WorkerLoop(w)
        BY <2>1 DEF WorkerLoop, WorkerAt, Looping
    <2>2. CASE WorkerTake(w)
        BY <2>2 DEF WorkerTake, WorkerAt, In
    <2>3. CASE WorkerRun(w)
        BY <2>3 DEF WorkerRun, WorkerAt
    <2>4. QED
        BY <1>8, <2>1, <2>2, <2>3 DEF WorkerStep
<1>9. ASSUME NEW s \in Strand, StrandStep(s) \/ StrandTask(s) PROVE LifeInv'
    <2>1. CASE StrandLoop(s) \/ StrandTask(s)
        BY <2>1 DEF StrandLoop, StrandTask, StrandAt, Looping
    <2>2. CASE StrandTake(s)
        <3>1. PICK e \in Event : at[e] = "completion" /\ at' = [at EXCEPT ![e] = "carried"]
                                  /\ carries' = [carries EXCEPT ![s] = e]
            BY <2>2 DEF StrandTake, Completions, In
        <3>2. /\ strand[s] = "take" /\ strand' = [strand EXCEPT ![s] = "got"]
              /\ UNCHANGED <<flags, pipe, strands, runner, reactor, worker, hand, stop>>
            BY <2>2 DEF StrandTake, StrandAt
        <3>3. Typed'
            BY <3>1, <3>2
        <3>4. runner \notin TearingDown \cup Unbuilt \cup {"idle", "tasks", "strands", "returned"}
            BY <3>2
        <3>5. QED
            BY <3>1, <3>2, <3>3, <3>4
    <2>3. CASE StrandRun(s)
        BY <2>3 DEF StrandRun, StrandAt
    <2>4. QED
        BY <1>9, <2>1, <2>2, <2>3 DEF StrandStep
<1>10. CASE Destructor
    BY <1>10 DEF Destructor
<1>11. CASE TearDown
    <2> USE DEF After
    <2>1. CASE ClearStrands
        BY <2>1 DEF ClearStrands
    <2>2. ASSUME NEW e \in Event, CloseRegistrarResets(e) PROVE LifeInv'
        BY <2>2 DEF CloseRegistrarResets, Destroyed, Enqueued, PipeWritten
    <2>3. CASE CloseRegistrarClears
        BY <2>3 DEF CloseRegistrarClears, ObjectsLeft, In
    <2>4. CASE CloseInterrupter \/ CloseEpoll
        BY <2>4 DEF CloseInterrupter, CloseEpoll
    <2>5. QED
        BY <1>11, <2>1, <2>2, <2>3, <2>4 DEF TearDown
<1>12. CASE UNCHANGED vars
    BY <1>12 DEF vars
<1>13. QED
    BY <1>1, <1>2, <1>3, <1>4, <1>5, <1>6, <1>7, <1>8, <1>9, <1>10, <1>11, <1>12 DEF Next

LEMMA LifeAlways == Spec => []LifeInv
BY LifeInit, LifeStep, PTL DEF Spec

\* The destructor, which takes no locks, finds that every thread of the service has
\* ended or was never started, for any number of strands and task threads.
THEOREM DestructorIsAlone == Spec => []AloneInDestructor
<1>1. LifeInv => AloneInDestructor
    BY DEF LifeInv, StartedAndJoined
<1>2. QED
    BY <1>1, LifeAlways, PTL

\* No event is dropped between the deletion queue and the registrar while the
\* service runs: only stop makes the loops drop what they have dequeued.
THEOREM OnlyStopDrops == Spec => []DroppedByStopOnly
<1>1. LifeInv => DroppedByStopOnly
    BY DEF LifeInv
<1>2. QED
    BY <1>1, LifeAlways, PTL

\* When the service is gone so is every event, wherever stop and the destructor
\* found it.
THEOREM EverythingReclaimed == Spec => []AllReclaimed
<1>1. LifeInv => AllReclaimed
    BY DEF LifeInv, ClearedForGood, AllReclaimed
<1>2. QED
    BY <1>1, LifeAlways, PTL

\* The destructors of io objects, those that the registrar runs while it is closed
\* among them, write to a pipe that has been opened and not yet closed.
THEOREM PipeOutlivesWriters == Spec => NoWriteToClosedPipe
<1>1. ASSUME LifeInv, [Next]_vars, NEW e \in Event, at[e] = "object", at'[e] = "deletion"
      PROVE  pipe \in {"empty", "full"}
    <2>1. (\E x \in Event : DestroyObject(x)) \/ (\E x \in Event : CloseRegistrarResets(x))
        BY <1>1
        DEF LifeInv, Typed, Places, Next, vars, flags, threads, stop, CreateStrand, StrandStep,
            StrandTask, ConstructReactor, InitInterrupter, Running, Run, StartTaskThreads,
            StartStrands, JoinTasks, JoinReactor, JoinStrands, StopStep, StopStrand, StopTasks,
            StopReactor, Interrupt, ReactorStep, ReactorLoop, ReactorWake, ReactorReport,
            DeletionQueue, Dequeued, Destructor, TearDown, ClearStrands, CloseRegistrarClears,
            CloseInterrupter, CloseEpoll, WorkerStep, WorkerLoop, WorkerTake, WorkerRun,
            StrandLoop, StrandTake, StrandRun, Stop
    <2>2. CASE \E x \in Event : DestroyObject(x)
        BY <1>1, <2>2
        DEF DestroyObject, LifeInv, PipeLives, Created, TearingDown, Unbuilt
    <2>3. CASE \E x \in Event : CloseRegistrarResets(x)
        BY <1>1, <2>3 DEF CloseRegistrarResets, LifeInv, PipeLives, Unbuilt
    <2>4. QED
        BY <2>1, <2>2, <2>3
<1>2. LifeInv /\ [Next]_vars =>
          [\A e \in Event : at[e] = "object" /\ at'[e] = "deletion" => pipe \in {"empty", "full"}]_vars
    BY <1>1
<1>3. QED
    BY <1>2, LifeAlways, PTL DEF Spec, NoWriteToClosedPipe
=============================================================================
