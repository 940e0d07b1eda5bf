------------------------------ MODULE TaskQueue ------------------------------
(***************************************************************************)
(* What the other modules take a queue of tasks to be: tasks enter at the   *)
(* end, a thread takes the first one in one step, and as long as the        *)
(* service runs every task is taken and run.  BlockingQueue brings it       *)
(* about with a mutex and a condition variable.                             *)
(***************************************************************************)
EXTENDS Naturals, Sequences

CONSTANTS
    Taker,      \* the threads that take tasks
    Nothing     \* no task

VARIABLES
    line,       \* the tasks waiting, numbered as they came
    count,      \* tasks that have entered
    hand,       \* the task a thread is busy with
    open        \* FALSE once the service has been told to stop

qvars == <<line, count, hand, open>>

Init ==
    /\ line = <<>>
    /\ count = 0
    /\ hand = [k \in Taker |-> Nothing]
    /\ open = TRUE

Put ==
    /\ count' = count + 1
    /\ line' = Append(line, count')
    /\ UNCHANGED <<hand, open>>

Take(k) ==
    /\ hand[k] = Nothing /\ line # <<>>
    /\ hand' = [hand EXCEPT ![k] = Head(line)]
    /\ line' = Tail(line)
    /\ UNCHANGED <<count, open>>

\* The task has run, or was dropped because the service stops.
Finish(k) ==
    /\ hand[k] # Nothing
    /\ hand' = [hand EXCEPT ![k] = Nothing]
    /\ UNCHANGED <<line, count, open>>

Stop ==
    /\ open' = FALSE
    /\ UNCHANGED <<line, count, hand>>

\* The tasks left are destroyed unrun, by the destructor of the service.
Clear ==
    /\ ~open
    /\ line' = <<>>
    /\ UNCHANGED <<count, hand, open>>

Next == Put \/ Stop \/ Clear \/ \E k \in Taker : Take(k) \/ Finish(k)

Spec == Init /\ [][Next]_qvars

FairSpec ==
    /\ Spec
    /\ WF_qvars(open /\ \E k \in Taker : Take(k))
    /\ \A k \in Taker : WF_qvars(Finish(k))
=============================================================================
