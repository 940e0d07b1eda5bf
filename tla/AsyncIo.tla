------------------------------- MODULE AsyncIo -------------------------------
(***************************************************************************)
(* What the io objects of the library promise to the program: an operation  *)
(* is started, its callback runs at most once, after it was started and     *)
(* before the object is destroyed, and the memory of a destroyed object's   *)
(* events is reclaimed, never before.  How threads, epoll and queues bring  *)
(* this about is EpollService's business.                                   *)
(***************************************************************************)
EXTENDS Naturals

CONSTANTS
    Object,     \* the io objects
    Operation,  \* their events: one per operation that can be in progress
    ObjectOf    \* a function: the object an operation belongs to

VARIABLES
    issued,     \* operations started so far
    called,     \* callbacks run so far
    alive,      \* objects whose destructor has not run
    held        \* events not yet reclaimed

avars == <<issued, called, alive, held>>

Init ==
    /\ issued = [o \in Operation |-> 0]
    /\ called = [o \in Operation |-> 0]
    /\ alive = [x \in Object |-> TRUE]
    /\ held = Operation

Start(o) ==
    /\ alive[ObjectOf[o]] /\ issued[o] = called[o]
    /\ issued' = [issued EXCEPT ![o] = @ + 1]
    /\ UNCHANGED <<called, alive, held>>

CallBack(o) ==
    /\ alive[ObjectOf[o]] /\ called[o] < issued[o]
    /\ called' = [called EXCEPT ![o] = @ + 1]
    /\ UNCHANGED <<issued, alive, held>>

Destroy(x) ==
    /\ alive[x]
    /\ alive' = [alive EXCEPT ![x] = FALSE]
    /\ UNCHANGED <<issued, called, held>>

Reclaim(o) ==
    /\ o \in held /\ ~alive[ObjectOf[o]]
    /\ held' = held \ {o}
    /\ UNCHANGED <<issued, called, alive>>

Next == \/ \E o \in Operation : Start(o) \/ CallBack(o) \/ Reclaim(o)
        \/ \E x \in Object : Destroy(x)

Spec == Init /\ [][Next]_avars

\* Memory is reclaimed in the end; whether an operation ever completes is up to
\* the outside world.
FairSpec == Spec /\ \A o \in Operation : WF_avars(Reclaim(o))
=============================================================================
