--------------------------- MODULE EventRegistrar ---------------------------
(***************************************************************************)
(* event_registrar and the lifetimes that hang on it.  The registrar owns   *)
(* every event; an event owns the closure of the operation in progress; the *)
(* closure owns what the program captured, which may be the last reference  *)
(* to an io object; and the destructor of an io object takes a new event.   *)
(* So give and close can call back into take.                               *)
(***************************************************************************)
EXTENDS Naturals, FiniteSets

CONSTANTS
    Object,     \* the io objects, one event each
    Strand,     \* the threads that process final events
    Main,       \* the thread of the program
    None,       \* no object, no thread
    Captures    \* Captures[x]: the objects a callback given to x may hold

Thread == Strand \cup {Main}
Entry == [object : Object, final : BOOLEAN]
Giving == [object : Object, step : {"erase", "unlock", "final"}]

ASSUME RegistrarAssumption ==
    /\ Main \notin Strand
    /\ None \notin Object \cup Thread \cup Giving
    /\ Captures \in [Object -> SUBSET Object]

VARIABLES
    register,   \* event_registrar::_register, from ids to events
    nextId,     \* event_registrar::_id_generator
    mutex,      \* the thread that holds event_registrar::_mutex
    captured,   \* the object the closure in x's event holds, or None
    held,       \* the objects the program itself holds
    life,       \* "unborn", "alive" or "dead" (its destructor has begun)
    dying,      \* the object whose destructor a thread runs, up to its take
    queued,     \* objects whose final event is on its way to the strand
    giving,     \* what a strand is giving back
    phase,      \* "open", "closing" during close() up to its clear, "closed"
    cursor      \* close(): the ids below have been reset

service == <<phase, cursor>>
vars == <<register, nextId, mutex, captured, held, life, dying, queued, giving, service>>

Init ==
    /\ register = [i \in {} |-> None]
    /\ nextId = 0
    /\ mutex = None
    /\ captured = [x \in Object |-> None]
    /\ held = {}
    /\ life = [x \in Object |-> "unborn"]
    /\ dying = [t \in Thread |-> None]
    /\ queued = {}
    /\ giving = [s \in Strand |-> None]
    /\ phase = "open"
    /\ cursor = 0

-----------------------------------------------------------------------------
\* take: a new id for a new event.  Mutant: the number of events as the id.
TakenBySize(entry) == LET n == Cardinality(DOMAIN register) IN
    [i \in DOMAIN register \cup {n} |-> IF i = n THEN entry ELSE register[i]]
Taken(entry) == [i \in DOMAIN register \cup {nextId} |->
                    IF i = nextId THEN entry ELSE register[i]]

Take(entry) ==
    /\ mutex = None
    /\ register' = Taken(entry)
    /\ nextId' = nextId + 1

\* give: the event is erased by its id.  Mutant: final events are not.
IdOf(entry) == CHOOSE i \in DOMAIN register : register[i] = entry
FinalKept(entry) ==
    [i \in DOMAIN register \ (IF entry.final THEN {} ELSE {IdOf(entry)}) |-> register[i]]
Erased(entry) == [i \in DOMAIN register \ {IdOf(entry)} |-> register[i]]

\* Thread t lets go of what the closure of x holds: when it was the last
\* reference, the destructor of that object starts on t.
Release(t, x, stillHeld) ==
    LET y == captured[x]
        last == y # None /\ y \notin stillHeld /\ \A z \in Object \ {x} : captured[z] # y
    IN
    /\ captured' = [captured EXCEPT ![x] = None]
    /\ dying' = [dying EXCEPT ![t] = IF last THEN y ELSE None]
    /\ life' = IF last THEN [life EXCEPT ![y] = "dead"] ELSE life

Idle(t) == dying[t] = None /\ (t \in Strand => giving[t] = None)

-----------------------------------------------------------------------------
(* The program.                                                             *)

Construct(x) ==
    /\ phase = "open" /\ Idle(Main) /\ life[x] = "unborn"
    /\ Take([object |-> x, final |-> FALSE])
    /\ life' = [life EXCEPT ![x] = "alive"]
    /\ held' = held \cup {x}
    /\ UNCHANGED <<mutex, captured, dying, queued, giving, service>>

\* recv, accept, ...: the callback holds an object y, or nothing.
StartOperation(x) ==
    /\ phase = "open" /\ Idle(Main) /\ x \in held /\ captured[x] = None
    /\ \E y \in Captures[x] : life[y] = "alive" /\ captured' = [captured EXCEPT ![x] = y]
    /\ UNCHANGED <<register, nextId, mutex, held, life, dying, queued, giving, service>>

\* The program lets go of x, on its own thread or in a callback.
Drop(t, x) ==
    /\ phase = "open" /\ Idle(t) /\ x \in held
    /\ held' = held \ {x}
    /\ IF \E z \in Object : captured[z] = x
       THEN UNCHANGED <<life, dying>>
       ELSE /\ life' = [life EXCEPT ![x] = "dead"]
            /\ dying' = [dying EXCEPT ![t] = x]
    /\ UNCHANGED <<register, nextId, mutex, captured, queued, giving, service>>

\* The destructor of the io object: dispose takes the final event and enqueues
\* it for deletion.
Dispose(t) ==
    LET x == dying[t] IN
    /\ x # None
    /\ Take([object |-> x, final |-> TRUE])
    /\ queued' = queued \cup {x}
    /\ dying' = [dying EXCEPT ![t] = None]
    /\ UNCHANGED <<mutex, captured, held, life, giving, service>>

-----------------------------------------------------------------------------
(* The strands.                                                             *)

\* An operation has completed: `holder` releases the closure, with no lock held.
Complete(s, x) ==
    /\ phase = "open" /\ Idle(s) /\ captured[x] # None
    /\ Release(s, x, held)
    /\ UNCHANGED <<register, nextId, mutex, held, queued, giving, service>>

\* A final event: give(evt) locks ...
GiveLock(s) ==
    /\ phase = "open" /\ Idle(s) /\ mutex = None
    /\ \E x \in queued :
        /\ queued' = queued \ {x}
        /\ giving' = [giving EXCEPT ![s] = [object |-> x, step |-> "erase"]]
    /\ mutex' = s
    /\ UNCHANGED <<register, nextId, captured, held, life, dying, service>>

\* ... and erases the event, which releases an operation that never completed.
GiveErase(s) ==
    LET x == giving[s].object IN
    /\ giving[s] # None /\ giving[s].step = "erase"
    /\ register' = Erased([object |-> x, final |-> FALSE])
    /\ Release(s, x, held)
    /\ giving' = [giving EXCEPT ![s].step = "unlock"]
    /\ UNCHANGED <<nextId, mutex, held, queued, service>>

GiveUnlock(s) ==
    /\ giving[s] # None /\ giving[s].step = "unlock" /\ dying[s] = None
    /\ mutex' = None
    /\ giving' = [giving EXCEPT ![s].step = "final"]
    /\ UNCHANGED <<register, nextId, captured, held, life, dying, queued, service>>

\* give(final_evt): its closure holds raw pointers only.
GiveFinal(s) ==
    /\ giving[s] # None /\ giving[s].step = "final" /\ mutex = None
    /\ register' = Erased([object |-> giving[s].object, final |-> TRUE])
    /\ giving' = [giving EXCEPT ![s] = None]
    /\ UNCHANGED <<nextId, mutex, captured, held, life, dying, queued, service>>

-----------------------------------------------------------------------------
(* The destructor of the service, alone.                                    *)

\* close does not lock.  Mutant: it does.
CloseLocks == Main
CloseDoesNotLock == mutex

CloseBegin ==
    /\ phase = "open" /\ held = {} /\ \A t \in Thread : Idle(t)
    /\ phase' = "closing"
    /\ mutex' = CloseDoesNotLock
    /\ UNCHANGED <<register, nextId, captured, held, life, dying, queued, giving, cursor>>

\* The loop over a growing map: what is taken meanwhile comes after the iterator.
Unvisited == {i \in DOMAIN register : i >= cursor}

CloseReset ==
    /\ phase = "closing" /\ dying[Main] = None
    /\ \E i \in Unvisited :
        /\ \A j \in Unvisited : i <= j
        /\ cursor' = i + 1
        /\ IF register[i].final
           THEN UNCHANGED <<captured, dying, life>>
           ELSE Release(Main, register[i].object, held)
    /\ UNCHANGED <<register, nextId, mutex, held, queued, giving, phase>>

\* Mutant: clear without the loop.
NoLoop == TRUE
LoopDone == Unvisited = {}

CloseClear ==
    /\ phase = "closing" /\ dying[Main] = None /\ LoopDone
    /\ register' = [i \in {} |-> None]
    /\ phase' = "closed"
    /\ UNCHANGED <<nextId, mutex, captured, held, life, dying, queued, giving, cursor>>

-----------------------------------------------------------------------------
Program == \E x \in Object : Construct(x) \/ StartOperation(x) \/ \E t \in Thread : Drop(t, x)
Give(s) == GiveLock(s) \/ GiveErase(s) \/ GiveUnlock(s) \/ GiveFinal(s)
Close == CloseBegin \/ CloseReset \/ CloseClear

Next == \/ Program
        \/ \E t \in Thread : Dispose(t)
        \/ \E s \in Strand : Give(s) \/ \E x \in Object : Complete(s, x)
        \/ Close

Spec == Init /\ [][Next]_vars

\* Strands and destructors go on; the mutex is free again and again, and each
\* thread that wants it gets it. The program need not close the service.
Fairness ==
    /\ \A t \in Thread : SF_vars(Dispose(t))
    /\ \A s \in Strand : SF_vars(Give(s))

FairSpec == Spec /\ Fairness

-----------------------------------------------------------------------------
(* Properties.                                                              *)

\* "they may take new events for deletion and that will cause a deadlock": no
\* thread asks for the registrar's mutex, which is not recursive, while it holds it.
NoSelfDeadlock == \A t \in Thread : dying[t] # None => mutex # t

\* An event is in the registrar exactly once from its take to its give: erase by
\* id never hits another event, and nothing is given twice.
OwnedOnce ==
    phase # "closed" =>
    \A x \in Object :
        LET own(final) == Cardinality({i \in DOMAIN register :
                              register[i].object = x /\ register[i].final = final})
            erased == \E s \in Strand : /\ giving[s] # None /\ giving[s].object = x
                                        /\ giving[s].step # "erase"
        IN  /\ life[x] = "alive" => own(FALSE) = 1 /\ own(TRUE) = 0
            /\ x \in queued => own(FALSE) = 1 /\ own(TRUE) = 1
            /\ erased => own(FALSE) = 0 /\ own(TRUE) = 1

\* "we are now sure that all objects has enqueued their deletion events": when the
\* map is cleared no closure, hence no object, is left to be destroyed by it.
NothingLeftToClear == phase = "closed" => \A x \in Object : captured[x] = None /\ life[x] # "alive"

\* The events of a destroyed object leave the registrar.
Reclaimed ==
    \A x \in Object : life[x] = "dead" ~>
        \/ phase # "open"
        \/ \A i \in DOMAIN register : register[i].object # x
=============================================================================
