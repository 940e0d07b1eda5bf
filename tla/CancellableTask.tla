--------------------------- MODULE CancellableTask ---------------------------
(***************************************************************************)
(* One cancellable_task and the tasks it has wrapped, on the queue of       *)
(* BlockingQueue: a wrapped task takes a reference to the shared state,     *)
(* locks its mutex and runs its body if the state is in scope; the          *)
(* destructor, called by any thread or by a body, takes the state out of    *)
(* scope under the same mutex.                                              *)
(***************************************************************************)
EXTENDS BlockingQueue

VARIABLES
    inScope,    \* cancellable_task_::_in_scope
    scopeMutex, \* the thread that holds _in_scope_mtx
    owned,      \* cancellable_task::_task refers to the state
    pinned,     \* the consumers whose `o` refers to it
    canceller,  \* the thread that is in the destructor
    wrapping,   \* the threads that are enqueuing a wrapped task
    wrapped,    \* the wrapped tasks
    place       \* how far the consumers are in a wrapped task

cvars == <<inScope, scopeMutex, owned, pinned, canceller, wrapping, wrapped, place>>
allVars == <<vars, cvars>>

CInit ==
    /\ Init
    /\ inScope = TRUE
    /\ scopeMutex = None
    /\ owned = TRUE
    /\ pinned = {}
    /\ canceller = None
    /\ wrapping = {} /\ wrapped = {}
    /\ place = [c \in Consumer |-> "outside"]

Move(c, from, to) == place[c] = from /\ place' = [place EXCEPT ![c] = to]

\* The state is destroyed with the last reference to it.
Exists == owned \/ pinned # {}

\* Code of the program: outside the tasks, in a task that is not wrapped, or in the
\* body of one that is; a thread in the destructor does nothing else.
Acts(t) ==
    /\ MayCall(t) /\ canceller # t
    /\ t \in Consumer /\ task[t] \in wrapped => place[t] = "body"

-----------------------------------------------------------------------------
(* Calls: enqueue of a plain or of a wrapped task, stop, and the destructor. *)

Enqueue(t) ==
    /\ Acts(t) /\ BeginEnqueue(t)
    /\ wrapping' \in {wrapping} \cup (IF owned /\ canceller = None THEN {wrapping \cup {t}} ELSE {})
    /\ UNCHANGED <<inScope, scopeMutex, owned, pinned, canceller, wrapped, place>>

Pushes(t) ==
    /\ Push(t)
    /\ wrapped' = IF t \in wrapping THEN wrapped \cup {pushed'} ELSE wrapped
    /\ wrapping' = wrapping \ {t}
    /\ UNCHANGED <<inScope, scopeMutex, owned, pinned, canceller, place>>

Destroy(t) ==
    /\ Acts(t) /\ owned /\ canceller = None
    /\ canceller' = t
    /\ UNCHANGED <<vars, inScope, scopeMutex, owned, pinned, wrapping, wrapped, place>>

\* cancel.  The mutex is not recursive: a body that calls it never gets it.  Mutant:
\* without the lock.
NotLocking(t) == TRUE
Locks(t) == scopeMutex = None

LockToCancel ==
    /\ canceller # None /\ inScope
    /\ Locks(canceller)
    /\ scopeMutex' = canceller
    /\ inScope' = FALSE
    /\ UNCHANGED <<vars, owned, pinned, canceller, wrapping, wrapped, place>>

Destroyed ==
    /\ canceller # None /\ scopeMutex = canceller /\ ~inScope
    /\ scopeMutex' = None
    /\ owned' = FALSE
    /\ canceller' = None
    /\ UNCHANGED <<vars, inScope, pinned, wrapping, wrapped, place>>

-----------------------------------------------------------------------------
(* The lambda that operator() returns, run by consumer c.                   *)

Runs(c) ==
    /\ RunTask(c)
    /\ place' = IF task[c] \in wrapped THEN [place EXCEPT ![c] = "begin"] ELSE place
    /\ UNCHANGED <<inScope, scopeMutex, owned, pinned, canceller, wrapping, wrapped>>

\* w.lock()
Pin(c) ==
    /\ IF Exists THEN Move(c, "begin", "lock") /\ pinned' = pinned \cup {c}
                 ELSE Move(c, "begin", "outside") /\ UNCHANGED pinned
    /\ UNCHANGED <<vars, inScope, scopeMutex, owned, canceller, wrapping, wrapped>>

\* Mutant: the flag is not looked at.
AnyScope == TRUE
InScope == inScope

Body(c) ==
    /\ scopeMutex = None
    /\ scopeMutex' = c
    /\ Move(c, "lock", IF InScope THEN "body" ELSE "unlock")
    /\ UNCHANGED <<vars, inScope, owned, pinned, canceller, wrapping, wrapped>>

BodyReturns(c) ==
    /\ pc[c] = "task" /\ canceller # c
    /\ Move(c, "body", "unlock")
    /\ UNCHANGED <<vars, inScope, scopeMutex, owned, pinned, canceller, wrapping, wrapped>>

\* The lock goes before the reference.  Mutant: it does not go.
KeptBy(c) == c
FreedBy(c) == None

Unlock(c) ==
    /\ Move(c, "unlock", "unpin")
    /\ scopeMutex' = FreedBy(c)
    /\ UNCHANGED <<vars, inScope, owned, pinned, canceller, wrapping, wrapped>>

Unpin(c) ==
    /\ Move(c, "unpin", "outside")
    /\ pinned' = pinned \ {c}
    /\ UNCHANGED <<vars, inScope, scopeMutex, owned, canceller, wrapping, wrapped>>

Returns(c) ==
    /\ place[c] = "outside" /\ canceller # c
    /\ TaskReturns(c)
    /\ UNCHANGED cvars

-----------------------------------------------------------------------------
Lambda(c) == Pin(c) \/ BodyReturns(c) \/ Unlock(c) \/ Unpin(c) \/ Returns(c) \/ Runs(c)
Queue(c) == (Loop(c) \/ Check(c) \/ Sleep(c) \/ Pop(c) \/ DropTask(c)) /\ UNCHANGED cvars
Call(t) == Pushes(t) \/ ((StopOwn(t) \/ Deactivate(t)) /\ UNCHANGED cvars)

CNext ==
    \/ \E t \in Thread : \/ Lock(t) /\ UNCHANGED cvars
                         \/ Acts(t) /\ BeginStop(t) /\ UNCHANGED cvars
                         \/ Call(t) \/ Enqueue(t) \/ Destroy(t)
    \/ \E c \in Consumer : \/ Lambda(c) \/ Body(c) \/ Queue(c)
                           \/ SpuriousWakeup(c) /\ UNCHANGED cvars
    \/ LockToCancel \/ Destroyed
    \/ Clear /\ UNCHANGED cvars

CSpec == CInit /\ [][CNext]_allVars

\* As for the queue, and as much for _in_scope_mtx.
CFairness ==
    /\ \A t \in Thread : SF_allVars(Lock(t) /\ UNCHANGED cvars) /\ WF_allVars(Call(t))
    /\ \A c \in Consumer : WF_allVars(Queue(c)) /\ WF_allVars(Lambda(c)) /\ SF_allVars(Body(c))
    /\ SF_allVars(LockToCancel) /\ WF_allVars(Destroyed)

CFairSpec == CSpec /\ CFairness

-----------------------------------------------------------------------------
(* Properties.                                                              *)

\* Once the destructor has returned no body runs and none begins: what the owner of
\* the cancellable_task destroys next is not used by a task.  And the mutex is not
\* destroyed while a thread holds it.
CancelIsFinal ==
    /\ ~owned => \A c \in Consumer : place[c] # "body"
    /\ scopeMutex # None => Exists

\* The destructor returns, unless a body calls it that runs under the mutex it needs.
CancelReturns == canceller # None /\ scopeMutex # canceller ~> ~owned
=============================================================================
