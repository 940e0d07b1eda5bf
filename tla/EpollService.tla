---------------------------- MODULE EpollService ----------------------------
(***************************************************************************)
(* The conveyor of the epoll back-end: how an operation started on an io    *)
(* object (timer, acceptor, connector, tcp socket) travels                  *)
(*                                                                          *)
(*   user thread -> epoll -> reactor thread -> task threads -> strand       *)
(*                                                                          *)
(* and how the destructor of the object sends its final events along the    *)
(* same way, so that the registrar takes an event back only when nothing    *)
(* refers to it any more.  Starting and stopping the threads is not here.   *)
(***************************************************************************)
EXTENDS Naturals, Sequences, FiniteSets

CONSTANTS
    Desc,         \* the io objects; each owns one reactor_io_descriptor
    Kind,         \* Kind[d]: "timer", "acceptor", "connector" or "tcp"
    Strand,       \* the completion strands, one thread each
    StrandOf,     \* StrandOf[d]: the strand given to the object's constructor
    Worker,       \* the reactor task threads
    Main,         \* the thread of the program outside every callback
    None,         \* no object, no thread
    MayUse,       \* MayUse[d]: the threads that start operations on d
    MayDestroy,   \* MayDestroy[d]: the threads that run the destructor of d
    FullDuplex,   \* may a receive and a send of one socket overlap?
    ArmMayFail,   \* may epoll_ctl fail for want of memory?
    HangUps,      \* the objects whose file can report EPOLLHUP or EPOLLERR
    BareHangUps,  \* ... and without a bit that was asked for (a socket that
                  \* does not listen or is not connected)
    MaxOps        \* bound: operations started per event

Thread == Strand \cup {Main}
Bit == {"IN", "OUT"}
Flag == Bit \cup {"HUP", "ERR"}

ASSUME ServiceAssumption ==
    /\ Kind \in [Desc -> {"timer", "acceptor", "connector", "tcp"}]
    /\ StrandOf \in [Desc -> Strand]
    /\ Main \notin Strand
    /\ None \notin Desc \cup Thread
    /\ None \notin Desc \X Bit
    /\ None \notin [event : Desc \X Bit, code : {"OK", "ERROR", "FINAL"}]
    /\ MayUse \in [Desc -> SUBSET Thread]
    /\ MayDestroy \in [Desc -> SUBSET Thread]
    /\ FullDuplex \in BOOLEAN
    /\ ArmMayFail \in BOOLEAN
    /\ HangUps \subseteq Desc
    /\ BareHangUps \subseteq HangUps
    /\ MaxOps \in Nat

(***************************************************************************)
(* A descriptor has a read event, a write event or both: an event is its    *)
(* descriptor and its bit of the event mask.                                *)
(***************************************************************************)
Bits(d) == CASE Kind[d] = "connector" -> {"OUT"}
             [] Kind[d] = "tcp" -> Bit
             [] OTHER -> {"IN"}
Event == {e \in Desc \X Bit : e[2] \in Bits(e[1])}
EventsOf(d) == {d} \X Bits(d)

Report == [desc : Desc, events : SUBSET Flag]
Task == [event : Event, code : {"OK", "ERROR", "FINAL"}]
Completion == [event : Event, final : BOOLEAN]

VARIABLES
    interest,    \* kernel: the bits armed for d, {} once delivered or removed
    fdOpen,      \* kernel: is the file descriptor of d open?
    mask,        \* reactor_io_descriptor::event_mask
    inScope,     \* reactor_io_descriptor::in_scope
    owner,       \* the thread holding reactor_io_descriptor::in_scope_mtx
    react,       \* reactor_event::react: the operation it captures, 0 if empty
    complete,    \* reactor_event::complete: likewise
    hasActive,   \* reactor_event::has_active_event
    registered,  \* events in event_registrar::_register
    finals,      \* events whose final event is in event_registrar::_register
    deletion,    \* epoll_service::_deletion_queue
    wake,        \* kernel: bytes in the interrupter's pipe?
    tasks,       \* epoll_service::_reactor_task_queue
    completion,  \* completion_strand_impl::_completion_queue
    rpc, rdesc, revents, rtodo, batch, woken,  \* the reactor thread
    worker,      \* the task a reactor task thread has dequeued, or None
    running,     \* the event whose callback the strand runs, or None
    upc, uobj, ubits,                          \* the call a thread is making
    issued, called  \* history: operations started, callbacks run

kernel == <<interest, fdOpen>>
events == <<react, complete, hasActive>>
register == <<registered, finals>>
reactor == <<rpc, rdesc, revents, rtodo, batch, woken>>
user == <<upc, uobj, ubits>>
history == <<issued, called>>
vars == <<kernel, mask, inScope, owner, events, register, deletion, wake, tasks,
          completion, reactor, worker, running, user, history>>

Init ==
    /\ interest = [d \in Desc |-> {}]
    /\ fdOpen \in [Desc -> BOOLEAN]   \* a constructor ignores a failed open
    /\ mask = [d \in Desc |-> {}]
    /\ inScope = [d \in Desc |-> TRUE]
    /\ owner = [d \in Desc |-> None]
    /\ react = [e \in Event |-> 0]
    /\ complete = [e \in Event |-> 0]
    /\ hasActive = [e \in Event |-> FALSE]
    /\ registered = Event
    /\ finals = {}
    /\ deletion = <<>>
    /\ wake = FALSE
    /\ tasks = <<>>
    /\ completion = [s \in Strand |-> <<>>]
    /\ rpc = "wait" /\ rdesc = None /\ revents = {} /\ rtodo = {}
    /\ batch = {} /\ woken = FALSE
    /\ worker = [w \in Worker |-> None]
    /\ running = [s \in Strand |-> None]
    /\ upc = [c \in Thread |-> "idle"]
    /\ uobj = [c \in Thread |-> None]
    /\ ubits = [c \in Thread |-> {}]
    /\ issued = [e \in Event |-> 0]
    /\ called = [e \in Event |-> 0]

-----------------------------------------------------------------------------
(* Threads of the program: inside a callback of their strand, or Main.      *)

InCallbackOf(c, d) == c \in Strand /\ running[c] # None /\ running[c][1] = d
MayCall(c) == upc[c] = "idle" /\ (c \in Strand => running[c] # None)

\* No other thread is in a call on d, but for a destructor that waits for the
\* lock under which c runs a callback of d.
SoleUser(c, d) ==
    \A o \in Thread \ {c} :
        uobj[o] = d => upc[o] = "lock" /\ InCallbackOf(c, d)

Pending(e) == issued[e] # called[e]

Return(c) ==
    /\ upc' = [upc EXCEPT ![c] = "idle"]
    /\ uobj' = [uobj EXCEPT ![c] = None]
    /\ ubits' = [ubits EXCEPT ![c] = {}]

\* recv, send, accept, connect, timeout: set react and the mask bit, and read
\* the whole mask as the argument of epoll_impl::arm.
Initiate(c, e) ==
    LET d == e[1] IN
    /\ MayCall(c) /\ c \in MayUse[d] /\ inScope[d] /\ SoleUser(c, d)
    /\ ~Pending(e) /\ issued[e] < MaxOps
    /\ ~FullDuplex => \A b \in EventsOf(d) : ~Pending(b)
    /\ react' = [react EXCEPT ![e] = issued[e] + 1]
    /\ issued' = [issued EXCEPT ![e] = @ + 1]
    /\ mask' = [mask EXCEPT ![d] = @ \cup {e[2]}]
    /\ upc' = [upc EXCEPT ![c] = IF e[2] = "IN" THEN "armIN" ELSE "armOUT"]
    /\ uobj' = [uobj EXCEPT ![c] = d]
    /\ ubits' = [ubits EXCEPT ![c] = mask[d] \cup {e[2]}]
    /\ UNCHANGED <<kernel, inScope, owner, complete, hasActive, register, deletion,
                   wake, tasks, completion, reactor, worker, running, called>>

ArmedEvent(c) == <<uobj[c], IF upc[c] = "armIN" THEN "IN" ELSE "OUT">>

\* epoll_ctl with the mask that was read: MOD, or ADD if the file is not there.
Arm(c) ==
    LET d == uobj[c] IN
    /\ upc[c] \in {"armIN", "armOUT"} /\ fdOpen[d]
    /\ interest' = [interest EXCEPT ![d] = ubits[c]]
    /\ Return(c)
    /\ UNCHANGED <<fdOpen, mask, inScope, owner, events, register, deletion, wake,
                   tasks, completion, reactor, worker, running, history>>

\* epoll_ctl failed: for_completion on the calling thread. The mask keeps the
\* bit and has_active_event is not set.
ArmFails(c) ==
    LET e == ArmedEvent(c)
        s == StrandOf[uobj[c]]
    IN
    /\ upc[c] \in {"armIN", "armOUT"} /\ (fdOpen[uobj[c]] => ArmMayFail)
    /\ complete' = [complete EXCEPT ![e] = issued[e]]
    /\ react' = [react EXCEPT ![e] = 0]
    /\ completion' = [completion EXCEPT ![s] = Append(@, [event |-> e, final |-> FALSE])]
    /\ Return(c)
    /\ UNCHANGED <<kernel, mask, inScope, owner, hasActive, register, deletion, wake,
                   tasks, reactor, worker, running, history>>

\* The destructor of the io object, up to the lock of in_scope_mtx.
DestroyBegin(c, d) ==
    /\ MayCall(c) /\ c \in MayDestroy[d] /\ inScope[d]
    /\ \A o \in Thread : uobj[o] # d
    /\ upc' = [upc EXCEPT ![c] = "lock"]
    /\ uobj' = [uobj EXCEPT ![c] = d]
    /\ UNCHANGED <<ubits, kernel, mask, inScope, owner, events, register, deletion,
                   wake, tasks, completion, reactor, worker, running, history>>

\* in_scope_mtx is recursive: free, or already this thread's.  Mutants: a plain
\* mutex, and a destructor that does not lock.
CanLockPlain(c, d) == owner[d] = None
CanLockNever(c, d) == TRUE
CanLock(c, d) == owner[d] \in {None, c}

\* in_scope = false, epoll remove.
DestroyRemove(c) ==
    LET d == uobj[c] IN
    /\ upc[c] = "lock" /\ CanLock(c, d)
    /\ owner' = [owner EXCEPT ![d] = c]
    /\ inScope' = [inScope EXCEPT ![d] = FALSE]
    /\ interest' = [interest EXCEPT ![d] = {}]
    /\ upc' = [upc EXCEPT ![c] = "close"]
    /\ UNCHANGED <<uobj, ubits, fdOpen, mask, events, register, deletion, wake, tasks,
                   completion, reactor, worker, running, history>>

\* ::close takes the file out of the epoll instance as well.
DestroyClose(c) ==
    LET d == uobj[c] IN
    /\ upc[c] = "close"
    /\ fdOpen' = [fdOpen EXCEPT ![d] = FALSE]
    /\ interest' = [interest EXCEPT ![d] = {}]
    /\ upc' = [upc EXCEPT ![c] = "dispose"]
    /\ ubits' = [ubits EXCEPT ![c] = Bits(d)]
    /\ UNCHANGED <<uobj, mask, inScope, owner, events, register, deletion, wake, tasks,
                   completion, reactor, worker, running, history>>

\* Receiver before sender.
First(bits) == IF "IN" \in bits THEN "IN" ELSE "OUT"

\* dispose: take the final event and enqueue it for deletion. The reactor holds
\* the lock of the deletion queue while it empties it.
Dispose(c) ==
    LET e == <<uobj[c], First(ubits[c])>> IN
    /\ upc[c] = "dispose" /\ ubits[c] # {} /\ rpc # "delete"
    /\ finals' = finals \cup {e}
    /\ deletion' = Append(deletion, e)
    /\ ubits' = [ubits EXCEPT ![c] = @ \ {e[2]}]
    /\ upc' = [upc EXCEPT ![c] = "interrupt"]
    /\ UNCHANGED <<uobj, kernel, mask, inScope, owner, events, registered, wake, tasks,
                   completion, reactor, worker, running, history>>

Interrupt(c) ==
    /\ upc[c] = "interrupt"
    /\ wake' = TRUE
    /\ upc' = [upc EXCEPT ![c] = "dispose"]
    /\ UNCHANGED <<uobj, ubits, kernel, mask, inScope, owner, events, register, deletion,
                   tasks, completion, reactor, worker, running, history>>

\* A callback of d around the destructor keeps the recursive lock.  Mutant: the
\* lock does not count.
OwnerWithoutCount(c, d) == None
OwnerAfterUnlock(c, d) == IF InCallbackOf(c, d) THEN c ELSE None

DestroyEnd(c) ==
    LET d == uobj[c] IN
    /\ upc[c] = "dispose" /\ ubits[c] = {}
    /\ owner' = [owner EXCEPT ![d] = OwnerAfterUnlock(c, d)]
    /\ Return(c)
    /\ UNCHANGED <<kernel, mask, inScope, events, register, deletion, wake, tasks,
                   completion, reactor, worker, running, history>>

-----------------------------------------------------------------------------
(* The reactor thread.                                                      *)

\* What epoll can say of an armed file: some of the armed bits, and a hang-up or
\* an error whether asked for or not.
Reportable(d) ==
    {f \in SUBSET (interest[d] \cup (IF d \in HangUps THEN {"HUP", "ERR"} ELSE {})) :
        f # {} /\ (d \notin BareHangUps => f \cap Bit # {})}

\* epoll_wait returns some of the ready files, oneshot, and maybe the pipe, which
\* is level-triggered.
Wait ==
    /\ rpc = "wait"
    /\ \E D \in SUBSET {d \in Desc : interest[d] # {}}, w \in {FALSE, wake} :
        /\ D # {} \/ w
        /\ \E ready \in {f \in [D -> SUBSET Flag] : \A d \in D : f[d] \in Reportable(d)} :
            batch' = {[desc |-> d, events |-> ready[d]] : d \in D}
        /\ interest' = [d \in Desc |-> IF d \in D THEN {} ELSE interest[d]]
        /\ woken' = w
    /\ rpc' = "events"
    /\ UNCHANGED <<fdOpen, mask, inScope, owner, events, register, deletion, wake, tasks,
                   completion, rdesc, revents, rtodo, worker, running, user, history>>

\* A signal ends epoll_wait: no report, and the deletion queue is next.
WaitInterrupted ==
    /\ rpc = "wait"
    /\ rpc' = "delete"
    /\ UNCHANGED <<kernel, mask, inScope, owner, events, register, deletion, wake, tasks,
                   completion, rdesc, revents, rtodo, batch, woken, worker, running, user, history>>

\* The report of the interrupter: read until EAGAIN.
Drain ==
    /\ rpc = "events" /\ woken
    /\ wake' = FALSE
    /\ woken' = FALSE
    /\ UNCHANGED <<kernel, mask, inScope, owner, events, register, deletion, tasks,
                   completion, rpc, rdesc, revents, rtodo, batch, worker, running, user, history>>

\* clear_read_mask, clear_write_mask.  Mutant: the mask is not cleared.
MaskKept(d, reported) == mask[d]
MaskLeft(d, reported) == mask[d] \ reported

\* The events of a report that get their react.  Mutant: read events only.
ReadDispatched(reported) == reported \cap {"IN"}
Dispatched(reported) == reported \cap Bit

\* What is left of the mask has to be re-armed first.
ClearMask ==
    /\ rpc = "events"
    /\ \E r \in batch :
        LET left == MaskLeft(r.desc, r.events) IN
        /\ batch' = batch \ {r}
        /\ rdesc' = r.desc
        /\ revents' = r.events
        /\ mask' = [mask EXCEPT ![r.desc] = left]
        /\ rtodo' = IF left # {} THEN left ELSE Dispatched(r.events)
        /\ rpc' = IF left # {} THEN "rearm" ELSE "mark"
    /\ UNCHANGED <<kernel, inScope, owner, events, register, deletion, wake, tasks,
                   completion, woken, worker, running, user, history>>

\* Mutant: the file stays disabled by EPOLLONESHOT.
NotRearmed == {}
Rearmed == rtodo

Rearm ==
    /\ rpc = "rearm" /\ fdOpen[rdesc]
    /\ interest' = [interest EXCEPT ![rdesc] = Rearmed]
    /\ rtodo' = Dispatched(revents)
    /\ rpc' = "mark"
    /\ UNCHANGED <<fdOpen, mask, inScope, owner, events, register, deletion, wake, tasks,
                   completion, rdesc, revents, batch, woken, worker, running, user, history>>

\* The file is closed: react(EBADF) on every event of the descriptor.
RearmFails ==
    /\ rpc = "rearm" /\ (fdOpen[rdesc] => ArmMayFail)
    /\ revents' = {"EBADF"}
    /\ rtodo' = Bits(rdesc)
    /\ rpc' = "mark"
    /\ UNCHANGED <<kernel, mask, inScope, owner, events, register, deletion, wake, tasks,
                   completion, rdesc, batch, woken, worker, running, user, history>>

\* has_active_event is set before react is enqueued, for the read event first.
MarkActive ==
    /\ rpc = "mark" /\ rtodo # {}
    /\ hasActive' = [hasActive EXCEPT ![<<rdesc, First(rtodo)>>] = TRUE]
    /\ rpc' = "dispatch"
    /\ UNCHANGED <<kernel, mask, inScope, owner, react, complete, register, deletion, wake,
                   tasks, completion, rdesc, revents, rtodo, batch, woken, worker, running,
                   user, history>>

\* EPOLLHUP and EPOLLERR are the error codes.  Mutant: the flags as they came.
CodeOfFlags(b) == IF "HUP" \in revents THEN "HUP" ELSE "OK"
CodeOf(b) == IF \/ "EBADF" \in revents
                \/ b = "IN" /\ "HUP" \in revents
                \/ b = "OUT" /\ "ERR" \in revents
             THEN "ERROR" ELSE "OK"

Dispatch ==
    LET b == First(rtodo) IN
    /\ rpc = "dispatch"
    /\ tasks' = Append(tasks, [event |-> <<rdesc, b>>, code |-> CodeOf(b)])
    /\ rtodo' = rtodo \ {b}
    /\ rpc' = "mark"
    /\ UNCHANGED <<kernel, mask, inScope, owner, events, register, deletion, wake, completion,
                   rdesc, revents, batch, woken, worker, running, user, history>>

ReportDone ==
    /\ rpc = "mark" /\ rtodo = {}
    /\ rpc' = "events"
    /\ rdesc' = None
    /\ revents' = {}
    /\ UNCHANGED <<kernel, mask, inScope, owner, events, register, deletion, wake, tasks,
                   completion, rtodo, batch, woken, worker, running, user, history>>

\* The loop over the reports has ended.  Mutant: only the pipe has been read.
PipeRead == ~woken
BatchDone == batch = {} /\ ~woken

\* process_deletion_queue, under the lock of the queue.
StartDeletion ==
    /\ rpc = "events" /\ BatchDone
    /\ rpc' = "delete"
    /\ UNCHANGED <<kernel, mask, inScope, owner, events, register, deletion, wake, tasks,
                   completion, rdesc, revents, rtodo, batch, woken, worker, running, user, history>>

Delete ==
    /\ rpc = "delete" /\ deletion # <<>>
    /\ deletion' = Tail(deletion)
    /\ tasks' = Append(tasks, [event |-> Head(deletion), code |-> "FINAL"])
    /\ UNCHANGED <<kernel, mask, inScope, owner, events, register, wake, completion, reactor,
                   worker, running, user, history>>

\* The loop runs until the queue is empty.  Mutant: one final event per round.
DeletionStops == TRUE
DeletionDone == deletion = <<>>

EndDeletion ==
    /\ rpc = "delete" /\ DeletionDone
    /\ rpc' = "wait"
    /\ UNCHANGED <<kernel, mask, inScope, owner, events, register, deletion, wake, tasks,
                   completion, rdesc, revents, rtodo, batch, woken, worker, running, user, history>>

-----------------------------------------------------------------------------
(* The reactor task threads.                                                *)

TakeTask(w) ==
    /\ worker[w] = None /\ tasks # <<>>
    /\ worker' = [worker EXCEPT ![w] = Head(tasks)]
    /\ tasks' = Tail(tasks)
    /\ UNCHANGED <<kernel, mask, inScope, owner, events, register, deletion, wake, completion,
                   reactor, running, user, history>>

\* react takes in_scope_mtx, in do_react, only for a ready file; connect never.
Locks(t) == t.code = "OK" /\ Kind[t.event[1]] # "connector"

\* react, then for_completion. An empty react is std::bad_function_call in a
\* noexcept function: the program ends (NoEmptyCall says it never comes to it).
React(w) ==
    LET t == worker[w]
        e == t.event
        s == StrandOf[e[1]]
    IN
    /\ t # None /\ t.code # "FINAL" /\ react[e] # 0
    /\ Locks(t) => owner[e[1]] = None
    /\ complete' = [complete EXCEPT ![e] = react[e]]
    /\ react' = [react EXCEPT ![e] = 0]
    /\ completion' = [completion EXCEPT ![s] = Append(@, [event |-> e, final |-> FALSE])]
    /\ worker' = [worker EXCEPT ![w] = None]
    /\ UNCHANGED <<kernel, mask, inScope, owner, hasActive, register, deletion, wake, tasks,
                   reactor, running, user, history>>

\* The task of process_deletion_queue: evt->strand->enqueue(evt).
EnqueueFinal(w) ==
    LET t == worker[w]
        s == StrandOf[t.event[1]]
    IN
    /\ t # None /\ t.code = "FINAL"
    /\ completion' = [completion EXCEPT ![s] = Append(@, [event |-> t.event, final |-> TRUE])]
    /\ worker' = [worker EXCEPT ![w] = None]
    /\ UNCHANGED <<kernel, mask, inScope, owner, events, register, deletion, wake, tasks,
                   reactor, running, user, history>>

-----------------------------------------------------------------------------
(* The strands.                                                             *)

IsNext(s, final) ==
    running[s] = None /\ completion[s] # <<>> /\ Head(completion[s]).final = final

\* Mutants: the callback runs for a destroyed object as well; the event stays
\* active.
CalledAnyway(d) == TRUE
MayCallBack(d) == inScope[d]
StillActive(e) == hasActive
NoLongerActive(e) == [hasActive EXCEPT ![e] = FALSE]

\* evt->complete(): moved out, then under in_scope_mtx the callback if in scope.
Complete(s) ==
    LET e == Head(completion[s]).event
        d == e[1]
    IN
    /\ IsNext(s, FALSE) /\ owner[d] = None /\ complete[e] # 0
    /\ completion' = [completion EXCEPT ![s] = Tail(@)]
    /\ complete' = [complete EXCEPT ![e] = 0]
    /\ hasActive' = NoLongerActive(e)
    /\ IF MayCallBack(d)
       THEN /\ called' = [called EXCEPT ![e] = complete[e]]
            /\ running' = [running EXCEPT ![s] = e]
            /\ owner' = [owner EXCEPT ![d] = s]
       ELSE UNCHANGED <<called, running, owner>>
    /\ UNCHANGED <<kernel, mask, inScope, react, register, deletion, wake, tasks, reactor,
                   worker, user, issued>>

\* The callback returns and the lock is released.
CallbackReturn(s) ==
    /\ running[s] # None /\ upc[s] = "idle"
    /\ owner' = [owner EXCEPT ![running[s][1]] = None]
    /\ running' = [running EXCEPT ![s] = None]
    /\ UNCHANGED <<kernel, mask, inScope, events, register, deletion, wake, tasks, completion,
                   reactor, worker, user, history>>

\* A final event waits for the active one.  Mutant: it does not.
NeverPostponed(e) == FALSE
Postponed(e) == hasActive[e]

\* complete of a final event: back to the end of the queue while the event is
\* active, else both events are given back and their closures destroyed.
Final(s) ==
    LET e == Head(completion[s]).event IN
    /\ IsNext(s, TRUE)
    /\ IF Postponed(e)
       THEN /\ completion' = [completion EXCEPT ![s] = Append(Tail(@), Head(@))]
            /\ UNCHANGED <<events, register>>
       ELSE /\ completion' = [completion EXCEPT ![s] = Tail(@)]
            /\ registered' = registered \ {e}
            /\ finals' = finals \ {e}
            /\ react' = [react EXCEPT ![e] = 0]
            /\ complete' = [complete EXCEPT ![e] = 0]
            /\ UNCHANGED hasActive
    /\ UNCHANGED <<kernel, mask, inScope, owner, deletion, wake, tasks, reactor, worker,
                   running, user, history>>

-----------------------------------------------------------------------------
Destroy(c) == DestroyRemove(c) \/ DestroyClose(c) \/ Dispose(c) \/ Interrupt(c) \/ DestroyEnd(c)
Call(c) == Arm(c) \/ ArmFails(c) \/ Destroy(c)
Begin(c) == (\E e \in Event : Initiate(c, e)) \/ (\E d \in Desc : DestroyBegin(c, d))
Reactor == \/ Wait \/ Drain \/ ClearMask \/ Rearm \/ RearmFails \/ MarkActive \/ Dispatch
           \/ ReportDone \/ StartDeletion \/ Delete \/ EndDeletion
TaskThread(w) == TakeTask(w) \/ React(w) \/ EnqueueFinal(w)
StrandThread(s) == Complete(s) \/ CallbackReturn(s) \/ Final(s)

Next == \/ \E c \in Thread : Begin(c) \/ Call(c)
        \/ Reactor
        \/ WaitInterrupted
        \/ \E w \in Worker : TaskThread(w)
        \/ \E s \in Strand : StrandThread(s)

Spec == Init /\ [][Next]_vars

\* Every thread the service or the program runs keeps running; nobody has to
\* start an operation or a destructor, and no signal has to arrive.  The reactor
\* takes the lock of the deletion queue again and again: a thread that wants it
\* gets it in between.
Fairness ==
    /\ WF_vars(Reactor)
    /\ \A c \in Thread : WF_vars(Call(c)) /\ SF_vars(Dispose(c))
    /\ \A w \in Worker : WF_vars(TaskThread(w))
    /\ \A s \in Strand : WF_vars(StrandThread(s))

FairSpec == Spec /\ Fairness

-----------------------------------------------------------------------------
(* Properties.                                                              *)

\* Every variable keeps the type of the object it stands for.
TypeOK ==
    /\ interest \in [Desc -> SUBSET Bit]
    /\ fdOpen \in [Desc -> BOOLEAN]
    /\ mask \in [Desc -> SUBSET Bit]
    /\ inScope \in [Desc -> BOOLEAN]
    /\ owner \in [Desc -> Thread \cup {None}]
    /\ react \in [Event -> Nat]
    /\ complete \in [Event -> Nat]
    /\ hasActive \in [Event -> BOOLEAN]
    /\ registered \subseteq Event
    /\ finals \subseteq Event
    /\ deletion \in Seq(Event)
    /\ wake \in BOOLEAN
    /\ tasks \in Seq(Task)
    /\ completion \in [Strand -> Seq(Completion)]
    /\ rpc \in {"wait", "events", "rearm", "mark", "dispatch", "delete"}
    /\ rdesc \in Desc \cup {None}
    /\ revents \subseteq Flag \cup {"EBADF"}
    /\ rtodo \subseteq Bit
    /\ batch \subseteq Report
    /\ woken \in BOOLEAN
    /\ worker \in [Worker -> Task \cup {None}]
    /\ running \in [Strand -> Event \cup {None}]
    /\ upc \in [Thread -> {"idle", "armIN", "armOUT", "lock", "close", "dispose", "interrupt"}]
    /\ uobj \in [Thread -> Desc \cup {None}]
    /\ ubits \in [Thread -> SUBSET Bit]
    /\ issued \in [Event -> Nat]
    /\ called \in [Event -> Nat]

\* No thread handles a bit, hence an event, that its object does not have.
BitsOK ==
    /\ \A d \in Desc : interest[d] \subseteq Bits(d) /\ mask[d] \subseteq Bits(d)
    /\ \A r \in batch : r.events \cap Bit \subseteq Bits(r.desc)
    /\ rpc \in {"rearm", "mark", "dispatch"} => rdesc # None
    /\ rdesc # None => revents \cap Bit \subseteq Bits(rdesc) /\ rtodo \subseteq Bits(rdesc)
    /\ rpc = "dispatch" => rtodo # {}
    /\ \A c \in Thread : /\ upc[c] = "idle" => ubits[c] = {}
                         /\ upc[c] # "idle" => uobj[c] # None
                         /\ uobj[c] # None => ubits[c] \subseteq Bits(uobj[c])
                         /\ upc[c] = "armIN" => "IN" \in Bits(uobj[c])
                         /\ upc[c] = "armOUT" => "OUT" \in Bits(uobj[c])

\* The events a raw pointer still leads to: from epoll and its reports through
\* the descriptor, from the queues and from the threads that run their entries.
Referenced ==
    LET pointed == {d \in Desc : \/ interest[d] # {}
                                 \/ rdesc = d
                                 \/ \E r \in batch : r.desc = d}
    IN  (UNION {EventsOf(d) : d \in pointed})
        \cup {deletion[i] : i \in DOMAIN deletion}
        \cup {tasks[i].event : i \in DOMAIN tasks}
        \cup {worker[w].event : w \in {w \in Worker : worker[w] # None}}
        \cup (UNION {{completion[s][i].event : i \in DOMAIN completion[s]} : s \in Strand})
        \cup {running[s] : s \in {s \in Strand : running[s] # None}}

\* The events whose final event is in a queue or in a task thread.
FinalReferenced ==
    {deletion[i] : i \in DOMAIN deletion}
    \cup {tasks[i].event : i \in {i \in DOMAIN tasks : tasks[i].code = "FINAL"}}
    \cup {worker[w].event : w \in {w \in Worker : worker[w] # None /\ worker[w].code = "FINAL"}}
    \cup (UNION {{completion[s][i].event : i \in {j \in DOMAIN completion[s] :
                                                      completion[s][j].final}} : s \in Strand})

\* No use after give: event_registrar::give erases an event only when no raw
\* pointer to it, or to its final event, is left in epoll, a queue or a thread.
NoDangling == Referenced \subseteq registered /\ FinalReferenced \subseteq finals \cap registered

\* react and complete are called only while they hold a function: calling them
\* when empty throws out of a noexcept function. This is the "only call react
\* once" of epoll_reactor::wait.
NoEmptyCall ==
    /\ \A w \in Worker :
          worker[w] # None /\ worker[w].code # "FINAL" => react[worker[w].event] # 0
    /\ \A s \in Strand : IsNext(s, FALSE) => complete[Head(completion[s]).event] # 0

\* process_deletion_queue's comment: once the final event of an object has left
\* the deletion queue, neither epoll nor the reactor knows the object any more.
FinalAfterReports ==
    \A e \in Event :
        /\ e \in FinalReferenced
        /\ \A i \in DOMAIN deletion : deletion[i] # e
        => /\ interest[e[1]] = {} /\ rdesc # e[1]
           /\ \A r \in batch : r.desc # e[1]

\* "EPOLLONESHOT requires us to re-arm": an operation whose callback is still to
\* come is armed, in a call, in a report or somewhere on the conveyor.
NoLostOperation ==
    \A e \in Event :
        Pending(e) /\ inScope[e[1]] =>
            \/ e[2] \in interest[e[1]]
            \/ \E c \in Thread : upc[c] \in {"armIN", "armOUT"} /\ ArmedEvent(c) = e
            \/ \E r \in batch : r.desc = e[1]
            \/ rdesc = e[1] /\ (rpc = "rearm" \/ e[2] \in rtodo)
            \/ \E i \in DOMAIN tasks : tasks[i].event = e
            \/ \E w \in Worker : worker[w] # None /\ worker[w].event = e
            \/ complete[e] # 0

\* The reactor never goes to sleep on a final event: whenever it is about to wait
\* and the deletion queue is not empty, the pipe is readable or about to be.
NoLostWakeup ==
    rpc = "wait" /\ deletion # <<>> => wake \/ \E c \in Thread : upc[c] = "interrupt"

\* in_scope_mtx is held by the strand that runs a callback of the object and by
\* the thread in the object's destructor, so they are the same thread if both.
LockHeld ==
    /\ \A s \in Strand : running[s] # None => owner[running[s][1]] = s
    /\ \A c \in Thread : upc[c] \in {"close", "dispose", "interrupt"} => owner[uobj[c]] = c

\* A callback runs once per operation, in the order of the operations, and never
\* once the destructor has set in_scope to false.
CallbackOnce ==
    [][\A s \in Strand : running[s] = None /\ running'[s] # None =>
          LET e == running'[s]
          IN  called'[e] = called[e] + 1 /\ called'[e] <= issued[e] /\ inScope[e[1]]]_vars

\* An object goes out of scope while a callback of it runs only if it is that
\* callback that destroys it: other threads wait for the callback to return.
ScopeEndsOutsideCallbacks ==
    [][\A d \in Desc : inScope[d] /\ ~inScope'[d] =>
          \A s \in Strand : InCallbackOf(s, d) => uobj[s] = d]_vars

\* The conveyor keeps the promises of AsyncIo: callbacks, destructors and the
\* registrar of this module are its CallBack, Destroy and Reclaim.
Promise == INSTANCE AsyncIo WITH Object <- Desc, Operation <- Event,
               ObjectOf <- [e \in Event |-> e[1]], alive <- inScope, held <- registered
ImplementsAsyncIo == Promise!FairSpec

\* What epoll reports for an operation reaches its callback, unless the object is
\* destroyed first.
ReportedIsDelivered ==
    \A e \in Event :
        (\E r \in batch : r.desc = e[1] /\ e[2] \in r.events)
            ~> (~Pending(e) \/ ~inScope[e[1]])

\* Every event of a destroyed object is given back to the registrar.
DestroyedIsReclaimed ==
    \A d \in Desc : ~inScope[d] ~> registered \cap EventsOf(d) = {}

\* A destructor that waits for in_scope_mtx gets it and returns, also when it is
\* run by a callback of the object itself: the reason for the recursive mutex.
DestructorReturns == \A c \in Thread : upc[c] = "lock" ~> upc[c] = "idle"
=============================================================================
