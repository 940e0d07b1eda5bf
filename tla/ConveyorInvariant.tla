------------------------- MODULE ConveyorInvariant -------------------------
(***************************************************************************)
(* Why the conveyor of EpollService is safe: an operation in progress is in *)
(* one place of it at a time, and so is the final event of a destroyed      *)
(* object, which follows the last operation and never overtakes it.         *)
(***************************************************************************)
EXTENDS EpollService

\* One operation of a descriptor at a time, and only its own bit in the mask: a
\* socket is not used in both directions at once, every report on it has a bit that
\* was asked for, and no failed epoll_ctl leaves its bit behind.  The other
\* objects have one event, and nothing is asked of them.
Simplex ==
    \A d \in Desc : Kind[d] = "tcp" => ~FullDuplex /\ ~ArmMayFail /\ d \notin BareHangUps

Arming == {"armIN", "armOUT"}

\* The operation of e has been started and neither react nor complete has run, or
\* react only.
Waiting(e) == Pending(e) /\ react[e] = issued[e] /\ complete[e] = 0
Reacted(e) == Pending(e) /\ react[e] = 0 /\ complete[e] = issued[e]

-----------------------------------------------------------------------------
(* Threads and their calls.                                                 *)

\* A destructor that waits for the lock is the only other call on an object, and
\* only while a callback of the object starts an operation.
WaitsFor(o, c) == upc[o] = "lock" /\ upc[c] \in Arming /\ InCallbackOf(c, uobj[c])

CallsOK ==
    \A c \in Thread :
        /\ upc[c] = "idle" => uobj[c] = None
        /\ upc[c] \in Arming \cup {"lock"} => inScope[uobj[c]]
        /\ upc[c] \in {"close", "dispose", "interrupt"} => ~inScope[uobj[c]]
        /\ upc[c] \in {"dispose", "interrupt"} => ~fdOpen[uobj[c]]
        /\ \A o \in Thread \ {c} :
              uobj[c] # None /\ uobj[o] = uobj[c] => WaitsFor(o, c) \/ WaitsFor(c, o)

\* A report is handled to its end before the next one and before the deletion queue,
\* and a closed file is not armed.
ReactorOK ==
    /\ \A d \in Desc : interest[d] # {} => fdOpen[d]
    /\ rpc \in {"wait", "delete"} => batch = {}
    /\ rpc \in {"wait", "delete", "events"} => rdesc = None

\* A strand is given its own events only.
StrandsOK ==
    \A s \in Strand :
        /\ \A i \in DOMAIN completion[s] : StrandOf[completion[s][i].event[1]] = s
        /\ running[s] # None => StrandOf[running[s][1]] = s /\ running[s] \in registered

-----------------------------------------------------------------------------
(* Operations.                                                              *)

\* A queue, or the tasks of the threads, has no entry of X, or at most one.
NoneOf(q, X) == \A i \in DOMAIN q : q[i] \notin X
AtMostOne(q, X) == \A i, j \in DOMAIN q : q[i] \in X /\ q[j] \in X => i = j
OnlyIf(here, q, X) == AtMostOne(q, X) /\ (~here => NoneOf(q, X))

\* The entries that are not final, of all events and of those of d.
Operations == [event : Event, code : {"OK", "ERROR"}]
Completions == [event : Event, final : {FALSE}]
OperationsOf(d) == {t \in Operations : t.event[1] = d}
CompletionsOf(d) == {x \in Completions : x.event[1] = d}

\* Callbacks lag one operation behind at most, react and complete hold nothing else.
CountsOK ==
    \A e \in Event :
        /\ issued[e] = called[e] \/ issued[e] = called[e] + 1
        /\ react[e] # 0 => Waiting(e)
        /\ complete[e] # 0 => Reacted(e)

\* A descriptor has one operation; as long as a socket is open, its mask as well.
OneOperation ==
    /\ \A d \in Desc : \A a, b \in Bits(d) : Pending(<<d, a>>) /\ Pending(<<d, b>>) => a = b
    /\ \A d \in Desc : Kind[d] = "tcp" /\ fdOpen[d] => \A b \in mask[d] : Waiting(<<d, b>>)

OperationPlace ==
    {"none", "call", "epoll", "report", "reactor", "task", "worker", "strand"}

\* The operation of d, if any, is in this place and in no other.  A failed epoll_ctl
\* apart, the mask of a socket is clear once its report has been handled.
OperationAt(d, place) ==
    /\ \A c \in Thread : upc[c] \in Arming /\ uobj[c] = d => place = "call"
    /\ interest[d] # {} => place = "epoll"
    /\ \A r \in batch : r.desc = d => place = "report"
    /\ rdesc = d /\ (rpc = "rearm" \/ rtodo # {}) => place = "reactor"
    /\ OnlyIf(place = "task", tasks, OperationsOf(d))
    /\ OnlyIf(place = "worker", worker, OperationsOf(d))
    /\ OnlyIf(place = "strand", completion[StrandOf[d]], CompletionsOf(d))
    /\ Kind[d] = "tcp" /\ fdOpen[d] /\ place \notin {"call", "epoll", "report"}
          => mask[d] = {}

OnePlace == \A d \in Desc : \E place \in OperationPlace : OperationAt(d, place)

\* In each place, what the next step of the operation relies on.
InCall ==
    \A c \in Thread : upc[c] \in Arming =>
        /\ Waiting(ArmedEvent(c))
        /\ fdOpen[uobj[c]] => ubits[c] = {ArmedEvent(c)[2]} /\ mask[uobj[c]] = ubits[c]

InEpoll ==
    \A d \in Desc : interest[d] # {} =>
        mask[d] = interest[d] /\ \A b \in interest[d] : Waiting(<<d, b>>)

InReport ==
    \A r \in batch :
        /\ mask[r.desc] # {} /\ r.events \cap Bit \subseteq mask[r.desc]
        /\ \A b \in mask[r.desc] : Waiting(<<r.desc, b>>)
        /\ Kind[r.desc] = "tcp" => mask[r.desc] \subseteq r.events
        /\ \A q \in batch : q.desc = r.desc => q = r

InReactor ==
    rdesc # None =>
        /\ rpc = "rearm" => /\ Kind[rdesc] # "tcp" /\ revents \cap Bit = {}
                            /\ mask[rdesc] = rtodo /\ rtodo # {}
        /\ \A b \in rtodo : Waiting(<<rdesc, b>>)
        /\ rpc = "dispatch" => hasActive[<<rdesc, First(rtodo)>>]

InTask ==
    \A i \in DOMAIN tasks : tasks[i] \in Operations =>
        Waiting(tasks[i].event) /\ hasActive[tasks[i].event]

InWorker ==
    \A w \in Worker : worker[w] \in Operations =>
        Waiting(worker[w].event) /\ hasActive[worker[w].event]

InStrand ==
    \A s \in Strand : \A i \in DOMAIN completion[s] : completion[s][i] \in Completions =>
        Reacted(completion[s][i].event)

OperationsOK ==
    /\ CountsOK /\ OneOperation /\ OnePlace /\ InCall /\ InEpoll /\ InReport /\ InReactor
    /\ InTask /\ InWorker /\ InStrand

-----------------------------------------------------------------------------
(* Final events.                                                            *)

FinalTask(e) == [event |-> e, code |-> "FINAL"]
FinalCompletion(e) == [event |-> e, final |-> TRUE]

\* A final event is taken after the file has been closed, once.
TakenOnce ==
    /\ finals \subseteq registered
    /\ \A e \in Event : e \in finals \/ e \notin registered =>
          /\ ~inScope[e[1]] /\ ~fdOpen[e[1]]
          /\ \A c \in Thread : uobj[c] = e[1] => upc[c] \in {"dispose", "interrupt"}
                                                 /\ e[2] \notin ubits[c]

\* A given event has no operation any more.
GivenEmpty == \A e \in Event \ registered : react[e] = 0 /\ complete[e] = 0

FinalPlace == {"none", "deletion", "task", "worker", "strand", "given"}

\* The final event of e, if it has been taken, is in this place and in no other; no
\* report on the object is left behind it, nor can there be one: the file is closed.
FinalAt(e, place) ==
    /\ OnlyIf(place = "deletion", deletion, {e})
    /\ OnlyIf(place = "task", tasks, {FinalTask(e)})
    /\ OnlyIf(place = "worker", worker, {FinalTask(e)})
    /\ OnlyIf(place = "strand", completion[StrandOf[e[1]]], {FinalCompletion(e)})
    /\ e \notin registered => place = "given"
    /\ place \in {"deletion", "task", "worker", "strand"} => e \in finals
    /\ place \in {"task", "worker", "strand", "given"} =>
          rdesc # e[1] /\ \A r \in batch : r.desc # e[1]

OneFinalPlace == \A e \in Event : \E place \in FinalPlace : FinalAt(e, place)

\* An operation that failed on the calling thread, without has_active_event, was
\* enqueued before the final event.
FinalIsLast ==
    \A s \in Strand : \A i, j \in DOMAIN completion[s] : \A e \in Event :
        /\ completion[s][i] = FinalCompletion(e)
        /\ completion[s][j] = [event |-> e, final |-> FALSE]
        /\ ~hasActive[e]
        => j < i

-----------------------------------------------------------------------------
(* Operations of a program that uses its sockets in both directions.        *)

\* Nothing of an object whose file was never opened comes from epoll.
UnopenedOK ==
    \A d \in Desc : inScope[d] /\ ~fdOpen[d] =>
        /\ rdesc # d /\ \A r \in batch : r.desc # d
        /\ NoneOf(tasks, OperationsOf(d)) /\ NoneOf(worker, OperationsOf(d))

\* A call that is to fail finds its operation as it left it.
FailingCall ==
    \A c \in Thread : upc[c] \in Arming /\ ~fdOpen[uobj[c]] => Waiting(ArmedEvent(c))

-----------------------------------------------------------------------------
(* The invariants.                                                          *)

\* Of every program: the final event of an object has one place and comes behind
\* the last report.
DestructionInv ==
    CallsOK /\ ReactorOK /\ StrandsOK /\ TakenOnce /\ GivenEmpty /\ OneFinalPlace

\* Of a simplex program: an operation has one place as well, and is overtaken by
\* no final event.
ConveyorInv == DestructionInv /\ OperationsOK /\ FinalIsLast

\* Of a program whose files can be armed once they are open: an operation may be in
\* several places, but react and complete hold it one after the other and once.
CalledInv == DestructionInv /\ CountsOK /\ UnopenedOK /\ FailingCall
=============================================================================
