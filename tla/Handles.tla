------------------------------- MODULE Handles -------------------------------
(***************************************************************************)
(* The io objects as a program holds them: a public object (tcp_socket,     *)
(* tcp_connector, tcp_acceptor, timer) owns through a unique_ptr an         *)
(* implementation, which owns a descriptor and the events taken for it.     *)
(* Objects are moved, assigned and destroyed; a connector turns into a      *)
(* socket; accept fills a socket.  The program makes one call at a time; the *)
(* conveyor of EpollService is seen by its ends only, a disposed event and  *)
(* its return to the registrar.                                             *)
(***************************************************************************)
EXTENDS Naturals

CONSTANTS
    Handle,     \* the public objects of the program
    Kind,       \* Kind[h]: "socket", "connector", "acceptor" or "timer"
    Desc,       \* bound: descriptors, and the numbers of files
    None,       \* a null pointer
    FreshPeer   \* does the program give accept only sockets that have an
                \* implementation and that are not in use?

Kinds == {"socket", "connector", "acceptor", "timer"}

Reads == {"recv", "accept", "timeout"}
Writes == {"send", "connect"}
Slots(k) == CASE k = "socket" -> {"recv", "send"}
              [] k = "connector" -> {"connect"}
              [] k = "acceptor" -> {"accept"}
              [] OTHER -> {"timeout"}
Event == Desc \X (Reads \cup Writes)
Implementation == [strand : BOOLEAN, desc : Desc \cup {None}, evts : SUBSET Event]

ASSUME HandlesAssumption ==
    /\ Kind \in [Handle -> Kinds]
    /\ Desc \subseteq Nat /\ None \notin Nat \cup Handle \cup Implementation
    /\ FreshPeer \in BOOLEAN

VARIABLES
    own,        \* own[h]: the implementation behind _pimpl of h; None: moved from
    strand,     \* the public objects whose _strand is set
    file,       \* reactor_io_descriptor::fd
    inScope,    \* reactor_io_descriptor::in_scope
    readEvent, writeEvent,  \* reactor_io_descriptor::read_event, write_event
    open,       \* the files that are open
    registered, \* events in the registrar
    disposed,   \* ... whose final event is on its way
    pending,    \* the accept in progress: the owners of the two implementations
    converted   \* history: registered events of connectors that became sockets

descriptor == <<file, inScope, readEvent, writeEvent>>
vars == <<own, strand, descriptor, open, registered, disposed, pending, converted>>

\* Implementations: default constructed, and constructed for descriptor d.
Default == [strand |-> FALSE, desc |-> None, evts |-> {}]
Built(k, d) == [strand |-> TRUE, desc |-> d, evts |-> {d} \X Slots(k)]
NoAccept == [acceptor |-> None, peer |-> None]

Init ==
    /\ own = [h \in Handle |-> Default]
    /\ strand = {}
    /\ file = [d \in Desc |-> None]
    /\ inScope = [d \in Desc |-> FALSE]
    /\ readEvent = [d \in Desc |-> None]
    /\ writeEvent = [d \in Desc |-> None]
    /\ open = {}
    /\ registered = {}
    /\ disposed = {}
    /\ pending = NoAccept
    /\ converted = {}

InUse == {h \in Handle : own[h] # None /\ own[h].strand}

-----------------------------------------------------------------------------
(* Constructors, moves and destructors of implementations.                  *)

\* The events of a moved-from implementation: the pointers of epoll_recv, epoll_send
\* and the others to them are cleared.
EventsLeft(x) == {}

\* What is left of a moved-from implementation.  Mutant: its strand stays.
StrandKept(x) == [Default EXCEPT !.strand = x.strand, !.desc = x.desc]
MovedFrom(x) == [strand |-> FALSE, desc |-> None, evts |-> EventsLeft(x)]

\* ... and of a connector that became a socket: epoll_connect keeps its event.
\* Mutant: nothing changes.
Untouched(x) == x
ConvertedFrom(x) == [x EXCEPT !.strand = FALSE, !.desc = None]

\* The events a destructor disposes.  Mutant: ~async_tcp forgets its _sender.
ReadsOnly(x) == {e \in x.evts : e[2] \in Reads}
Disposed(x) == x.evts

\* The descriptor an implementation takes out of scope when it is destroyed.
Closing(x) == {d \in {x.desc} \ {None} : x.strand /\ inScope[d]}

\* The destructors of the implementations X run; then, if d is a descriptor, it
\* has been constructed meanwhile and F are its files.
Replace(X, d, F) ==
    LET D == UNION {Closing(x) : x \in X} IN
    /\ inScope' = [e \in Desc |-> e = d \/ (inScope[e] /\ e \notin D)]
    /\ open' = (open \ {file[e] : e \in D}) \cup F
    /\ disposed' = disposed \cup UNION {Disposed(x) : x \in {x \in X : Closing(x) # {}}}

\* The implementation h loses by an assignment or by its destructor.  The program
\* keeps the peer of an accept: the callback of accept refers to it.
Old(h) == {own[h]} \ {None}
MayLose(h) == pending.peer # h \/ own[h] = None

\* A descriptor lives as long as an event or an implementation refers to it.  The
\* kernel gives the lowest number.
Free == {d \in Desc : /\ d \notin open
                      /\ \A e \in registered : e[1] # d
                      /\ \A h \in Handle : own[h] # None => own[h].desc # d}
Lowest == {d \in Free : \A e \in Free : d <= e}

\* The events of kind k are taken for d: the descriptor points to them.  Mutant:
\* a socket leaves the write event of the connector it was.
ReadPart(k) == Slots(k) \cap Reads
Pointed(k) == Slots(k)

Pointer(f, d, S) == IF S = {} THEN f ELSE [f EXCEPT ![d] = <<d, CHOOSE s \in S : TRUE>>]

TakeEvents(k, d) ==
    /\ registered' = registered \cup ({d} \X Slots(k))
    /\ readEvent' = Pointer(readEvent, d, Pointed(k) \cap Reads)
    /\ writeEvent' = Pointer(writeEvent, d, Pointed(k) \cap Writes)

Unchanged == UNCHANGED <<file, readEvent, writeEvent, registered, converted>>

-----------------------------------------------------------------------------
(* The public classes.                                                      *)

\* The accept of a destroyed acceptor is out of scope: its callback never runs.
PendingWithout(h) == IF pending.acceptor = h THEN NoAccept ELSE pending

\* h = tcp_socket(), h = timer(), ...; or h is destroyed, and the next object of
\* its kind is declared.
AssignDefault(h) ==
    /\ MayLose(h)
    /\ own' = [own EXCEPT ![h] = Default]
    /\ strand' = strand \ {h}
    /\ Replace(Old(h), None, {})
    /\ pending' = PendingWithout(h)
    /\ Unchanged

\* _strand after a constructor: the one of timer does not set it.
StrandAfter(h) == IF Kind[h] = "timer" THEN strand \ {h} ELSE strand \cup {h}

\* h = timer(strand), tcp_connector(strand, family), tcp_socket(strand, fd, ep):
\* a descriptor with its file, and the events.
AssignNew(h) ==
    /\ MayLose(h)
    /\ \E d \in Lowest :
        /\ own' = [own EXCEPT ![h] = Built(Kind[h], d)]
        /\ file' = [file EXCEPT ![d] = d]
        /\ TakeEvents(Kind[h], d)
        /\ Replace(Old(h), d, {d})
    /\ strand' = StrandAfter(h)
    /\ pending' = PendingWithout(h)
    /\ UNCHANGED converted

\* A reference to the implementation of h is one to that of g after the move.
Follow(p, g, h) == IF p = h THEN g ELSE p

\* g = std::move(h): the unique_ptr moves, _strand is copied.
Move(g, h) ==
    /\ g # h /\ Kind[g] = Kind[h] /\ own[h] # None /\ MayLose(g)
    /\ own' = [own EXCEPT ![g] = own[h], ![h] = None]
    /\ strand' = IF h \in strand THEN strand \cup {g} ELSE strand \ {g}
    /\ Replace(Old(g), None, {})
    /\ pending' = LET p == PendingWithout(g)
                  IN  [acceptor |-> Follow(p.acceptor, g, h), peer |-> Follow(p.peer, g, h)]
    /\ Unchanged

\* s = tcp_socket(std::move(c)): the file in a new descriptor, with new events.
ConvertConstruct(s, c) ==
    /\ Kind[s] = "socket" /\ Kind[c] = "connector" /\ c \in InUse /\ MayLose(s)
    /\ \E d \in Lowest :
        /\ own' = [own EXCEPT ![s] = Built("socket", d), ![c] = ConvertedFrom(@)]
        /\ file' = [file EXCEPT ![d] = file[own[c].desc]]
        /\ TakeEvents("socket", d)
        /\ Replace(Old(s), d, {})
    /\ strand' = IF c \in strand THEN strand \cup {s} ELSE strand \ {s}
    /\ converted' = converted \cup own[c].evts
    /\ UNCHANGED pending

\* s = std::move(c), where s has an implementation that is not in use: the
\* descriptor itself, with new events.
ConvertAssign(s, c) ==
    /\ Kind[s] = "socket" /\ Kind[c] = "connector" /\ c \in InUse
    /\ own[s] # None /\ s \notin InUse /\ MayLose(s)
    /\ own' = [own EXCEPT ![s] = Built("socket", own[c].desc), ![c] = ConvertedFrom(@)]
    /\ TakeEvents("socket", own[c].desc)
    /\ strand' = IF c \in strand THEN strand \cup {s} ELSE strand \ {s}
    /\ converted' = converted \cup own[c].evts
    /\ UNCHANGED <<file, inScope, open, disposed, pending>>

\* accept(strand, peer, cb) keeps references to both implementations.
Accept(a, s) ==
    /\ Kind[a] = "acceptor" /\ Kind[s] = "socket" /\ a \in InUse /\ pending = NoAccept
    /\ FreshPeer => own[s] # None /\ s \notin InUse
    /\ pending' = [acceptor |-> a, peer |-> s]
    /\ strand' = strand \cup {s}
    /\ UNCHANGED <<own, descriptor, open, registered, disposed, converted>>

\* peer = async_tcp(strand, fd, ep): the temporary is moved from and destroyed.
Accepted ==
    /\ pending.peer # None /\ own[pending.peer] # None
    /\ \E d \in Lowest :
        LET tmp == Built("socket", d)
        IN  /\ own' = [own EXCEPT ![pending.peer] = tmp]
            /\ file' = [file EXCEPT ![d] = d]
            /\ TakeEvents("socket", d)
            /\ inScope' = [inScope EXCEPT ![d] = ~MovedFrom(tmp).strand]
            /\ open' = IF MovedFrom(tmp).strand THEN open ELSE open \cup {d}
    /\ pending' = NoAccept
    /\ UNCHANGED <<strand, disposed, converted>>

AcceptFails ==
    /\ pending # NoAccept
    /\ pending' = NoAccept
    /\ UNCHANGED <<own, strand, descriptor, open, registered, disposed, converted>>

\* Still disposed once E have been given back.  Mutant: all of them.
GivenTwice(E) == disposed
NotGiven(E) == disposed \ E

\* The final events of d run: its events go back; with the last of them the
\* descriptor is gone.
Reclaim(d) ==
    LET E == {e \in disposed : e[1] = d}
        last == \A e \in registered \ E : e[1] # d
    IN  /\ E # {}
        /\ registered' = registered \ E
        /\ disposed' = NotGiven(E)
        /\ file' = [file EXCEPT ![d] = IF last THEN None ELSE @]
        /\ readEvent' = [readEvent EXCEPT ![d] = IF last THEN None ELSE @]
        /\ writeEvent' = [writeEvent EXCEPT ![d] = IF last THEN None ELSE @]
        /\ UNCHANGED <<own, strand, inScope, open, pending, converted>>

Next == \/ \E h \in Handle : AssignDefault(h) \/ AssignNew(h)
        \/ \E g, h \in Handle : \/ Move(g, h) \/ ConvertConstruct(g, h) \/ ConvertAssign(g, h)
                                \/ Accept(g, h)
        \/ Accepted \/ AcceptFails
        \/ \E d \in Desc : Reclaim(d)

Spec == Init /\ [][Next]_vars

-----------------------------------------------------------------------------
(* Properties.                                                              *)

\* The types of the variables.
TypeOK ==
    /\ own \in [Handle -> Implementation \cup {None}]
    /\ strand \subseteq Handle
    /\ file \in [Desc -> Desc \cup {None}]
    /\ inScope \in [Desc -> BOOLEAN]
    /\ readEvent \in [Desc -> Event \cup {None}]
    /\ writeEvent \in [Desc -> Event \cup {None}]
    /\ open \subseteq Desc
    /\ registered \subseteq Event /\ disposed \subseteq registered /\ converted \subseteq registered
    /\ pending \in [acceptor : Handle \cup {None}, peer : Handle \cup {None}]

\* Whatever was moved where, a file is closed by one destructor only: two objects
\* in use share neither the file, nor the descriptor, nor an event.
SoleOwner ==
    \A g, h \in InUse : g # h =>
        /\ file[own[g].desc] # file[own[h].desc]
        /\ own[g].desc # own[h].desc
        /\ own[g].evts \cap own[h].evts = {}

\* "Check whether it is not default constructed or been moved": an implementation
\* whose _strand is set has all that its operations and its destructor use.
Usable ==
    \A h \in InUse :
        LET x == own[h] IN
        /\ x.desc # None /\ inScope[x.desc] /\ file[x.desc] \in open
        /\ x.evts = {x.desc} \X Slots(Kind[h])
        /\ x.evts \subseteq registered \ disposed

\* The reactor reaches an operation through the descriptor: it finds the events
\* of the object that owns it now, also after a connector has become a socket.
ReactorFindsEvents ==
    \A h \in InUse : \A e \in own[h].evts :
        e = IF e[2] \in Reads THEN readEvent[e[1]] ELSE writeEvent[e[1]]

\* Nothing is lost by moves: every open file and every event is some object's or
\* on its way back, but for the event of a connector that became a socket, which
\* stays until the registrar is closed.  And strand() has one to return for an object
\* in use, unless it is a timer, whose constructor sets none.
Accounted ==
    /\ \A h \in InUse : Kind[h] # "timer" => h \in strand
    /\ open = {file[own[h].desc] : h \in InUse}
    /\ registered = disposed \cup converted \cup UNION {own[h].evts : h \in InUse}

\* The server accepts into the socket it has just moved from: accept follows its
\* pointer to the implementation.
PeerExists == pending # NoAccept => own[pending.peer] # None
=============================================================================
