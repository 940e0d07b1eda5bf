------------------------------- MODULE Sockets -------------------------------
(***************************************************************************)
(* bsd_socket_impl, the calls of the operating system it makes and what the *)
(* io objects keep of their results: an acceptor, a connector, the sockets  *)
(* that come of them, and a datagram socket.  An operation is seen by its   *)
(* ends, as AsyncIo allows: it is started, its system call is made, its     *)
(* callback runs, or its object is destroyed first.  The program makes one  *)
(* call at a time; the values it passes are those of ValueObjects.          *)
(***************************************************************************)
EXTENDS ValueObjects, FiniteSets

CONSTANTS
    Socket,     \* the tcp sockets of the program
    File,       \* bound: the numbers of open files
    Invalid,    \* INVALID_HANDLE_VALUE
    Remote,     \* the names of the peers out there
    Timeouts,   \* the timeouts that are used, in milliseconds
    MaxBacklog  \* bound: connections not accepted yet

Fd == File \cup {Invalid}
Time == [sec : Nat, nsec : Nat]

\* What the kernel keeps of a file.
FileRecord ==
    [type : {"stream", "datagram", "timer"}, family : Family \cup {"none"},
     local : Name, peer : Name, listening : BOOLEAN, backlog : SUBSET Remote,
     reuse : {0, 1}, outgoing : Bytes, groups : SUBSET (Bytes \X Bytes),
     time : Time, expired : BOOLEAN]

ASSUME SocketsAssumption ==
    /\ File \subseteq Nat /\ Invalid \notin Nat
    /\ Remote \subseteq Name /\ NoName \notin Remote
    /\ Timeouts \subseteq Nat
    /\ None \notin Fd \cup FileRecord \cup [fd : Fd] \cup [fd : Fd, ep : Endpoint]
                     \cup [fd : Fd, ep : Endpoint, told : BOOLEAN]
                     \cup [fd : Fd, ep : Endpoint, peerFd : Fd, peerEp : Endpoint]
                     \cup [peer : Socket, phase : {"armed", "accepted", "failed"}]

VARIABLES
    file,       \* the open files of the kernel
    acceptor, connector, tcp, udp, timer,  \* the objects; None when there is none
    accepting,  \* the accept in progress
    connecting, \* the connect in progress, and the result it will report
    timing,     \* the timeout in progress
    said,       \* the call that has just returned, if it returned OK
    unsure,     \* history: files whose peer name nobody can know
    lost        \* history: files that no object knows any more

objects == <<acceptor, connector, tcp, udp, timer>>
operations == <<accepting, connecting, timing>>
vars == <<values, file, objects, operations, said, unsure, lost>>

Disarmed == [sec |-> 0, nsec |-> 0]

Fresh(type, f) ==
    [type |-> type, family |-> f, local |-> NoName, peer |-> NoName, listening |-> FALSE,
     backlog |-> {}, reuse |-> 0, outgoing |-> Zero, groups |-> {},
     time |-> Disarmed, expired |-> FALSE]

NoCall == [call |-> "none", ok |-> FALSE, fd |-> Invalid]
Silent == said' = NoCall

Init ==
    /\ ValuesInit
    /\ file = [d \in File |-> None]
    /\ acceptor = None /\ connector = None /\ udp = None /\ timer = None
    /\ tcp = [s \in Socket |-> None]
    /\ accepting = None /\ connecting = None /\ timing = None
    /\ said = NoCall
    /\ unsure = {} /\ lost = {}

Open(d) == d \in File /\ file[d] # None
Lowest == {d \in File : file[d] = None /\ \A c \in File : file[c] = None => d <= c}
\* Mutant: a destructor that forgets the file.
LeftOpen(d) == file
Closed(d) == IF d = Invalid THEN file ELSE [file EXCEPT ![d] = None]

-----------------------------------------------------------------------------
(* The kernel: each operator is the set of the results a call may have.     *)

Fails == [ok |-> FALSE, file |-> file]
Succeeds(f) == [ok |-> TRUE, file |-> f]
MayFail(may, f) == {Fails} \cup (IF may THEN {Succeeds(f)} ELSE {})

KernelBind(d, n, length) ==
    MayFail(/\ Open(d) /\ file[d].local = NoName
            /\ file[d].family = n.family /\ length = NameLength(n.family),
            [file EXCEPT ![d].local = n])

\* Sockets are blocking: the call returns when the connection is made, and never
\* with EINPROGRESS.
KernelConnect(d, n, length) ==
    MayFail(/\ Open(d) /\ file[d].peer = NoName /\ ~file[d].listening
            /\ file[d].family = n.family /\ length = NameLength(n.family),
            [file EXCEPT ![d].peer = n])

\* A datagram goes to the name it is given.
KernelSendTo(d, n, length) ==
    MayFail(/\ Open(d) /\ file[d].type = "datagram"
            /\ file[d].family = n.family /\ length = NameLength(n.family), file)

KernelSetTime(d, time) ==
    MayFail(Open(d), [file EXCEPT ![d].time = time, ![d].expired = FALSE])

KernelListen(d) ==
    MayFail(Open(d) /\ file[d].type = "stream" /\ file[d].peer = NoName,
            [file EXCEPT ![d].listening = TRUE])

\* IP_MULTICAST_IF takes 12 bytes and more for an ip_mreqn: the interface is in the
\* bytes behind the first four.  Bytes nobody wrote may be a group.
KernelSet(d, what, int, iface, mcast, length) ==
    CASE what = "SO_REUSEADDR" ->
            MayFail(Open(d), [file EXCEPT ![d].reuse = int])
      [] what = "IP_MULTICAST_IF" ->
            UNION {MayFail(Open(d) /\ file[d].type = "datagram", [file EXCEPT ![d].outgoing = i]) :
                      i \in IF length < 12 THEN {iface} ELSE {Zero, Junk}}
      [] what = "IP_ADD_MEMBERSHIP" ->
            MayFail(Open(d) /\ file[d].type = "datagram" /\ mcast \in V4 \cup {Junk},
                    [file EXCEPT ![d].groups = @ \cup {<<iface, mcast>>}])
      [] OTHER -> {Fails}

\* The name of the sender or of the peer is written as far as there is room.
Written(n, room) == IF room = 0 THEN Unwritten ELSE n

\* The time of a timerfd has passed; it is not set again by itself.
Expire(d) ==
    /\ Open(d) /\ file[d].time # Disarmed /\ ~file[d].expired
    /\ file' = [file EXCEPT ![d].expired = TRUE]
    /\ Silent
    /\ UNCHANGED <<values, objects, operations, unsure, lost>>

\* A connection arrives.
Incoming(d, n) ==
    /\ Open(d) /\ file[d].listening /\ file[d].family = n.family
    /\ n \notin file[d].backlog /\ Cardinality(file[d].backlog) < MaxBacklog
    /\ \A c \in File : Open(c) => file[c].peer # n
    /\ file' = [file EXCEPT ![d].backlog = @ \cup {n}]
    /\ Silent
    /\ UNCHANGED <<values, objects, operations, unsure, lost>>

-----------------------------------------------------------------------------
(* bsd_socket_impl.                                                         *)

\* create_tcp and create_udp: the file, and Invalid.
Created(type, f) ==
    {[fd |-> Invalid, file |-> file]} \cup
    {[fd |-> d, file |-> [file EXCEPT ![d] = Fresh(type, f)]] :
        d \in IF f = "unknown" THEN {} ELSE Lowest}

\* An endpoint of unknown family is not bound, and nothing is said of it.
BindResult(d, ep) ==
    IF ep.address.family = "unknown" THEN {Succeeds(file)}
    ELSE KernelBind(d, ep.name, ep.length)

\* The second branch of connect tests for v4 again: v6 is left unconnected.
\* Mutant: an error of the kernel is not returned.
ErrorSwallowed(d, ep) == {Succeeds(r.file) : r \in KernelConnect(d, ep.name, ep.length)}
ConnectResult(d, ep) ==
    IF ep.address.family = "v4" THEN KernelConnect(d, ep.name, ep.length) ELSE {Succeeds(file)}

\* send_to: an endpoint that is not v4 is passed as a v6 one.
SendToResult(d, ep) == KernelSendTo(d, ep.name, ep.length)

\* accept and recv_from: the buffer is read as a name of the family of the endpoint
\* that is passed in.  Mutant: always as a sockaddr_in.
ReadAsV4(ep, n) == FromName("v4", Written(n, ep.length))
PeerEndpoint(ep, n) ==
    FromName(IF ep.address.family = "v4" THEN "v4" ELSE "v6", Written(n, ep.length))

\* The name is not the one the kernel wrote.
Misread(d, ep) == ep.address.family # file[d].family

AcceptResult(d, ep) ==
    {[fd |-> Invalid, ep |-> NoEndpoint, file |-> file, n |-> NoName]} \cup
    {[fd |-> c, ep |-> PeerEndpoint(ep, n), n |-> n,
      file |-> [file EXCEPT ![c] = [Fresh("stream", file[d].family) EXCEPT !.peer = n],
                            ![d].backlog = @ \ {n}]] :
        c \in Lowest, n \in IF Open(d) THEN file[d].backlog ELSE {}}

\* set_option of an int_option, an address_option and a group_option.  A group with a
\* v6 interface is an ipv6_mreq, whose interface is a number.  Mutant: a group whose
\* fields are swapped.
SetInt(d, o) == KernelSet(d, o.what, o.int, Zero, Zero, 4)
SetAddress(d, o) ==
    IF o.iface.family = "unknown" THEN {Succeeds(file)}
    ELSE KernelSet(d, o.what, 0, o.iface.bytes, Zero, AddressLength(o.iface))
SetGroupSwapped(d, o) == KernelSet(d, o.what, 0, o.mcast.bytes, o.iface.bytes, 8)
SetGroup(d, o) ==
    IF o.iface.family = "unknown" THEN {Succeeds(file)}
    ELSE IF o.iface.family = "v4" THEN KernelSet(d, o.what, 0, o.iface.bytes, o.mcast.bytes, 8)
    ELSE KernelSet(d, o.what, 0, Junk, o.mcast.bytes, 20)

\* get_option: what the option is afterwards, and None for an error.
GetInt(d, o) ==
    {None} \cup
    (IF Open(d) /\ o.what = "SO_REUSEADDR" THEN {[o EXCEPT !.int = file[d].reuse]} ELSE {})
GetAddressOption(d, o) ==
    IF o.iface.family = "unknown" THEN {o}
    ELSE {None} \cup
         (IF Open(d) /\ o.what = "IP_MULTICAST_IF"
          THEN {[o EXCEPT !.iface = FromNative(@.family, IF @.family = "v4" THEN file[d].outgoing
                                                         ELSE Junk)]}
          ELSE {})
\* The kernel does not tell memberships.
GetGroup(d, o) == IF o.iface.family = "unknown" THEN {o} ELSE {None}

-----------------------------------------------------------------------------
(* The acceptor.                                                            *)

Says(call, ok, d) == said' = IF ok THEN [call |-> call, ok |-> TRUE, fd |-> d] ELSE NoCall

\* Assignment to a socket that is in use overwrites it: its file is not closed.
Overwritten(s) == IF tcp[s] = None THEN {} ELSE {tcp[s].fd} \ {Invalid}

\* The object is made also when there is no file for it.
MakeAcceptor(f) ==
    /\ acceptor = None /\ Counts(2)
    /\ \E r \in Created("stream", f) :
          /\ acceptor' = [fd |-> r.fd, ep |-> NoEndpoint, peerFd |-> Invalid, peerEp |-> NoEndpoint]
          /\ file' = r.file
    /\ Silent
    /\ UNCHANGED <<value, connector, tcp, udp, timer, operations, unsure, lost>>

\* The endpoint is kept whatever the kernel says.
Bind(h) ==
    /\ acceptor # None /\ h \in Held("endpoint")
    /\ acceptor' = [acceptor EXCEPT !.ep = value[h]]
    /\ \E r \in BindResult(acceptor.fd, value[h]) :
          file' = r.file /\ Says("bind", r.ok, acceptor.fd)
    /\ UNCHANGED <<values, connector, tcp, udp, timer, operations, unsure, lost>>

Listen ==
    /\ acceptor # None
    /\ \E r \in KernelListen(acceptor.fd) : file' = r.file /\ Says("listen", r.ok, acceptor.fd)
    /\ UNCHANGED <<values, objects, operations, unsure, lost>>

\* accept arms; on an error the callback is on its way.
Accept(s) ==
    /\ acceptor # None /\ accepting = None
    /\ \E phase \in {"failed"} \cup (IF Open(acceptor.fd) THEN {"armed"} ELSE {}) :
          accepting' = [peer |-> s, phase |-> phase]
    /\ Silent
    /\ UNCHANGED <<values, file, objects, connecting, timing, unsure, lost>>

\* react: the system call writes to _peer_fd and _peer_ep of the acceptor.
ReactAccept ==
    /\ accepting # None /\ accepting.phase = "armed"
    /\ \E r \in AcceptResult(acceptor.fd, acceptor.ep) :
          /\ acceptor' = [acceptor EXCEPT !.peerFd = r.fd, !.peerEp = r.ep]
          /\ file' = r.file
          /\ accepting' = [accepting EXCEPT !.phase =
                              IF r.fd = Invalid THEN "failed" ELSE "accepted"]
          /\ unsure' = IF r.fd # Invalid /\ Misread(acceptor.fd, acceptor.ep)
                       THEN unsure \cup {r.fd} ELSE unsure
    /\ Silent
    /\ UNCHANGED <<values, connector, tcp, udp, timer, connecting, timing, lost>>

\* complete: peer = async_tcp(strand, _peer_fd, _peer_ep), and the callback.
CompleteAccept ==
    /\ accepting # None /\ accepting.phase \in {"accepted", "failed"}
    /\ tcp' = IF accepting.phase = "failed" THEN tcp
              ELSE [tcp EXCEPT ![accepting.peer] = [fd |-> acceptor.peerFd, ep |-> acceptor.peerEp]]
    /\ lost' = IF accepting.phase = "failed" THEN lost ELSE lost \cup Overwritten(accepting.peer)
    /\ accepting' = None
    /\ Silent
    /\ UNCHANGED <<values, file, acceptor, connector, udp, timer, connecting, timing, unsure>>

\* The destructor; a completion in the queue finds the object out of scope.
DestroyAcceptor ==
    /\ acceptor # None
    /\ file' = Closed(acceptor.fd)
    /\ lost' = IF accepting # None /\ accepting.phase = "accepted"
               THEN lost \cup {acceptor.peerFd} ELSE lost
    /\ unsure' = unsure \ {acceptor.fd}
    /\ acceptor' = None /\ accepting' = None
    /\ Silent
    /\ UNCHANGED <<values, connector, tcp, udp, timer, connecting, timing>>

-----------------------------------------------------------------------------
(* The connector.                                                           *)

MakeConnector(f) ==
    /\ connector = None /\ Counts(2)
    /\ \E r \in Created("stream", f) :
          /\ connector' = [fd |-> r.fd, ep |-> NoEndpoint, told |-> FALSE]
          /\ file' = r.file
    /\ Silent
    /\ UNCHANGED <<value, acceptor, tcp, udp, timer, operations, unsure, lost>>

\* fin_connect first; react hands its result on whatever the reactor reports, but
\* an error in arming takes its place.
Connect(h) ==
    /\ connector # None /\ connecting = None /\ h \in Held("endpoint")
    /\ connector' = [connector EXCEPT !.ep = value[h], !.told = FALSE]
    /\ \E r \in ConnectResult(connector.fd, value[h]), armed \in BOOLEAN :
          /\ armed => Open(connector.fd)
          /\ file' = r.file
          /\ connecting' = [ok |-> r.ok /\ armed]
    /\ Silent
    /\ UNCHANGED <<values, acceptor, tcp, udp, timer, accepting, timing, unsure, lost>>

CompleteConnect ==
    /\ connecting # None
    /\ connector' = [connector EXCEPT !.told = connecting.ok]
    /\ connecting' = None
    /\ Says("connect", connecting.ok, connector.fd)
    /\ UNCHANGED <<values, file, acceptor, tcp, udp, timer, accepting, timing, unsure, lost>>

DestroyConnector ==
    /\ connector # None
    /\ file' = Closed(connector.fd)
    /\ unsure' = unsure \ {connector.fd}
    /\ connector' = None /\ connecting' = None
    /\ Silent
    /\ UNCHANGED <<values, acceptor, tcp, udp, timer, accepting, timing, lost>>

\* A connector becomes a socket: its file and its endpoint go over.
Convert(s) ==
    /\ connector # None /\ connecting = None
    /\ lost' = lost \cup Overwritten(s)
    /\ tcp' = [tcp EXCEPT ![s] = [fd |-> connector.fd, ep |-> connector.ep]]
    /\ unsure' = IF connector.told /\ connector.ep.address.family = "v4" THEN unsure
                 ELSE unsure \cup {connector.fd}
    /\ connector' = None
    /\ Silent
    /\ UNCHANGED <<values, file, acceptor, udp, timer, operations>>

-----------------------------------------------------------------------------
(* The timer.                                                               *)

TimerOpened == Created("timer", "none")

MakeTimer ==
    /\ timer = None /\ Counts(2)
    /\ \E r \in TimerOpened : timer' = [fd |-> r.fd] /\ file' = r.file
    /\ Silent
    /\ UNCHANGED <<value, acceptor, connector, tcp, udp, operations, unsure, lost>>

\* It is armed, and then set.
Timeout(ms) ==
    /\ timer # None /\ timing = None
    /\ \E armed \in {FALSE} \cup {Open(timer.fd)} :
        \E r \in IF armed THEN KernelSetTime(timer.fd, Expiration(ms)) ELSE {Fails} :
          /\ file' = r.file
          /\ timing' = [ms |-> ms, phase |-> IF r.ok THEN "armed" ELSE "failed", took |-> Disarmed]
    /\ Silent
    /\ UNCHANGED <<values, objects, accepting, connecting, unsure, lost>>

\* do_react reads the number of expirations, and they are gone.
ReactTimeout ==
    /\ timing # None /\ timing.phase = "armed"
    /\ Open(timer.fd) /\ file[timer.fd].expired
    /\ file' = [file EXCEPT ![timer.fd].expired = FALSE, ![timer.fd].time = Disarmed]
    /\ timing' = [timing EXCEPT !.phase = "expired", !.took = file[timer.fd].time]
    /\ Silent
    /\ UNCHANGED <<values, objects, accepting, connecting, unsure, lost>>

CompleteTimeout ==
    /\ timing # None /\ timing.phase \in {"failed", "expired"}
    /\ said' = IF timing.phase = "failed" THEN NoCall
               ELSE [call |-> "timeout", ok |-> TRUE, fd |-> timer.fd, ms |-> timing.ms,
                     took |-> timing.took]
    /\ timing' = None
    /\ UNCHANGED <<values, file, objects, accepting, connecting, unsure, lost>>

DestroyTimer ==
    /\ timer # None
    /\ file' = Closed(timer.fd)
    /\ timer' = None /\ timing' = None
    /\ Silent
    /\ UNCHANGED <<values, acceptor, connector, tcp, udp, accepting, connecting, unsure, lost>>

-----------------------------------------------------------------------------
(* Sockets and options.                                                     *)

\* The kernel takes and gives bytes on a connected file only.
MayTransfer(d) == {FALSE} \cup {Open(d) /\ file[d].peer # NoName}
RecvResult(d) == [ok : MayTransfer(d), bytes : {0, 1}]
SendResult(d) == MayTransfer(d)

\* recv: 0 bytes without an error are reported as EC_PEER_SOCKET_CLOSED.
Reported(ok, bytes) == ok /\ bytes # 0

Receive(s) ==
    /\ tcp[s] # None
    /\ \E r \in RecvResult(tcp[s].fd) :
          said' = IF Reported(r.ok, r.bytes)
                  THEN [call |-> "recv", ok |-> TRUE, fd |-> tcp[s].fd, bytes |-> r.bytes]
                  ELSE NoCall
    /\ UNCHANGED <<values, file, objects, operations, unsure, lost>>

Send(s) ==
    /\ tcp[s] # None
    /\ \E ok \in SendResult(tcp[s].fd) : Says("send", ok, tcp[s].fd)
    /\ UNCHANGED <<values, file, objects, operations, unsure, lost>>

DestroySocket(s) ==
    /\ tcp[s] # None
    /\ file' = Closed(tcp[s].fd)
    /\ unsure' = unsure \ {tcp[s].fd}
    /\ tcp' = [tcp EXCEPT ![s] = None]
    /\ Silent
    /\ UNCHANGED <<values, acceptor, connector, udp, timer, operations, lost>>

\* A datagram socket of the program's own.
MakeUdp(f) ==
    /\ udp = None /\ Counts(2)
    /\ \E r \in Created("datagram", f) : udp' = r.fd /\ file' = r.file
    /\ Silent
    /\ UNCHANGED <<value, acceptor, connector, tcp, timer, operations, unsure, lost>>

CloseUdp ==
    /\ udp # None
    /\ file' = Closed(udp)
    /\ udp' = None
    /\ Silent
    /\ UNCHANGED <<values, acceptor, connector, tcp, timer, operations, unsure, lost>>

\* recv_from: it fails, or says of the sender n what the endpoint of the receiver lets
\* it read, of whatever family that is.
ReceiveFrom(h) ==
    /\ udp # None /\ Open(udp) /\ h \in Held("endpoint")
    /\ \E n \in {n \in Remote : n.family = file[udp].family} :
          said' \in {NoCall, [call |-> "recv_from", ok |-> TRUE, fd |-> udp, by |-> value[h],
                             ep |-> PeerEndpoint(value[h], n), n |-> n]}
    /\ UNCHANGED <<values, file, objects, operations, unsure, lost>>

SendTo(h) ==
    /\ udp # None /\ Open(udp) /\ h \in Held("endpoint")
    /\ \E r \in SendToResult(udp, value[h]) :
          said' = IF r.ok THEN [call |-> "send_to", ok |-> TRUE, fd |-> udp, ep |-> value[h],
                                n |-> value[h].name]
                  ELSE NoCall
    /\ UNCHANGED <<values, file, objects, operations, unsure, lost>>

Known == {x.fd : x \in {acceptor, connector, timer} \ {None}} \cup ({udp} \ {None})
            \cup {tcp[s].fd : s \in {s \in Socket : tcp[s] # None}}

\* endpoint() of an object, into an endpoint of the program.
GetEndpoint(h) ==
    /\ Class[h] = "endpoint" /\ value[h] # None /\ Counts(1)
    /\ \E x \in {acceptor, connector} \cup {tcp[s] : s \in Socket} :
          x # None /\ value' = [value EXCEPT ![h] = x.ep]
    /\ Silent
    /\ UNCHANGED <<file, objects, operations, unsure, lost>>

Claim(call, ok, d, o) ==
    IF ok THEN [call |-> call, ok |-> TRUE, fd |-> d, opt |-> o] ELSE NoCall

\* socket::set_option and get_option, by the class of the option.
SetResult(d, c, o) ==
    CASE c = "reuse" -> SetInt(d, o)
      [] c = "outgoing" -> SetAddress(d, o)
      [] OTHER -> SetGroup(d, o)
GetResult(d, c, o) ==
    CASE c = "reuse" -> GetInt(d, o)
      [] c = "outgoing" -> GetAddressOption(d, o)
      [] OTHER -> GetGroup(d, o)

SetOption(d, h) ==
    /\ Class[h] \in Options /\ value[h] # None
    /\ \E r \in SetResult(d, Class[h], value[h]) :
          file' = r.file /\ said' = Claim("set", r.ok, d, value[h])
    /\ UNCHANGED <<values, objects, operations, unsure, lost>>

GetOption(d, h) ==
    /\ Class[h] \in Options /\ value[h] # None
    /\ \E o \in GetResult(d, Class[h], value[h]) :
          /\ value' = IF o = None THEN value ELSE [value EXCEPT ![h] = o]
          /\ said' = IF o = None THEN NoCall ELSE Claim("get", TRUE, d, o)
    /\ UNCHANGED <<made, file, objects, operations, unsure, lost>>

-----------------------------------------------------------------------------
UseValues ==
    /\ ValuesNext
    /\ Silent
    /\ UNCHANGED <<file, objects, operations, unsure, lost>>

Next ==
    \/ UseValues
    \/ \E d \in File, n \in Remote : Incoming(d, n)
    \/ \E f \in Family : MakeAcceptor(f) \/ MakeConnector(f) \/ MakeUdp(f)
    \/ \E h \in Holder : Bind(h) \/ Connect(h) \/ SendTo(h) \/ ReceiveFrom(h)
                          \/ GetEndpoint(h)
    \/ \E d \in Known, h \in Holder : SetOption(d, h) \/ GetOption(d, h)
    \/ \E s \in Socket : Accept(s) \/ Convert(s) \/ Receive(s) \/ Send(s) \/ DestroySocket(s)
    \/ Listen \/ ReactAccept \/ CompleteAccept \/ CompleteConnect
    \/ DestroyAcceptor \/ DestroyConnector \/ CloseUdp
    \/ \E ms \in Timeouts : Timeout(ms)
    \/ \E d \in File : Expire(d)
    \/ MakeTimer \/ ReactTimeout \/ CompleteTimeout \/ DestroyTimer

Spec == Init /\ [][Next]_vars

-----------------------------------------------------------------------------
(* Properties.                                                              *)

Names(ep, n) ==
    ep.address = FromNative(n.family, n.bytes) /\ ep.port = Swapped(n.port)

\* What a socket says of its peer is whom the kernel has connected it with, however
\* it came about, unless nobody can know: it was accepted by an acceptor whose
\* endpoint is not of the family of its file (bind stores it before it fails), or it
\* comes of a connector that was not told of success or whose endpoint is not v4.
SocketsKnowPeer ==
    \A s \in Socket :
        LET x == tcp[s] IN
        x # None /\ Open(x.fd) /\ x.fd \notin unsure => Names(x.ep, file[x.fd].peer)

\* The calls that say OK without having done what was asked:
\*   - an endpoint of unknown family is not bound;
\*   - an endpoint that is not v4 is not connected, as the second branch of connect
\*     tests for v4 again;
\*   - the sender of a datagram is misread when the endpoint of the receiver is not of
\*     the family of its file;
\*   - the interface of multicast is passed with the length of a text;
\*   - a group whose interface is not v4 is joined on an interface given by number, or,
\*     like any option without a family, by no system call;
\*   - an interface that is not v4 is read out of fewer bytes than it has, or not at all,
\*     and so is a group.
SaidOnly ==
    \/ said.call = "bind" /\ acceptor.ep.address.family = "unknown"
    \/ said.call = "connect" /\ connector.ep.address.family # "v4"
    \/ said.call = "recv_from" /\ Misread(said.fd, said.by)
    \/ said.call = "set" /\ said.opt.what = "IP_MULTICAST_IF"
    \/ said.call = "get" /\ said.opt.what = "IP_ADD_MEMBERSHIP"
    \/ /\ said.call \in {"set", "get"}
       /\ said.opt.what # "SO_REUSEADDR" /\ said.opt.iface.family # "v4"

\* What was asked has been done: the endpoint is bound; it is connected, and by the time
\* the callback runs still is; a datagram goes to or comes from the endpoint named; a
\* receive has read something; a timer has run for the time asked, which was not 0; an
\* option is set to what was given or read as the kernel has it.
Done ==
    /\ said.call = "bind" => Names(acceptor.ep, file[said.fd].local)
    /\ said.call = "listen" => file[said.fd].listening
    /\ said.call = "connect" => Names(connector.ep, file[said.fd].peer)
    /\ said.call \in {"recv", "send"} => file[said.fd].peer # NoName
    /\ said.call = "recv" => said.bytes > 0
    /\ said.call = "timeout" => said.ms # 0 /\ Elapsed(said.took) = said.ms
    /\ said.call \in {"send_to", "recv_from"} => Names(said.ep, said.n)
    /\ said.call \in {"set", "get"} =>
          \/ said.opt.what = "SO_REUSEADDR" /\ said.opt.int = file[said.fd].reuse
          \/ said.opt.what = "IP_MULTICAST_IF" /\ said.opt.iface.bytes = file[said.fd].outgoing
          \/ /\ said.opt.what = "IP_ADD_MEMBERSHIP"
             /\ <<said.opt.iface.bytes, said.opt.mcast.bytes>> \in file[said.fd].groups

\* What is known after an OK that stands for nothing: a v6 endpoint is never connected;
\* the port of a misread sender is right if there was room for it; the interface of
\* multicast is one nobody named.
Undone ==
    /\ said.call = "connect" /\ Open(said.fd) => file[said.fd].peer.family # "v6"
    /\ said.call = "recv_from" /\ said.by.address.family # "unknown" =>
          said.ep.port = Swapped(said.n.port)
    /\ said.call = "set" /\ said.opt.what = "IP_MULTICAST_IF"
          /\ said.opt.iface.family # "unknown" => file[said.fd].outgoing \in {Zero, Junk}

\* OK means that the kernel has done what was asked, with the endpoint, the option or the
\* timeout that was given, unless it is one of the six kinds of SaidOnly; of three of
\* these something can be said all the same.
OKIsDone == said.ok => IF SaidOnly THEN Undone ELSE Done

\* Every open file is some object's, or has been accepted for a callback that is
\* still to come.  There are two ways to lose one: to destroy an acceptor between the
\* system call and the callback, and to assign to a socket that is in use.
FilesAccounted ==
    {d \in File : Open(d)} =
        (Known \ {Invalid}) \cup lost
          \cup (IF accepting # None /\ accepting.phase = "accepted" THEN {acceptor.peerFd} ELSE {})
=============================================================================
