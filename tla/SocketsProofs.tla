--------------------------- MODULE SocketsProofs ---------------------------
(***************************************************************************)
(* Proofs about the values a program gives the library and about Sockets,   *)
(* which uses them: ports and times convert exactly, every endpoint that an *)
(* io object or the program holds shows the kernel what it reports itself,  *)
(* every open file is accounted for, and a success means what it says.      *)
(***************************************************************************)
EXTENDS Sockets, TLAPS

-----------------------------------------------------------------------------
(* Numbers.                                                                 *)

\* htons and ntohs undo each other.
THEOREM SwappedTwice ==
    ASSUME NEW port \in Bits16
    PROVE  Swapped(port) \in Bits16 /\ Swapped(Swapped(port)) = port
    BY DEF Swapped, Bits16

\* The product of init_timer fits in 32 bits, whatever the timeout.
THEOREM NoWrap == \A ms \in Nat : (ms % 1000) * 1000000 < 1000000000
    OBVIOUS

\* init_timer asks for the time it was given.
THEOREM TimerExact == \A ms \in Nat : ExactTime(ms)
<1> TAKE ms \in Nat
<1> DEFINE s == ms \div 1000
           r == ms % 1000
<1>1. s \in Nat /\ r \in 0..999 /\ ms = 1000 * s + r
    OBVIOUS
<1>2. Expiration(ms) = [sec |-> s, nsec |-> r * 1000000]
    BY DEF Expiration
<1> HIDE DEF s, r
<1>3. (r * 1000000) \div 1000000 = r /\ (r * 1000000) % 1000000 = 0
    BY <1>1
<1>4. r * 1000000 < 1000000000
    BY <1>1
<1>5. Elapsed(Expiration(ms)) = ms
    BY <1>1, <1>2, <1>3 DEF Elapsed
<1>6. Expiration(ms) = [sec |-> 0, nsec |-> 0] <=> ms = 0
    BY <1>1, <1>2
<1> QED
    BY <1>2, <1>3, <1>4, <1>5, <1>6 DEF ExactTime

-----------------------------------------------------------------------------
(* Values.                                                                  *)

GoodEndpoint == {e \in Endpoint : Agrees(e)}

ValueOf(c) == CASE c = "address" -> Address [] c = "endpoint" -> GoodEndpoint [] OTHER -> Option

\* The type of the values, and the invariant of the theorem about them.
ValuesTyped ==
    /\ value = [h \in Holder |-> value[h]]
    /\ \A h \in Holder : value[h] \in ValueOf(Class[h]) \cup {None}

LEMMA NoneIsGood == NoAddress \in Address /\ NoEndpoint \in GoodEndpoint /\ NoOption \in Option
    BY DEF NoAddress, NoEndpoint, NoOption, NoName, Address, GoodEndpoint, Endpoint, Option, Name,
           Agrees, NameLength, Family, Bytes, Bits16

LEMMA TextIsAddress ==
    ASSUME NEW t \in Texts PROVE FromText(t) \in Address
    BY ValueAssumption DEF Text, FromText, FromNative, Address, Family, Bytes

\* init_native_socket shows the kernel what the endpoint was made of.
LEMMA NewIsGood ==
    ASSUME NEW a \in Address, NEW port \in Bits16
    PROVE  NewEndpoint(a, port) \in GoodEndpoint
<1> DEFINE n == NativeName(a, port)
           e == NewEndpoint(a, port)
<1>1. Swapped(port) \in Bits16 /\ Swapped(Swapped(port)) = port
    BY SwappedTwice
<1>2. n \in Name
  <2>1. CASE a.family = "unknown"
    BY <2>1 DEF NativeName, Name, Unwritten, Bytes, Family, Bits16
  <2>2. CASE a.family # "unknown"
    BY <1>1, <2>2 DEF NativeName, Name, Address
  <2> QED
    BY <2>1, <2>2
<1>3. NameLength(a.family) \in {0, 16, 28}
    BY DEF NameLength
<1>4. e \in Endpoint
    BY <1>2, <1>3 DEF NewEndpoint, Endpoint
<1>5. Agrees(e)
    BY <1>1 DEF Agrees, NewEndpoint, NativeName
<1> QED
    BY <1>4, <1>5 DEF GoodEndpoint

\* A name written by the kernel makes an endpoint that agrees with itself, be it the
\* right one or not.
LEMMA NameIsGood ==
    ASSUME NEW f \in Family, NEW n \in Name
    PROVE  FromName(f, n) \in GoodEndpoint
<1>1. Swapped(n.port) \in Bits16
    BY SwappedTwice DEF Name
<1>2. FromNative(f, IF n.family = f THEN n.bytes ELSE Junk) \in Address
    BY DEF FromNative, Address, Name, Bytes
<1> QED
    BY <1>1, <1>2, NewIsGood DEF FromName

LEMMA MovedIsGood ==
    ASSUME NEW c \in {"address", "endpoint"} \cup Options, NEW x \in ValueOf(c)
    PROVE  MovedOf(c, x) \in ValueOf(c) /\ DefaultOf(c) \in ValueOf(c)
    BY NoneIsGood DEF ValueOf, MovedOf, DefaultOf, MovedEndpoint, MovedOption, Option, Options

LEMMA OptionIsGood ==
    ASSUME NEW i \in Address, NEW m \in Address, NEW yes \in {0, 1}
    PROVE  /\ ReuseAddress(yes) \in Option
           /\ SetOutgoingInterface(i) \in Option
           /\ JoinGroup(i, 1, m) \in Option
    BY NoneIsGood DEF ReuseAddress, SetOutgoingInterface, JoinGroup, NoOption, Option

LEMMA ValuesInitTyped == ValuesInit => ValuesTyped
<1> SUFFICES ASSUME ValuesInit PROVE ValuesTyped
    OBVIOUS
<1>1. \A c \in {"address", "endpoint"} \cup Options : DefaultOf(c) \in ValueOf(c)
    BY NoneIsGood DEF DefaultOf, ValueOf, Options
<1> QED
    BY <1>1, ValueAssumption DEF ValuesInit, ValuesTyped

\* What h holds is of its class.
LEMMA HeldTyped ==
    ASSUME ValuesTyped, NEW c, NEW h \in Held(c)
    PROVE  h \in Holder /\ Class[h] = c /\ value[h] \in ValueOf(c)
    BY DEF ValuesTyped, Held

LEMMA MakeTyped ==
    ASSUME ValuesTyped, NEW h \in Holder, NEW x \in ValueOf(Class[h]) \cup {None},
           value' = [value EXCEPT ![h] = x]
    PROVE  ValuesTyped'
    BY DEF ValuesTyped

LEMMA MakeTwoTyped ==
    ASSUME ValuesTyped, NEW g \in Holder, NEW h \in Holder,
           NEW x \in ValueOf(Class[g]) \cup {None}, NEW y \in ValueOf(Class[h]) \cup {None},
           value' = [value EXCEPT ![g] = x, ![h] = y]
    PROVE  ValuesTyped'
    BY DEF ValuesTyped

LEMMA ValuesNextTyped ==
    ASSUME ValuesTyped, ValuesNext
    PROVE  ValuesTyped'
<1> USE DEF Make
<1>1. ASSUME NEW h \in Holder, MakeAddress(h) PROVE ValuesTyped'
    BY <1>1, TextIsAddress, MakeTyped DEF MakeAddress, ValueOf
<1>2. ASSUME NEW h \in Holder, MakeEndpoint(h) PROVE ValuesTyped'
  <2>1. PICK port \in Ports :
          \/ \E t \in Texts : Make(h, NewEndpoint(FromText(t), port))
          \/ \E a \in Held("address") : Make(h, NewEndpoint(value[a], port))
          \/ \E a \in Held("address") :
                value' = [value EXCEPT ![h] = NewEndpoint(value[a], port), ![a] = NoAddress]
    BY <1>2 DEF MakeEndpoint
  <2>2. Class[h] = "endpoint" /\ ValueOf(Class[h]) = GoodEndpoint
    BY <1>2 DEF MakeEndpoint, ValueOf
  <2>3. \A a \in Address : NewEndpoint(a, port) \in ValueOf(Class[h])
    BY <2>2, NewIsGood, AddressAssumption
  <2>4. \A a \in Held("address") :
          a \in Holder /\ value[a] \in Address /\ NoAddress \in ValueOf(Class[a])
    BY HeldTyped, NoneIsGood DEF ValueOf
  <2>5. CASE \E t \in Texts : Make(h, NewEndpoint(FromText(t), port))
    BY <2>5, <2>3, TextIsAddress, MakeTyped
  <2>6. CASE \E a \in Held("address") : Make(h, NewEndpoint(value[a], port))
    BY <2>6, <2>3, <2>4, MakeTyped
  <2>7. CASE \E a \in Held("address") :
                value' = [value EXCEPT ![h] = NewEndpoint(value[a], port), ![a] = NoAddress]
    BY <2>7, <2>3, <2>4, MakeTwoTyped
  <2> QED
    BY <2>1, <2>5, <2>6, <2>7
<1>3. ASSUME NEW h \in Holder, MakeOption(h) PROVE ValuesTyped'
  <2>1. ValueOf(Class[h]) = Option
    BY <1>3 DEF MakeOption, MakeReuse, MakeOutgoing, MakeJoin, ValueOf
  <2>2. \A a \in Held("address") : value[a] \in Address
    BY HeldTyped DEF ValueOf
  <2>3. PICK x \in Option : value' = [value EXCEPT ![h] = x]
    BY <1>3, <2>2, NoneIsGood, OptionIsGood, TextIsAddress
       DEF MakeOption, MakeReuse, MakeOutgoing, MakeJoin
  <2> QED
    BY <2>1, <2>3, MakeTyped
<1>4. ASSUME NEW h \in Holder, Renew(h) PROVE ValuesTyped'
  <2>1. DefaultOf(Class[h]) \in ValueOf(Class[h])
    BY NoneIsGood, ValueAssumption DEF DefaultOf, ValueOf, Options
  <2> QED
    BY <1>4, <2>1, MakeTyped DEF Renew
<1>5. ASSUME NEW e \in Holder, NEW a \in Holder, GetAddress(e, a) PROVE ValuesTyped'
  <2>1. value[e].address \in ValueOf(Class[a])
    BY <1>5, HeldTyped DEF GetAddress, ValueOf, GoodEndpoint, Endpoint
  <2> QED
    BY <1>5, <2>1, MakeTyped DEF GetAddress
<1>6. ASSUME NEW g \in Holder, NEW h \in Holder, Copy(g, h) PROVE ValuesTyped'
  <2>1. value[h] \in ValueOf(Class[g])
    BY <1>6 DEF Copy, ValuesTyped
  <2> QED
    BY <1>6, <2>1, MakeTyped DEF Copy
<1>7. ASSUME NEW g \in Holder, NEW h \in Holder, MoveConstruct(g, h) PROVE ValuesTyped'
  <2>1. value[h] \in ValueOf(Class[g]) /\ Class[g] = Class[h]
    BY <1>7 DEF MoveConstruct, ValuesTyped
  <2>2. MovedOf(Class[h], value[h]) \in ValueOf(Class[h])
    BY <2>1, MovedIsGood, ValueAssumption
  <2> QED
    BY <1>7, <2>1, <2>2, MakeTwoTyped DEF MoveConstruct
<1>8. ASSUME NEW g \in Holder, NEW h \in Holder, MoveAssign(g, h) PROVE ValuesTyped'
  <2>1. value[h] \in ValueOf(Class[g]) \cup {None}
    BY <1>8 DEF MoveAssign, ValuesTyped
  <2> QED
    BY <1>8, <2>1, MakeTwoTyped DEF MoveAssign
<1> QED
    BY <1>1, <1>2, <1>3, <1>4, <1>5, <1>6, <1>7, <1>8 DEF ValuesNext

LEMMA TypedAgree == ValuesTyped => EndpointsAgree
<1> SUFFICES ASSUME ValuesTyped, NEW h \in Held("endpoint") PROVE Agrees(value[h])
    BY DEF EndpointsAgree
<1> QED
    BY HeldTyped DEF ValueOf, GoodEndpoint

\* An endpoint shows the kernel the address and the port it reports itself, through
\* any sequence of constructions, copies, moves and assignments.
THEOREM ValuesAgree == ValueSpec => []EndpointsAgree
<1>1. ValuesInit => ValuesTyped
    BY ValuesInitTyped
<1>2. ValuesTyped /\ [ValuesNext]_values => ValuesTyped'
  <2>1. CASE UNCHANGED values
    BY <2>1 DEF values, ValuesTyped
  <2> QED
    BY <2>1, ValuesNextTyped
<1> QED
    BY <1>1, <1>2, TypedAgree, PTL DEF ValueSpec

-----------------------------------------------------------------------------
(* The type invariant.                                                      *)

Files == [File -> FileRecord \cup {None}]

OpenFiles(f) == {d \in File : f[d] # None}

\* The files with the same ones open.
SameFiles == {f \in Files : OpenFiles(f) = OpenFiles(file)}

Acceptors == [fd : Fd, ep : GoodEndpoint, peerFd : Fd, peerEp : GoodEndpoint]
Connectors == [fd : Fd, ep : GoodEndpoint, told : BOOLEAN]
Tcps == [fd : Fd, ep : GoodEndpoint]
Accepts == [peer : Socket, phase : {"armed", "accepted", "failed"}]
Timings == [ms : Nat, phase : {"armed", "expired", "failed"}, took : Time]

ObjectsTyped ==
    /\ acceptor \in Acceptors \cup {None}
    /\ connector \in Connectors \cup {None}
    /\ tcp \in [Socket -> Tcps \cup {None}]
    /\ udp \in Fd \cup {None}
    /\ timer \in [fd : Fd] \cup {None}

OperationsTyped ==
    /\ accepting \in Accepts \cup {None}
    /\ connecting \in [ok : BOOLEAN] \cup {None}
    /\ timing \in Timings \cup {None}
    /\ accepting # None => acceptor # None
    /\ connecting # None => connector # None
    /\ timing # None => timer # None

Typed == ValuesTyped /\ file \in Files /\ ObjectsTyped /\ OperationsTyped

-----------------------------------------------------------------------------
(* The kernel.                                                              *)

LEMMA SameAreFiles == SameFiles \subseteq Files
    BY DEF SameFiles

LEMMA NoneIsNone ==
    None \notin Fd \cup FileRecord \cup Acceptors \cup Connectors \cup Tcps \cup [fd : Fd]
                   \cup Accepts
    BY SocketsAssumption DEF Acceptors, Connectors, Tcps, Accepts, GoodEndpoint

LEMMA NamesAreNames == NoName \in Name /\ Unwritten \in Name /\ Remote \subseteq Name
    BY SocketsAssumption DEF NoName, Unwritten, Name, Family, Bytes, Bits16

LEMMA FreshTyped ==
    ASSUME NEW type \in {"stream", "datagram", "timer"}, NEW f \in Family \cup {"none"}
    PROVE  Fresh(type, f) \in FileRecord
    BY NamesAreNames DEF Fresh, FileRecord, Bytes, Disarmed, Time

\* One field of an open file is written.
LEMMA FieldTyped ==
    ASSUME file \in Files, NEW d \in File, file[d] # None
    PROVE  /\ \A n \in Name : [file EXCEPT ![d].local = n] \in SameFiles
           /\ \A n \in Name : [file EXCEPT ![d].peer = n] \in SameFiles
           /\ [file EXCEPT ![d].listening = TRUE] \in SameFiles
           /\ \A i \in {0, 1} : [file EXCEPT ![d].reuse = i] \in SameFiles
           /\ \A b \in Bytes : [file EXCEPT ![d].outgoing = b] \in SameFiles
           /\ \A b, c \in Bytes : [file EXCEPT ![d].groups = @ \cup {<<b, c>>}] \in SameFiles
           /\ \A n \in Remote : [file EXCEPT ![d].backlog = @ \cup {n}] \in SameFiles
           /\ \A t \in Time, e \in BOOLEAN :
                 [file EXCEPT ![d].time = t, ![d].expired = e] \in SameFiles
           /\ \A t \in Time : [file EXCEPT ![d].expired = FALSE, ![d].time = t] \in SameFiles
           /\ [file EXCEPT ![d].expired = TRUE] \in SameFiles
<1>1. file[d] \in FileRecord
    BY DEF Files
<1>2. \A r \in FileRecord : [file EXCEPT ![d] = r] \in SameFiles
    BY NoneIsNone DEF Files, SameFiles, OpenFiles
<1>3. \A n \in Name : /\ [file[d] EXCEPT !.local = n] \in FileRecord
                      /\ [file[d] EXCEPT !.peer = n] \in FileRecord
    BY <1>1 DEF FileRecord
<1>4. [file[d] EXCEPT !.listening = TRUE] \in FileRecord
    BY <1>1 DEF FileRecord
<1>5. \A i \in {0, 1} : [file[d] EXCEPT !.reuse = i] \in FileRecord
    BY <1>1 DEF FileRecord
<1>6. \A b \in Bytes : [file[d] EXCEPT !.outgoing = b] \in FileRecord
    BY <1>1 DEF FileRecord
<1>7. \A b, c \in Bytes : [file[d] EXCEPT !.groups = @ \cup {<<b, c>>}] \in FileRecord
    BY <1>1 DEF FileRecord
<1>8. \A n \in Remote : [file[d] EXCEPT !.backlog = @ \cup {n}] \in FileRecord
    BY <1>1 DEF FileRecord
<1>9. \A t \in Time, e \in BOOLEAN : /\ [file[d] EXCEPT !.time = t, !.expired = e] \in FileRecord
                                     /\ [file[d] EXCEPT !.expired = e, !.time = t] \in FileRecord
    BY <1>1 DEF FileRecord
<1>10. [file[d] EXCEPT !.expired = TRUE] \in FileRecord
    BY <1>1 DEF FileRecord
<1> QED
    BY <1>2, <1>3, <1>4, <1>5, <1>6, <1>7, <1>8, <1>9, <1>10

\* A call that fails leaves the files alone.
LEMMA MayFailTyped ==
    ASSUME file \in Files, NEW may \in BOOLEAN, NEW f, may => f \in SameFiles,
           NEW r \in MayFail(may, f)
    PROVE  r.file \in SameFiles
    BY DEF MayFail, Fails, Succeeds, SameFiles

\* Whatever a call returns, the files stay files, and the same ones stay open.
LEMMA ResultsTyped ==
    ASSUME file \in Files, NEW d \in Fd
    PROVE  /\ \A ep \in GoodEndpoint : \A r \in BindResult(d, ep) : r.file \in SameFiles
           /\ \A ep \in GoodEndpoint : \A r \in ConnectResult(d, ep) : r.file \in SameFiles
           /\ \A r \in KernelListen(d) : r.file \in SameFiles
           /\ \A t \in Time : \A r \in KernelSetTime(d, t) : r.file \in SameFiles
<1>1. Open(d) => d \in File /\ file[d] # None
    BY DEF Open
<1>2. \A ep \in GoodEndpoint : ep.name \in Name
    BY DEF GoodEndpoint, Endpoint
<1>3. ASSUME NEW n \in Name, NEW l, NEW r \in KernelBind(d, n, l) \cup KernelConnect(d, n, l)
      PROVE  r.file \in SameFiles
  <2>1. Open(d) => /\ [file EXCEPT ![d].local = n] \in SameFiles
                   /\ [file EXCEPT ![d].peer = n] \in SameFiles
    BY <1>1, FieldTyped
  <2> QED
    BY <1>3, <2>1, MayFailTyped DEF KernelBind, KernelConnect
<1>4. ASSUME NEW r \in KernelListen(d) PROVE r.file \in SameFiles
  <2>1. Open(d) => [file EXCEPT ![d].listening = TRUE] \in SameFiles
    BY <1>1, FieldTyped
  <2> QED
    BY <1>4, <2>1, MayFailTyped DEF KernelListen
<1>5. ASSUME NEW t \in Time, NEW r \in KernelSetTime(d, t) PROVE r.file \in SameFiles
  <2>1. Open(d) => [file EXCEPT ![d].time = t, ![d].expired = FALSE] \in SameFiles
    BY <1>1, FieldTyped
  <2> QED
    BY <1>5, <2>1, MayFailTyped DEF KernelSetTime, Open
<1> QED
    BY <1>2, <1>3, <1>4, <1>5 DEF BindResult, ConnectResult, Succeeds, SameFiles

LEMMA CreatedTyped ==
    ASSUME file \in Files, NEW type \in {"stream", "datagram", "timer"},
           NEW f \in Family \cup {"none"}, NEW r \in Created(type, f)
    PROVE  r.fd \in Fd /\ r.file \in Files
<1>1. \A d \in File : [file EXCEPT ![d] = Fresh(type, f)] \in Files
    BY FreshTyped DEF Files
<1> QED
    BY <1>1 DEF Created, Lowest, Fd

LEMMA AcceptTyped ==
    ASSUME file \in Files, NEW d \in Fd, NEW ep \in GoodEndpoint, NEW r \in AcceptResult(d, ep)
    PROVE  r.fd \in Fd /\ r.ep \in GoodEndpoint /\ r.file \in Files
<1>1. CASE r = [fd |-> Invalid, ep |-> NoEndpoint, file |-> file, n |-> NoName]
    BY <1>1, NoneIsGood DEF Fd
<1>2. CASE r # [fd |-> Invalid, ep |-> NoEndpoint, file |-> file, n |-> NoName]
  <2> DEFINE x(c, n) == [Fresh("stream", file[d].family) EXCEPT !.peer = n]
             y(n) == [file[d] EXCEPT !.backlog = @ \ {n}]
             z(c, n) == [file EXCEPT ![c] = x(c, n), ![d].backlog = @ \ {n}]
  <2>1. PICK c \in Lowest, n \in file[d].backlog :
          Open(d) /\ r = [fd |-> c, ep |-> PeerEndpoint(ep, n), n |-> n, file |-> z(c, n)]
    BY <1>2 DEF AcceptResult
  <2>2. c \in File /\ d \in File /\ c # d /\ file[d] \in FileRecord
    BY <2>1 DEF Lowest, Open, Files
  <2>3. n \in Remote /\ n \in Name /\ y(n) \in FileRecord
    BY <2>1, <2>2, NamesAreNames DEF FileRecord
  <2>4. Fresh("stream", file[d].family) \in FileRecord
    BY <2>2, FreshTyped DEF FileRecord
  <2>5. x(c, n) \in FileRecord
    BY <2>3, <2>4 DEF FileRecord
  <2>6. z(c, n) = [[file EXCEPT ![c] = x(c, n)] EXCEPT ![d] = y(n)]
    BY <2>2 DEF Files
  <2>7. z(c, n) \in Files
    BY <2>2, <2>3, <2>5, <2>6 DEF Files
  <2>8. Written(n, ep.length) \in Name
    BY <2>3, NamesAreNames DEF Written
  <2>9. PeerEndpoint(ep, n) \in GoodEndpoint
    BY <2>8, NameIsGood DEF PeerEndpoint, Family
  <2> QED
    BY <2>1, <2>2, <2>7, <2>9 DEF Fd
<1> QED
    BY <1>1, <1>2

LEMMA ClosedTyped ==
    ASSUME file \in Files, NEW d \in Fd
    PROVE  Closed(d) \in Files
    BY DEF Closed, Fd, Files

LEMMA SetTyped ==
    ASSUME file \in Files, NEW d \in Fd, NEW c, NEW o \in Option, NEW r \in SetResult(d, c, o)
    PROVE  r.file \in SameFiles
<1>1. Open(d) => d \in File /\ file[d] # None
    BY DEF Open
<1>2. o.int \in {0, 1} /\ o.iface.bytes \in Bytes /\ o.mcast.bytes \in Bytes
    BY DEF Option, Address
<1>3. Zero \in Bytes /\ Junk \in Bytes /\ 0 \in {0, 1}
    BY DEF Bytes
<1>4. ASSUME NEW what, NEW int \in {0, 1}, NEW b \in Bytes, NEW m \in Bytes, NEW length,
             NEW k \in KernelSet(d, what, int, b, m, length)
      PROVE  k.file \in SameFiles
  <2>1. CASE what = "SO_REUSEADDR"
    <3>1. Open(d) => [file EXCEPT ![d].reuse = int] \in SameFiles
      BY <1>1, FieldTyped
    <3> QED
      BY <1>4, <2>1, <3>1 DEF KernelSet, MayFail, Fails, Succeeds, SameFiles
  <2>2. CASE what = "IP_MULTICAST_IF"
    <3>1. PICK i \in {b, Zero, Junk} :
            k \in MayFail(Open(d) /\ file[d].type = "datagram", [file EXCEPT ![d].outgoing = i])
      BY <1>4, <2>2 DEF KernelSet
    <3>2. Open(d) => [file EXCEPT ![d].outgoing = i] \in SameFiles
      BY <1>1, <1>3, FieldTyped
    <3> QED
      BY <3>1, <3>2 DEF MayFail, Fails, Succeeds, SameFiles
  <2>3. CASE what = "IP_ADD_MEMBERSHIP"
    <3>1. Open(d) => [file EXCEPT ![d].groups = @ \cup {<<b, m>>}] \in SameFiles
      BY <1>1, FieldTyped
    <3> QED
      BY <1>4, <2>3, <3>1 DEF KernelSet, MayFail, Fails, Succeeds, SameFiles
  <2>4. CASE what \notin {"SO_REUSEADDR", "IP_MULTICAST_IF", "IP_ADD_MEMBERSHIP"}
    BY <1>4, <2>4 DEF KernelSet, Fails, SameFiles
  <2> QED
    BY <2>1, <2>2, <2>3, <2>4
<1> QED
    BY <1>2, <1>3, <1>4 DEF SetResult, SetInt, SetAddress, SetGroup, Succeeds, SameFiles

LEMMA GetTyped ==
    ASSUME file \in Files, NEW d \in Fd, NEW c, NEW o \in Option, NEW g \in GetResult(d, c, o)
    PROVE  g \in Option \cup {None}
<1>1. Open(d) => file[d].reuse \in {0, 1} /\ file[d].outgoing \in Bytes
    BY DEF Open, Files, FileRecord
<1>2. \A i \in {0, 1} : [o EXCEPT !.int = i] \in Option
    BY DEF Option
<1>3. \A a \in Address : [o EXCEPT !.iface = a] \in Option
    BY DEF Option
<1>4. \A b \in Bytes : FromNative(o.iface.family, b) \in Address
    BY DEF FromNative, Option, Address
<1>5. CASE c = "reuse"
    BY <1>1, <1>2, <1>5 DEF GetResult, GetInt
<1>6. CASE c = "outgoing"
  <2>1. Junk \in Bytes
    BY DEF Bytes
  <2> DEFINE a == FromNative(o.iface.family,
                             IF o.iface.family = "v4" THEN file[d].outgoing ELSE Junk)
  <2>2. Open(d) => [o EXCEPT !.iface = a] \in Option
    BY <1>1, <1>3, <1>4, <2>1
  <2>3. [o EXCEPT !.iface = a] = [o EXCEPT !.iface = FromNative(@.family,
                             IF @.family = "v4" THEN file[d].outgoing ELSE Junk)]
    BY DEF Option
  <2> QED
    BY <1>6, <2>2, <2>3 DEF GetResult, GetAddressOption
<1>7. CASE c \notin {"reuse", "outgoing"}
    BY <1>7 DEF GetResult, GetGroup
<1> QED
    BY <1>5, <1>6, <1>7

-----------------------------------------------------------------------------
(* The steps.                                                               *)

\* The endpoint of an object and the files it may have.
LEMMA ObjectFd ==
    ASSUME Typed
    PROVE  /\ acceptor # None => acceptor \in Acceptors
           /\ connector # None => connector \in Connectors
           /\ timer # None => timer \in [fd : Fd]
           /\ \A s \in Socket : tcp[s] # None => tcp[s] \in Tcps
           /\ Known \subseteq Fd
<1>1. /\ acceptor # None => acceptor \in Acceptors
      /\ connector # None => connector \in Connectors
      /\ timer # None => timer \in [fd : Fd]
      /\ \A s \in Socket : tcp[s] # None => tcp[s] \in Tcps
    BY DEF Typed, ObjectsTyped
<1>2. udp \in Fd \cup {None}
    BY DEF Typed, ObjectsTyped
<1> QED
    BY <1>1, <1>2 DEF Known, Acceptors, Connectors, Tcps

LEMMA ValuesStep == ASSUME Typed, UseValues PROVE Typed'
    BY ValuesNextTyped DEF Typed, UseValues, ObjectsTyped, OperationsTyped, objects, operations

LEMMA FilesStep ==
    ASSUME Typed, file' \in Files, UNCHANGED <<value, objects, operations>>
    PROVE  Typed'
    BY DEF Typed, ValuesTyped, ObjectsTyped, OperationsTyped, objects, operations

LEMMA WorldStep ==
    ASSUME Typed,
           \/ \E d \in File, n \in Remote : Incoming(d, n)
           \/ \E d \in File : Expire(d)
    PROVE  Typed'
<1>1. ASSUME NEW d \in File, NEW n \in Remote, Incoming(d, n) PROVE Typed'
    BY <1>1, FieldTyped, FilesStep, SameAreFiles DEF Incoming, Open, values, Typed
<1>2. ASSUME NEW d \in File, Expire(d) PROVE Typed'
    BY <1>2, FieldTyped, FilesStep, SameAreFiles DEF Expire, Open, values, Typed
<1> QED
    BY <1>1, <1>2

LEMMA MakeStep ==
    ASSUME Typed,
           \/ \E f \in Family : MakeAcceptor(f) \/ MakeConnector(f) \/ MakeUdp(f)
           \/ MakeTimer
    PROVE  Typed'
<1>1. ASSUME NEW f \in Family, MakeAcceptor(f) PROVE Typed'
  <2>1. file' \in Files /\ acceptor' \in Acceptors
    BY <1>1, CreatedTyped, NoneIsGood DEF MakeAcceptor, Acceptors, Fd, Typed
  <2> QED
    BY <1>1, <2>1 DEF MakeAcceptor, Typed, ValuesTyped, ObjectsTyped, OperationsTyped, operations
<1>2. ASSUME NEW f \in Family, MakeConnector(f) PROVE Typed'
  <2>1. file' \in Files /\ connector' \in Connectors
    BY <1>2, CreatedTyped, NoneIsGood DEF MakeConnector, Connectors, Typed
  <2> QED
    BY <1>2, <2>1 DEF MakeConnector, Typed, ValuesTyped, ObjectsTyped, OperationsTyped, operations
<1>3. ASSUME NEW f \in Family, MakeUdp(f) PROVE Typed'
  <2>1. file' \in Files /\ udp' \in Fd
    BY <1>3, CreatedTyped DEF MakeUdp, Typed
  <2> QED
    BY <1>3, <2>1 DEF MakeUdp, Typed, ValuesTyped, ObjectsTyped, OperationsTyped, operations
<1>4. ASSUME MakeTimer PROVE Typed'
  <2>1. file' \in Files /\ timer' \in [fd : Fd]
    BY <1>4, CreatedTyped DEF MakeTimer, TimerOpened, Typed
  <2> QED
    BY <1>4, <2>1 DEF MakeTimer, Typed, ValuesTyped, ObjectsTyped, OperationsTyped, operations
<1> QED
    BY <1>1, <1>2, <1>3, <1>4

LEMMA AcceptorStep ==
    ASSUME Typed,
           \/ \E h \in Holder : Bind(h)
           \/ \E s \in Socket : Accept(s)
           \/ Listen \/ ReactAccept \/ CompleteAccept \/ DestroyAcceptor
    PROVE  Typed'
<1>1. acceptor # None => acceptor \in Acceptors
    BY ObjectFd
<1>2. ASSUME NEW h \in Holder, Bind(h) PROVE Typed'
  <2>1. value[h] \in GoodEndpoint
    BY <1>2, HeldTyped DEF Bind, Typed, ValueOf
  <2>2. acceptor' \in Acceptors /\ acceptor'.fd = acceptor.fd
    BY <1>1, <1>2, <2>1 DEF Bind, Acceptors
  <2>3. PICK r \in BindResult(acceptor.fd, value[h]) : file' = r.file
    BY <1>2 DEF Bind
  <2>4. file' \in Files
    BY <1>1, <1>2, <2>1, <2>3, ResultsTyped, SameAreFiles DEF Bind, Acceptors, Typed
  <2> QED
    BY <1>2, <2>2, <2>4, NoneIsNone
       DEF Bind, Typed, values, ValuesTyped, ObjectsTyped, OperationsTyped, operations
<1>3. ASSUME NEW s \in Socket, Accept(s) PROVE Typed'
  <2>1. accepting' \in Accepts
    BY <1>3 DEF Accept, Accepts
  <2> QED
    BY <1>3, <2>1
       DEF Accept, Typed, values, ValuesTyped, ObjectsTyped, OperationsTyped, objects
<1>4. ASSUME Listen PROVE Typed'
  <2>1. PICK r \in KernelListen(acceptor.fd) : file' = r.file
    BY <1>4 DEF Listen
  <2>2. file' \in Files
    BY <1>1, <1>4, <2>1, ResultsTyped, SameAreFiles DEF Listen, Acceptors, Typed
  <2> QED
    BY <1>4, <2>2, FilesStep DEF Listen, values
<1>5. ASSUME ReactAccept PROVE Typed'
  <2>1. acceptor \in Acceptors /\ accepting \in Accepts
    BY <1>1, <1>5 DEF ReactAccept, Typed, OperationsTyped
  <2>2. PICK r \in AcceptResult(acceptor.fd, acceptor.ep) :
          /\ acceptor' = [acceptor EXCEPT !.peerFd = r.fd, !.peerEp = r.ep]
          /\ file' = r.file
          /\ accepting' = [accepting EXCEPT !.phase =
                              IF r.fd = Invalid THEN "failed" ELSE "accepted"]
    BY <1>5 DEF ReactAccept
  <2>3. r.fd \in Fd /\ r.ep \in GoodEndpoint /\ r.file \in Files
    BY <2>1, AcceptTyped DEF Acceptors, Typed
  <2>4. acceptor' \in Acceptors
    BY <2>1, <2>2, <2>3 DEF Acceptors
  <2>5. accepting' \in Accepts
    BY <2>1, <2>2 DEF Accepts
  <2> QED
    BY <1>5, <2>2, <2>3, <2>4, <2>5, NoneIsNone
       DEF ReactAccept, Typed, values, ValuesTyped, ObjectsTyped, OperationsTyped
<1>6. ASSUME CompleteAccept PROVE Typed'
  <2>1. acceptor \in Acceptors /\ accepting \in Accepts
    BY <1>1, <1>6 DEF CompleteAccept, Typed, OperationsTyped
  <2>2. tcp' \in [Socket -> Tcps \cup {None}]
    BY <1>6, <2>1 DEF CompleteAccept, Typed, ObjectsTyped, Acceptors, Accepts, Tcps
  <2> QED
    BY <1>6, <2>2
       DEF CompleteAccept, Typed, values, ValuesTyped, ObjectsTyped, OperationsTyped
<1>7. ASSUME DestroyAcceptor PROVE Typed'
  <2>1. file' \in Files
    BY <1>1, <1>7, ClosedTyped DEF DestroyAcceptor, Acceptors, Typed
  <2> QED
    BY <1>7, <2>1 DEF DestroyAcceptor, Typed, values, ValuesTyped, ObjectsTyped, OperationsTyped
<1> QED
    BY <1>2, <1>3, <1>4, <1>5, <1>6, <1>7

LEMMA ConnectorStep ==
    ASSUME Typed,
           \/ \E h \in Holder : Connect(h)
           \/ \E s \in Socket : Convert(s)
           \/ CompleteConnect \/ DestroyConnector
    PROVE  Typed'
<1>1. connector # None => connector \in Connectors
    BY ObjectFd
<1>2. ASSUME NEW h \in Holder, Connect(h) PROVE Typed'
  <2>1. value[h] \in GoodEndpoint
    BY <1>2, HeldTyped DEF Connect, Typed, ValueOf
  <2>2. connector' \in Connectors
    BY <1>1, <1>2, <2>1 DEF Connect, Connectors
  <2>3. PICK r \in ConnectResult(connector.fd, value[h]), armed \in BOOLEAN :
          file' = r.file /\ connecting' = [ok |-> r.ok /\ armed]
    BY <1>2 DEF Connect
  <2>4. file' \in Files
    BY <1>1, <1>2, <2>1, <2>3, ResultsTyped, SameAreFiles DEF Connect, Connectors, Typed
  <2>5. connecting' \in [ok : BOOLEAN]
    BY <2>3
  <2> QED
    BY <1>2, <2>2, <2>4, <2>5, NoneIsNone
       DEF Connect, Typed, values, ValuesTyped, ObjectsTyped, OperationsTyped
<1>3. ASSUME NEW s \in Socket, Convert(s) PROVE Typed'
  <2>1. tcp' \in [Socket -> Tcps \cup {None}]
    BY <1>1, <1>3 DEF Convert, Typed, ObjectsTyped, Connectors, Tcps
  <2> QED
    BY <1>3, <2>1
       DEF Convert, Typed, values, ValuesTyped, ObjectsTyped, OperationsTyped, operations
<1>4. ASSUME CompleteConnect PROVE Typed'
  <2>1. connecting \in [ok : BOOLEAN] /\ connector \in Connectors
    BY <1>1, <1>4 DEF CompleteConnect, Typed, OperationsTyped
  <2>2. connector' \in Connectors
    BY <1>4, <2>1 DEF CompleteConnect, Connectors
  <2> QED
    BY <1>4, <2>2
       DEF CompleteConnect, Typed, values, ValuesTyped, ObjectsTyped, OperationsTyped
<1>5. ASSUME DestroyConnector PROVE Typed'
  <2>1. file' \in Files
    BY <1>1, <1>5, ClosedTyped DEF DestroyConnector, Connectors, Typed
  <2> QED
    BY <1>5, <2>1 DEF DestroyConnector, Typed, values, ValuesTyped, ObjectsTyped, OperationsTyped
<1> QED
    BY <1>2, <1>3, <1>4, <1>5

LEMMA TimerStep ==
    ASSUME Typed,
           \/ \E ms \in Timeouts : Timeout(ms)
           \/ ReactTimeout \/ CompleteTimeout \/ DestroyTimer
    PROVE  Typed'
<1>1. timer # None => timer \in [fd : Fd]
    BY ObjectFd
<1>2. ASSUME NEW ms \in Timeouts, Timeout(ms) PROVE Typed'
  <2>1. ms \in Nat /\ Disarmed \in Time
    BY SocketsAssumption DEF Disarmed, Time
  <2>2. Expiration(ms) \in Time
    BY <2>1 DEF Expiration, Time
  <2>3. PICK armed \in {FALSE} \cup {Open(timer.fd)} :
        \E r \in IF armed THEN KernelSetTime(timer.fd, Expiration(ms)) ELSE {Fails} :
          /\ file' = r.file
          /\ timing' = [ms |-> ms, phase |-> IF r.ok THEN "armed" ELSE "failed", took |-> Disarmed]
    BY <1>2 DEF Timeout
  <2>4. timing' \in Timings
    BY <2>1, <2>3 DEF Timings
  <2>5. file' \in Files
    <3>1. CASE \E r \in KernelSetTime(timer.fd, Expiration(ms)) : file' = r.file
      BY <1>1, <1>2, <2>2, <3>1, ResultsTyped, SameAreFiles DEF Timeout, Typed
    <3>2. CASE file' = file
      BY <3>2 DEF Typed
    <3> QED
      BY <2>3, <3>1, <3>2 DEF Fails
  <2> QED
    BY <1>2, <2>4, <2>5
       DEF Timeout, Typed, values, ValuesTyped, ObjectsTyped, OperationsTyped, objects
<1>3. ASSUME ReactTimeout PROVE Typed'
  <2>1. timing \in Timings /\ timer \in [fd : Fd] /\ Disarmed \in Time
    BY <1>1, <1>3 DEF ReactTimeout, Typed, OperationsTyped, Disarmed, Time
  <2>2. file[timer.fd].time \in Time /\ file' \in Files
    <3>1. timer.fd \in File /\ file[timer.fd] # None /\ file[timer.fd] \in FileRecord
      BY <1>3 DEF ReactTimeout, Open, Typed, Files
    <3>2. [file EXCEPT ![timer.fd].expired = FALSE, ![timer.fd].time = Disarmed] \in Files
      BY <2>1, <3>1, FieldTyped, SameAreFiles DEF Typed
    <3> QED
      BY <1>3, <3>1, <3>2 DEF ReactTimeout, FileRecord
  <2>3. timing' \in Timings
    BY <1>3, <2>1, <2>2 DEF ReactTimeout, Timings
  <2> QED
    BY <1>3, <2>2, <2>3
       DEF ReactTimeout, Typed, values, ValuesTyped, ObjectsTyped, OperationsTyped, objects
<1>4. ASSUME CompleteTimeout PROVE Typed'
    BY <1>4 DEF CompleteTimeout, Typed, values, ValuesTyped, ObjectsTyped, OperationsTyped, objects
<1>5. ASSUME DestroyTimer PROVE Typed'
  <2>1. file' \in Files
    BY <1>1, <1>5, ClosedTyped DEF DestroyTimer, Typed
  <2> QED
    BY <1>5, <2>1 DEF DestroyTimer, Typed, values, ValuesTyped, ObjectsTyped, OperationsTyped
<1> QED
    BY <1>2, <1>3, <1>4, <1>5

LEMMA SocketStep ==
    ASSUME Typed,
           \/ \E s \in Socket : Receive(s) \/ Send(s) \/ DestroySocket(s)
           \/ CloseUdp
           \/ \E h \in Holder : ReceiveFrom(h) \/ SendTo(h) \/ GetEndpoint(h)
           \/ \E d \in Known, h \in Holder : SetOption(d, h) \/ GetOption(d, h)
    PROVE  Typed'
<1>1. ASSUME NEW s \in Socket, Receive(s) \/ Send(s) PROVE Typed'
    BY <1>1, FilesStep DEF Receive, Send, values, Typed
<1>2. ASSUME NEW s \in Socket, DestroySocket(s) PROVE Typed'
  <2>1. file' \in Files
    BY <1>2, ObjectFd, ClosedTyped DEF DestroySocket, Typed, Tcps
  <2>2. tcp' \in [Socket -> Tcps \cup {None}]
    BY <1>2 DEF DestroySocket, Typed, ObjectsTyped
  <2> QED
    BY <1>2, <2>1, <2>2
       DEF DestroySocket, Typed, values, ValuesTyped, ObjectsTyped, OperationsTyped, operations
<1>3. ASSUME CloseUdp PROVE Typed'
  <2>1. file' \in Files
    BY <1>3, ClosedTyped DEF CloseUdp, Typed, ObjectsTyped
  <2> QED
    BY <1>3, <2>1
       DEF CloseUdp, Typed, values, ValuesTyped, ObjectsTyped, OperationsTyped, operations
<1>4. ASSUME NEW h \in Holder, ReceiveFrom(h) \/ SendTo(h) PROVE Typed'
    BY <1>4, FilesStep DEF ReceiveFrom, SendTo, values, Typed
<1>5. ASSUME NEW h \in Holder, GetEndpoint(h) PROVE Typed'
  <2>1. PICK x \in {acceptor, connector} \cup {tcp[s] : s \in Socket} :
          x # None /\ value' = [value EXCEPT ![h] = x.ep]
    BY <1>5 DEF GetEndpoint
  <2>2. x.ep \in ValueOf(Class[h])
    BY <1>5, <2>1, ObjectFd DEF GetEndpoint, ValueOf, Acceptors, Connectors, Tcps
  <2>3. ValuesTyped'
    BY <2>1, <2>2, MakeTyped DEF Typed
  <2> QED
    BY <1>5, <2>3 DEF GetEndpoint, Typed, ObjectsTyped, OperationsTyped, objects, operations
<1>6. ASSUME NEW d \in Known, NEW h \in Holder, SetOption(d, h) PROVE Typed'
  <2>1. value[h] \in Option
    BY <1>6 DEF SetOption, Typed, ValuesTyped, ValueOf, Options
  <2>2. file' \in Files
    BY <1>6, <2>1, ObjectFd, SetTyped, SameAreFiles DEF SetOption, Typed
  <2> QED
    BY <1>6, <2>2, FilesStep DEF SetOption, values
<1>7. ASSUME NEW d \in Known, NEW h \in Holder, GetOption(d, h) PROVE Typed'
  <2>1. value[h] \in Option /\ ValueOf(Class[h]) = Option
    BY <1>7 DEF GetOption, Typed, ValuesTyped, ValueOf, Options
  <2>2. PICK o \in GetResult(d, Class[h], value[h]) :
          value' = IF o = None THEN value ELSE [value EXCEPT ![h] = o]
    BY <1>7 DEF GetOption
  <2>3. o \in Option \cup {None}
    BY <2>1, ObjectFd, GetTyped DEF Typed
  <2>4. ValuesTyped'
    <3>1. CASE o = None
      BY <2>2, <3>1 DEF Typed, ValuesTyped
    <3>2. CASE o # None
      BY <2>1, <2>2, <2>3, <3>2, MakeTyped DEF Typed
    <3> QED
      BY <3>1, <3>2
  <2> QED
    BY <1>7, <2>4 DEF GetOption, Typed, ObjectsTyped, OperationsTyped, objects, operations
<1> QED
    BY <1>1, <1>2, <1>3, <1>4, <1>5, <1>6, <1>7

LEMMA InitTyped == Init => Typed
    BY ValuesInitTyped DEF Init, Typed, Files, ObjectsTyped, OperationsTyped

LEMMA NextTyped == Typed /\ [Next]_vars => Typed'
<1> SUFFICES ASSUME Typed, [Next]_vars PROVE Typed'
    OBVIOUS
<1>1. CASE UNCHANGED vars
    BY <1>1, FilesStep DEF vars, values, Typed
<1>2. CASE Next
    BY <1>2, ValuesStep, WorldStep, MakeStep, AcceptorStep, ConnectorStep, TimerStep, SocketStep
       DEF Next
<1> QED
    BY <1>1, <1>2

\* The program, the io objects and the kernel hold what they should.
THEOREM SocketsTyped == Spec => []Typed
    BY InitTyped, NextTyped, PTL DEF Spec

\* An endpoint shows the kernel the address and the port it reports itself, also one
\* that was read from the kernel by accept.
THEOREM SocketsAgree == Spec => []EndpointsAgree
<1>1. Typed => EndpointsAgree
    BY TypedAgree DEF Typed
<1> QED
    BY <1>1, SocketsTyped, PTL

-----------------------------------------------------------------------------
(* Every open file is accounted for: no file has two owners, which is what   *)
(* makes it right for a destructor to close the file it knows.              *)

\* The file of each object, Invalid when it has none.
FdOf(x) == IF x = None THEN Invalid ELSE x.fd
UdpFd == IF udp = None THEN Invalid ELSE udp
PeerFd == IF accepting # None /\ accepting.phase = "accepted" THEN acceptor.peerFd ELSE Invalid

Singles == <<FdOf(acceptor), FdOf(connector), FdOf(timer), UdpFd, PeerFd>>
SocketFd == [s \in Socket |-> FdOf(tcp[s])]

Apart(d, e) == d = e => d = Invalid

\* No file has two owners, and none that is lost has one.
OneOwner ==
    /\ \A i, j \in 1..5 : i # j => Apart(Singles[i], Singles[j])
    /\ \A i \in 1..5, s \in Socket : Apart(Singles[i], SocketFd[s])
    /\ \A r, s \in Socket : r # s => Apart(SocketFd[r], SocketFd[s])
    /\ \A i \in 1..5 : Singles[i] \notin lost
    /\ \A s \in Socket : SocketFd[s] \notin lost

Owned == {Singles[i] : i \in 1..5} \cup {SocketFd[s] : s \in Socket}

\* What has been accepted is a file.
PeerIsFile == accepting # None /\ accepting.phase = "accepted" => acceptor.peerFd # Invalid

EachOwned ==
    /\ OpenFiles(file) = (Owned \ {Invalid}) \cup lost
    /\ PeerIsFile

FilesInv == Typed /\ OneOwner /\ EachOwned

LEMMA FilesInvAccounts == FilesInv => FilesAccounted
<1> SUFFICES ASSUME FilesInv PROVE FilesAccounted
    OBVIOUS
<1>1. Invalid \notin File
    BY SocketsAssumption
<1>2. Owned = {FdOf(acceptor), FdOf(connector), FdOf(timer), UdpFd, PeerFd}
                 \cup {SocketFd[s] : s \in Socket}
    BY DEF Owned, Singles
<1>3. {SocketFd[s] : s \in Socket} \ {Invalid} =
         {tcp[s].fd : s \in {s \in Socket : tcp[s] # None}} \ {Invalid}
    BY DEF SocketFd, FdOf
<1>4. {FdOf(acceptor), FdOf(connector), FdOf(timer)} \ {Invalid} =
         {x.fd : x \in {acceptor, connector, timer} \ {None}} \ {Invalid}
    BY DEF FdOf
<1>5. {UdpFd} \ {Invalid} = ({udp} \ {None}) \ {Invalid}
    BY DEF UdpFd
<1>6. {PeerFd} \ {Invalid} =
         IF accepting # None /\ accepting.phase = "accepted" THEN {acceptor.peerFd} ELSE {}
    BY DEF FilesInv, EachOwned, PeerIsFile, PeerFd
<1>7. {d \in File : Open(d)} = OpenFiles(file)
    BY DEF OpenFiles, Open
<1> QED
    BY <1>2, <1>3, <1>4, <1>5, <1>6, <1>7 DEF FilesInv, EachOwned, FilesAccounted, Known

-----------------------------------------------------------------------------
(* What a step may do to the owners.                                        *)

\* Nothing.
LEMMA OwnersSame ==
    ASSUME FilesInv, Typed', UNCHANGED <<Singles, SocketFd, lost>>,
           OpenFiles(file') = OpenFiles(file), PeerIsFile'
    PROVE  FilesInv'
<1>1. Owned' = Owned
    BY DEF Owned
<1> QED
    BY <1>1 DEF FilesInv, OneOwner, EachOwned

\* An owner without a file is given a new one, or closes the one it has.
LEMMA OwnerOpens ==
    ASSUME FilesInv, NEW i \in 1..5, NEW d \in File, Singles[i] = Invalid, file[d] = None,
           Singles' = [Singles EXCEPT ![i] = d], UNCHANGED <<SocketFd, lost>>,
           OpenFiles(file') = OpenFiles(file) \cup {d}
    PROVE  OneOwner' /\ OpenFiles(file') = (Owned' \ {Invalid}) \cup lost'
<1>1. Singles \in [1..5 -> {Singles[j] : j \in 1..5}]
    BY DEF Singles
<1>2. d \notin OpenFiles(file) /\ d # Invalid
    BY SocketsAssumption DEF OpenFiles
<1>3. d \notin Owned /\ d \notin lost
    BY <1>2 DEF FilesInv, EachOwned
<1>4. Singles'[i] = d /\ \A j \in 1..5 \ {i} : Singles'[j] = Singles[j]
    BY <1>1
<1>5. OneOwner'
    BY <1>3, <1>4 DEF FilesInv, OneOwner, Owned, Apart
<1>6. Owned' \ {Invalid} = (Owned \ {Invalid}) \cup {d}
    BY <1>2, <1>4 DEF Owned
<1> QED
    BY <1>5, <1>6 DEF FilesInv, EachOwned

LEMMA OwnerCloses ==
    ASSUME FilesInv, NEW i \in 1..5,
           Singles' = [Singles EXCEPT ![i] = Invalid], UNCHANGED <<SocketFd, lost>>,
           OpenFiles(file') = OpenFiles(file) \ {Singles[i]}
    PROVE  OneOwner' /\ OpenFiles(file') = (Owned' \ {Invalid}) \cup lost'
<1>1. Singles \in [1..5 -> {Singles[j] : j \in 1..5}]
    BY DEF Singles
<1>2. Singles'[i] = Invalid /\ \A j \in 1..5 \ {i} : Singles'[j] = Singles[j]
    BY <1>1
<1>3. Invalid \notin lost
    BY SocketsAssumption DEF FilesInv, EachOwned, OpenFiles
<1>4. OneOwner'
    BY <1>2, <1>3 DEF FilesInv, OneOwner, Apart
<1>5. Owned' \ {Invalid} = (Owned \ {Invalid}) \ {Singles[i]}
    BY <1>2 DEF FilesInv, OneOwner, Owned, Apart
<1> QED
    BY <1>4, <1>5 DEF FilesInv, EachOwned, OneOwner

LEMMA SocketCloses ==
    ASSUME FilesInv, NEW s \in Socket,
           SocketFd' = [SocketFd EXCEPT ![s] = Invalid], UNCHANGED <<Singles, lost>>,
           OpenFiles(file') = OpenFiles(file) \ {SocketFd[s]}
    PROVE  OneOwner' /\ OpenFiles(file') = (Owned' \ {Invalid}) \cup lost'
<1>1. SocketFd'[s] = Invalid /\ \A r \in Socket \ {s} : SocketFd'[r] = SocketFd[r]
    BY DEF SocketFd
<1>2. Invalid \notin lost
    BY SocketsAssumption DEF FilesInv, EachOwned, OpenFiles
<1>3. OneOwner'
    BY <1>1, <1>2 DEF FilesInv, OneOwner, Apart
<1>4. Owned' \ {Invalid} = (Owned \ {Invalid}) \ {SocketFd[s]}
    BY <1>1 DEF FilesInv, OneOwner, Owned, Apart
<1> QED
    BY <1>3, <1>4 DEF FilesInv, EachOwned, OneOwner

\* A file goes from its owner to a socket, and the one the socket had is lost.
Gives(i, s) ==
    /\ Singles' = [Singles EXCEPT ![i] = Invalid]
    /\ SocketFd' = [SocketFd EXCEPT ![s] = Singles[i]]
    /\ lost' = lost \cup ({SocketFd[s]} \ {Invalid})
    /\ OpenFiles(file') = OpenFiles(file)

LEMMA OwnerGives ==
    ASSUME FilesInv, NEW i \in 1..5, NEW s \in Socket, Gives(i, s)
    PROVE  OneOwner' /\ OpenFiles(file') = (Owned' \ {Invalid}) \cup lost'
<1>1. Singles \in [1..5 -> {Singles[j] : j \in 1..5}]
    BY DEF Singles
<1>2. Singles'[i] = Invalid /\ \A j \in 1..5 \ {i} : Singles'[j] = Singles[j]
    BY <1>1 DEF Gives
<1>3. SocketFd'[s] = Singles[i] /\ \A r \in Socket \ {s} : SocketFd'[r] = SocketFd[r]
    BY DEF SocketFd, Gives
<1>4. Invalid \notin lost
    BY SocketsAssumption DEF FilesInv, EachOwned, OpenFiles
<1>5. OneOwner'
    BY <1>2, <1>3, <1>4 DEF FilesInv, OneOwner, Apart, Gives
<1>6. (Owned' \ {Invalid}) \cup lost' = (Owned \ {Invalid}) \cup lost
    BY <1>2, <1>3 DEF Owned, Gives
<1> QED
    BY <1>5, <1>6 DEF FilesInv, EachOwned, Gives

\* The acceptor closes its file, and one it has accepted is lost.
LEMMA AcceptorCloses ==
    ASSUME FilesInv,
           Singles' = [Singles EXCEPT ![1] = Invalid, ![5] = Invalid], UNCHANGED SocketFd,
           lost' = lost \cup ({Singles[5]} \ {Invalid}),
           OpenFiles(file') = OpenFiles(file) \ {Singles[1]}
    PROVE  OneOwner' /\ OpenFiles(file') = (Owned' \ {Invalid}) \cup lost'
<1>1. Singles \in [1..5 -> {Singles[j] : j \in 1..5}]
    BY DEF Singles
<1>2. \A j \in 1..5 : Singles'[j] = IF j \in {1, 5} THEN Invalid ELSE Singles[j]
    BY <1>1
<1>3. Invalid \notin lost
    BY SocketsAssumption DEF FilesInv, EachOwned, OpenFiles
<1>4. OneOwner'
  <2>1. \A j, k \in 1..5 : j # k => Apart(Singles'[j], Singles'[k])
    BY <1>2 DEF FilesInv, OneOwner, Apart
  <2>2. \A j \in 1..5, s \in Socket : Apart(Singles'[j], SocketFd[s])
    BY <1>2 DEF FilesInv, OneOwner, Apart
  <2>3. \A j \in 1..5 : Singles'[j] \notin lost'
    BY <1>2, <1>3 DEF FilesInv, OneOwner, Apart
  <2>4. \A s \in Socket : SocketFd[s] \notin lost'
    BY DEF FilesInv, OneOwner, Apart
  <2> QED
    BY <2>1, <2>2, <2>3, <2>4 DEF FilesInv, OneOwner
<1>5. Owned' \ {Invalid} = (Owned \ {Invalid}) \ {Singles[1], Singles[5]}
    BY <1>2 DEF FilesInv, OneOwner, Owned, Apart
<1>6. Singles[1] # Invalid => Singles[1] # Singles[5]
    BY DEF FilesInv, OneOwner, Apart
<1>7. Singles[5] \in Owned /\ Singles[1] \notin lost
    BY DEF Owned, FilesInv, OneOwner
<1>8. (Owned' \ {Invalid}) \cup lost' = ((Owned \ {Invalid}) \cup lost) \ {Singles[1]}
    BY <1>5, <1>6, <1>7
<1> QED
    BY <1>4, <1>8 DEF FilesInv, EachOwned

-----------------------------------------------------------------------------
(* The steps.                                                               *)

\* The steps that open and close nothing and that change no owner.
Keeps ==
    \/ UseValues
    \/ \E d \in File, n \in Remote : Incoming(d, n)
    \/ \E h \in Holder : Bind(h) \/ Connect(h) \/ SendTo(h) \/ ReceiveFrom(h) \/ GetEndpoint(h)
    \/ \E d \in Known, h \in Holder : SetOption(d, h) \/ GetOption(d, h)
    \/ \E s \in Socket : Accept(s) \/ Receive(s) \/ Send(s)
    \/ Listen \/ CompleteConnect
    \/ \E ms \in Timeouts : Timeout(ms)
    \/ \E d \in File : Expire(d)
    \/ ReactTimeout \/ CompleteTimeout
    \/ UNCHANGED vars

LEMMA KeepsFiles ==
    ASSUME Typed, Keeps
    PROVE  OpenFiles(file') = OpenFiles(file)
<1> SUFFICES file' \in SameFiles
    BY DEF SameFiles
<1>1. file \in SameFiles /\ file \in Files
    BY DEF Typed, SameFiles
<1>2. /\ acceptor # None => acceptor.fd \in Fd
      /\ connector # None => connector.fd \in Fd
      /\ timer # None => timer.fd \in Fd
    BY ObjectFd DEF Acceptors, Connectors
<1>3. \A h \in Held("endpoint") : value[h] \in GoodEndpoint
    BY HeldTyped DEF Typed, ValueOf
<1>4. ASSUME NEW d \in File, NEW n \in Remote, Incoming(d, n) PROVE file' \in SameFiles
    BY <1>1, <1>4, FieldTyped DEF Incoming, Open
<1>5. ASSUME NEW d \in File, Expire(d) PROVE file' \in SameFiles
    BY <1>1, <1>5, FieldTyped DEF Expire, Open
<1>6. ASSUME NEW h \in Holder, Bind(h) PROVE file' \in SameFiles
    BY <1>1, <1>2, <1>3, <1>6, ResultsTyped DEF Bind
<1>7. ASSUME NEW h \in Holder, Connect(h) PROVE file' \in SameFiles
    BY <1>1, <1>2, <1>3, <1>7, ResultsTyped DEF Connect
<1>8. ASSUME Listen PROVE file' \in SameFiles
    BY <1>1, <1>2, <1>8, ResultsTyped DEF Listen
<1>9. ASSUME NEW d \in Known, NEW h \in Holder, SetOption(d, h) PROVE file' \in SameFiles
  <2>1. value[h] \in Option
    BY <1>9 DEF SetOption, Typed, ValuesTyped, ValueOf, Options
  <2> QED
    BY <1>1, <1>9, <2>1, ObjectFd, SetTyped DEF SetOption
<1>10. ASSUME NEW ms \in Timeouts, Timeout(ms) PROVE file' \in SameFiles
  <2>1. Expiration(ms) \in Time
    BY SocketsAssumption DEF Expiration, Time
  <2>2. \A r \in KernelSetTime(timer.fd, Expiration(ms)) : r.file \in SameFiles
    BY <1>1, <1>2, <1>10, <2>1, ResultsTyped DEF Timeout
  <2> QED
    BY <1>1, <1>10, <2>2 DEF Timeout, Fails
<1>11. ASSUME ReactTimeout PROVE file' \in SameFiles
  <2>1. Disarmed \in Time
    BY DEF Disarmed, Time
  <2> QED
    BY <1>1, <1>11, <2>1, FieldTyped DEF ReactTimeout, Open
<1>12. file' = file => file' \in SameFiles
    BY <1>1
<1> QED
    BY <1>4, <1>5, <1>6, <1>7, <1>8, <1>9, <1>10, <1>11, <1>12
       DEF Keeps, UseValues, SendTo, ReceiveFrom, GetEndpoint, GetOption, Accept, Receive, Send,
           CompleteConnect, CompleteTimeout, vars

LEMMA KeepsOwners ==
    ASSUME Typed, Keeps, PeerIsFile
    PROVE  UNCHANGED <<Singles, SocketFd, lost>> /\ PeerIsFile'
<1>1. /\ acceptor # None => acceptor \in Acceptors
      /\ connector # None => connector \in Connectors
    BY ObjectFd
<1> USE DEF Singles, FdOf, UdpFd, PeerFd, PeerIsFile
<1>2. ASSUME NEW h \in Holder, Bind(h) PROVE UNCHANGED <<Singles, SocketFd, lost>> /\ PeerIsFile'
  <2>1. acceptor' \in Acceptors /\ acceptor'.fd = acceptor.fd /\ acceptor'.peerFd = acceptor.peerFd
    <3>1. value[h] \in GoodEndpoint
      BY <1>2, HeldTyped DEF Bind, Typed, ValueOf
    <3> QED
      BY <1>1, <1>2, <3>1 DEF Bind, Acceptors
  <2> QED
    BY <1>2, <2>1, NoneIsNone DEF Bind, operations, SocketFd
<1>3. ASSUME connector # None, connector' # None, connector'.fd = connector.fd,
             UNCHANGED <<acceptor, timer, udp, tcp, accepting, lost>>
      PROVE  UNCHANGED <<Singles, SocketFd, lost>> /\ PeerIsFile'
    BY <1>3 DEF SocketFd
<1>4. ASSUME NEW h \in Holder, Connect(h)
      PROVE  UNCHANGED <<Singles, SocketFd, lost>> /\ PeerIsFile'
  <2>1. value[h] \in GoodEndpoint
    BY <1>4, HeldTyped DEF Connect, Typed, ValueOf
  <2>2. connector' \in Connectors /\ connector'.fd = connector.fd
    BY <1>1, <1>4, <2>1 DEF Connect, Connectors
  <2> QED
    BY <1>3, <1>4, <2>2, NoneIsNone DEF Connect
<1>5. ASSUME CompleteConnect
      PROVE  UNCHANGED <<Singles, SocketFd, lost>> /\ PeerIsFile'
  <2>1. connecting.ok \in BOOLEAN /\ connector \in Connectors
    BY <1>1, <1>5 DEF CompleteConnect, Typed, OperationsTyped
  <2>2. connector' \in Connectors /\ connector'.fd = connector.fd
    BY <1>5, <2>1 DEF CompleteConnect, Connectors
  <2> QED
    BY <1>3, <1>5, <2>1, <2>2, NoneIsNone DEF CompleteConnect
<1>6. ASSUME NEW s \in Socket, Accept(s)
      PROVE  UNCHANGED <<Singles, SocketFd, lost>> /\ PeerIsFile'
    BY <1>6 DEF Accept, objects, SocketFd
<1>7. UNCHANGED <<objects, accepting, lost>> =>
        UNCHANGED <<Singles, SocketFd, lost>> /\ PeerIsFile'
    BY DEF objects, SocketFd
<1> QED
    BY <1>2, <1>4, <1>5, <1>6, <1>7
       DEF Keeps, UseValues, Incoming, SendTo, ReceiveFrom, GetEndpoint, SetOption, GetOption,
           Receive, Send, Listen, Timeout, Expire, ReactTimeout, CompleteTimeout, operations, vars

LEMMA KeepsStep ==
    ASSUME FilesInv, Typed', Keeps
    PROVE  FilesInv'
<1>1. PeerIsFile
    BY DEF FilesInv, EachOwned
<1>2. UNCHANGED <<Singles, SocketFd, lost>> /\ PeerIsFile'
    BY <1>1, KeepsOwners DEF FilesInv
<1>3. OpenFiles(file') = OpenFiles(file)
    BY KeepsFiles DEF FilesInv
<1> QED
    BY <1>2, <1>3, OwnersSame

\* create_tcp and its like open one file or none.
LEMMA CreatedOpens ==
    ASSUME FilesInv, NEW type \in {"stream", "datagram", "timer"},
           NEW f \in Family \cup {"none"}, NEW r \in Created(type, f)
    PROVE  \/ r.fd = Invalid /\ r.file = file
           \/ /\ r.fd \in File /\ file[r.fd] = None
              /\ OpenFiles(r.file) = OpenFiles(file) \cup {r.fd}
<1>1. Fresh(type, f) # None
    BY FreshTyped, NoneIsNone
<1>2. file \in Files
    BY DEF FilesInv, Typed
<1>3. CASE r = [fd |-> Invalid, file |-> file]
    BY <1>3
<1>4. CASE r # [fd |-> Invalid, file |-> file]
  <2>1. PICK d \in Lowest : r = [fd |-> d, file |-> [file EXCEPT ![d] = Fresh(type, f)]]
    BY <1>4 DEF Created
  <2>2. d \in File /\ file[d] = None
    BY <2>1 DEF Lowest
  <2>3. OpenFiles([file EXCEPT ![d] = Fresh(type, f)]) = OpenFiles(file) \cup {d}
    BY <1>1, <1>2, <2>2 DEF OpenFiles, Files
  <2> QED
    BY <2>1, <2>2, <2>3
<1> QED
    BY <1>3, <1>4

\* An object is made with the file r of a call, or without one.
LEMMA OwnerMade ==
    ASSUME FilesInv, Typed', NEW i \in 1..5, NEW d, Singles[i] = Invalid,
           \/ d = Invalid /\ file' = file
           \/ /\ d \in File /\ file[d] = None
              /\ OpenFiles(file') = OpenFiles(file) \cup {d},
           Singles' = [Singles EXCEPT ![i] = d], UNCHANGED <<SocketFd, lost>>, PeerIsFile'
    PROVE  FilesInv'
<1>1. CASE d = Invalid /\ file' = file
  <2>1. Singles' = Singles
    BY <1>1 DEF Singles
  <2> QED
    BY <1>1, <2>1, OwnersSame
<1>2. CASE d \in File /\ file[d] = None /\ OpenFiles(file') = OpenFiles(file) \cup {d}
    BY <1>2, OwnerOpens DEF FilesInv, EachOwned
<1> QED
    BY <1>1, <1>2

LEMMA MakeFilesStep ==
    ASSUME FilesInv, Typed',
           \/ \E f \in Family : MakeAcceptor(f) \/ MakeConnector(f) \/ MakeUdp(f)
           \/ MakeTimer
    PROVE  FilesInv'
<1> USE DEF Singles, FdOf, UdpFd, PeerFd
<1>1. PeerIsFile /\ Typed
    BY DEF FilesInv, EachOwned
<1>2. ASSUME NEW f \in Family, MakeAcceptor(f) PROVE FilesInv'
  <2>1. PICK r \in Created("stream", f) :
          /\ acceptor' = [fd |-> r.fd, ep |-> NoEndpoint, peerFd |-> Invalid, peerEp |-> NoEndpoint]
          /\ file' = r.file
    BY <1>2 DEF MakeAcceptor
  <2>2. accepting = None /\ acceptor' # None
    <3>1. acceptor' \in Acceptors
      BY <1>1, <2>1, CreatedTyped, NoneIsGood DEF Acceptors, Fd, Typed
    <3> QED
      BY <1>1, <1>2, <3>1, NoneIsNone DEF MakeAcceptor, Typed, OperationsTyped
  <2>3. Singles[1] = Invalid /\ Singles' = [Singles EXCEPT ![1] = r.fd]
    BY <1>2, <2>1, <2>2 DEF MakeAcceptor, operations
  <2> QED
    BY <1>2, <2>1, <2>2, <2>3, CreatedOpens, OwnerMade
       DEF MakeAcceptor, operations, SocketFd, PeerIsFile
<1>3. ASSUME NEW f \in Family, MakeConnector(f) PROVE FilesInv'
  <2>1. PICK r \in Created("stream", f) :
          connector' = [fd |-> r.fd, ep |-> NoEndpoint, told |-> FALSE] /\ file' = r.file
    BY <1>3 DEF MakeConnector
  <2>2. connector' # None
    <3>1. connector' \in Connectors
      BY <1>1, <2>1, CreatedTyped, NoneIsGood DEF Connectors, Typed
    <3> QED
      BY <3>1, NoneIsNone
  <2>3. Singles[2] = Invalid /\ Singles' = [Singles EXCEPT ![2] = r.fd]
    BY <1>3, <2>1, <2>2 DEF MakeConnector, operations
  <2> QED
    BY <1>1, <1>3, <2>1, <2>3, CreatedOpens, OwnerMade
       DEF MakeConnector, operations, SocketFd, PeerIsFile
<1>4. ASSUME MakeTimer PROVE FilesInv'
  <2>1. PICK r \in Created("timer", "none") : timer' = [fd |-> r.fd] /\ file' = r.file
    BY <1>4 DEF MakeTimer, TimerOpened
  <2>2. timer' # None
    BY <1>1, <2>1, CreatedTyped, NoneIsNone DEF Typed
  <2>3. Singles[3] = Invalid /\ Singles' = [Singles EXCEPT ![3] = r.fd]
    BY <1>4, <2>1, <2>2 DEF MakeTimer, operations
  <2> QED
    BY <1>1, <1>4, <2>1, <2>3, CreatedOpens, OwnerMade
       DEF MakeTimer, operations, SocketFd, PeerIsFile
<1>5. ASSUME NEW f \in Family, MakeUdp(f) PROVE FilesInv'
  <2>1. PICK r \in Created("datagram", f) : udp' = r.fd /\ file' = r.file
    BY <1>5 DEF MakeUdp
  <2>2. udp' # None
    BY <1>1, <2>1, CreatedTyped, NoneIsNone DEF Typed
  <2>3. Singles[4] = Invalid /\ Singles' = [Singles EXCEPT ![4] = r.fd]
    BY <1>5, <2>1, <2>2 DEF MakeUdp, operations
  <2> QED
    BY <1>1, <1>5, <2>1, <2>3, CreatedOpens, OwnerMade
       DEF MakeUdp, operations, SocketFd, PeerIsFile
<1> QED
    BY <1>2, <1>3, <1>4, <1>5

LEMMA AcceptOpens ==
    ASSUME FilesInv, NEW d \in Fd, NEW ep \in GoodEndpoint, NEW r \in AcceptResult(d, ep)
    PROVE  \/ r.fd = Invalid /\ r.file = file
           \/ /\ r.fd \in File /\ file[r.fd] = None
              /\ OpenFiles(r.file) = OpenFiles(file) \cup {r.fd}
<1>1. CASE r = [fd |-> Invalid, ep |-> NoEndpoint, file |-> file, n |-> NoName]
    BY <1>1
<1>2. CASE r # [fd |-> Invalid, ep |-> NoEndpoint, file |-> file, n |-> NoName]
  <2> DEFINE z(c, n) ==
               [file EXCEPT ![c] = [Fresh("stream", file[d].family) EXCEPT !.peer = n],
                            ![d].backlog = @ \ {n}]
  <2>1. PICK c \in Lowest, n \in file[d].backlog :
          Open(d) /\ r = [fd |-> c, ep |-> PeerEndpoint(ep, n), n |-> n, file |-> z(c, n)]
    BY <1>2 DEF AcceptResult
  <2>2. c \in File /\ file[c] = None /\ d \in File /\ file[d] # None /\ file \in Files
    BY <2>1 DEF Lowest, Open, FilesInv, Typed
  <2>3. z(c, n) \in Files
    BY <2>1, <2>2, AcceptTyped
  <2>4. /\ z(c, n)[c] = [Fresh("stream", file[d].family) EXCEPT !.peer = n]
        /\ z(c, n)[d] = [file[d] EXCEPT !.backlog = @ \ {n}]
        /\ \A e \in File \ {c, d} : z(c, n)[e] = file[e]
    BY <2>2 DEF Files
  <2>5. z(c, n)[c] \in FileRecord /\ z(c, n)[d] \in FileRecord
    <3>1. file[d] \in FileRecord /\ n \in Name
      BY <2>1, <2>2, NamesAreNames DEF Files, FileRecord
    <3>2. Fresh("stream", file[d].family) \in FileRecord
      BY <3>1, FreshTyped DEF FileRecord
    <3>3. [Fresh("stream", file[d].family) EXCEPT !.peer = n] \in FileRecord
      BY <3>1, <3>2 DEF FileRecord
    <3>4. [file[d] EXCEPT !.backlog = @ \ {n}] \in FileRecord
      BY <3>1 DEF FileRecord
    <3> HIDE DEF z
    <3> QED
      BY <2>4, <3>3, <3>4
  <2>6. OpenFiles(z(c, n)) = OpenFiles(file) \cup {c}
    <3>1. ASSUME NEW e \in File PROVE z(c, n)[e] # None <=> file[e] # None \/ e = c
      BY <2>2, <2>4, <2>5, NoneIsNone
    <3> HIDE DEF z
    <3> QED
      BY <2>2, <3>1 DEF OpenFiles
  <2> QED
    BY <2>1, <2>2, <2>6
<1> QED
    BY <1>1, <1>2

LEMMA ClosedOpens ==
    ASSUME file \in Files, NEW d \in Fd
    PROVE  OpenFiles(Closed(d)) = OpenFiles(file) \ {d}
<1>1. None \notin FileRecord /\ Invalid \notin File
    BY NoneIsNone, SocketsAssumption
<1>2. CASE d = Invalid
    BY <1>1, <1>2 DEF Closed, OpenFiles
<1>3. CASE d \in File
    BY <1>1, <1>3 DEF Closed, OpenFiles, Files
<1> QED
    BY <1>2, <1>3 DEF Fd

LEMMA AcceptFilesStep ==
    ASSUME FilesInv, Typed', ReactAccept \/ CompleteAccept \/ DestroyAcceptor
    PROVE  FilesInv'
<1> USE DEF Singles, FdOf, UdpFd, PeerFd
<1>1. PeerIsFile /\ Typed
    BY DEF FilesInv, EachOwned
<1>2. ASSUME ReactAccept PROVE FilesInv'
  <2>1. acceptor \in Acceptors /\ accepting \in Accepts /\ accepting # None
        /\ accepting.phase = "armed"
    BY <1>1, <1>2, ObjectFd DEF ReactAccept, Typed, OperationsTyped
  <2>2. PICK r \in AcceptResult(acceptor.fd, acceptor.ep) :
          /\ acceptor' = [acceptor EXCEPT !.peerFd = r.fd, !.peerEp = r.ep]
          /\ file' = r.file
          /\ accepting' = [accepting EXCEPT !.phase =
                              IF r.fd = Invalid THEN "failed" ELSE "accepted"]
    BY <1>2 DEF ReactAccept
  <2>3. acceptor.fd \in Fd /\ acceptor.ep \in GoodEndpoint
    BY <2>1 DEF Acceptors
  <2>4. /\ acceptor'.fd = acceptor.fd /\ acceptor'.peerFd = r.fd
        /\ accepting'.phase = IF r.fd = Invalid THEN "failed" ELSE "accepted"
    BY <2>1, <2>2 DEF Acceptors, Accepts
  <2>5. acceptor # None /\ acceptor' # None
    <3>1. r.fd \in Fd /\ r.ep \in GoodEndpoint
      BY <1>1, <2>3, AcceptTyped DEF Typed
    <3>2. acceptor' \in Acceptors
      BY <2>1, <2>2, <3>1 DEF Acceptors
    <3> QED
      BY <2>1, <3>2, NoneIsNone
  <2>6. accepting' # None
    <3>1. accepting' \in Accepts
      BY <2>1, <2>2 DEF Accepts
    <3> QED
      BY <3>1, NoneIsNone
  <2>7. Singles[5] = Invalid /\ PeerFd' = r.fd /\ PeerIsFile'
    BY <2>1, <2>4, <2>6 DEF PeerIsFile
  <2>8. Singles' = [Singles EXCEPT ![5] = r.fd]
    <3>1. UNCHANGED <<connector, timer, udp>>
      BY <1>2 DEF ReactAccept
    <3>2. FdOf(acceptor)' = FdOf(acceptor)
      BY <2>4, <2>5
    <3>3. UNCHANGED <<FdOf(connector), FdOf(timer), UdpFd>>
      BY <3>1
    <3> HIDE DEF FdOf, UdpFd, PeerFd
    <3> QED
      BY <2>7, <3>2, <3>3
  <2>9. \/ r.fd = Invalid /\ file' = file
        \/ /\ r.fd \in File /\ file[r.fd] = None
           /\ OpenFiles(file') = OpenFiles(file) \cup {r.fd}
    BY <2>2, <2>3, AcceptOpens
  <2>10. UNCHANGED <<SocketFd, lost>>
    BY <1>2 DEF ReactAccept, SocketFd
  <2> HIDE DEF FdOf, UdpFd, PeerFd
  <2> QED
    BY <2>7, <2>8, <2>9, <2>10, OwnerMade
<1>3. ASSUME CompleteAccept PROVE FilesInv'
  <2>1. acceptor \in Acceptors /\ accepting \in Accepts /\ accepting # None
    BY <1>1, <1>3, ObjectFd DEF CompleteAccept, Typed, OperationsTyped
  <2>2. CASE accepting.phase = "failed"
    <3>1. UNCHANGED <<Singles, SocketFd, lost>> /\ PeerIsFile'
      BY <1>3, <2>2 DEF CompleteAccept, SocketFd, PeerIsFile
    <3> QED
      BY <1>3, <3>1, OwnersSame DEF CompleteAccept
  <2>3. CASE accepting.phase = "accepted"
    <3> DEFINE s == accepting.peer
               t == [fd |-> acceptor.peerFd, ep |-> acceptor.peerEp]
    <3>1. s \in Socket /\ t \in Tcps
      BY <2>1 DEF Accepts, Acceptors, Tcps
    <3>2. tcp' = [tcp EXCEPT ![s] = t] /\ t # None
      BY <1>3, <2>3, <3>1, NoneIsNone DEF CompleteAccept
    <3>3. SocketFd' = [SocketFd EXCEPT ![s] = Singles[5]]
      BY <1>1, <2>1, <2>3, <3>1, <3>2 DEF SocketFd, Typed, ObjectsTyped
    <3>4. Singles' = [Singles EXCEPT ![5] = Invalid] /\ PeerIsFile'
      BY <1>3 DEF CompleteAccept, PeerIsFile
    <3>5. lost' = lost \cup ({SocketFd[s]} \ {Invalid})
      BY <1>3, <2>3, <3>1 DEF CompleteAccept, Overwritten, SocketFd
    <3>6. OpenFiles(file') = OpenFiles(file)
      BY <1>3 DEF CompleteAccept
    <3>7. Gives(5, s)
      BY <3>3, <3>4, <3>5, <3>6 DEF Gives
    <3> HIDE DEF s
    <3> QED
      BY <3>1, <3>4, <3>7, OwnerGives DEF FilesInv, EachOwned
  <2> QED
    BY <1>3, <2>2, <2>3 DEF CompleteAccept
<1>4. ASSUME DestroyAcceptor PROVE FilesInv'
  <2>1. acceptor \in Acceptors
    BY <1>4, ObjectFd, <1>1 DEF DestroyAcceptor
  <2>2. Singles' = [Singles EXCEPT ![1] = Invalid, ![5] = Invalid] /\ PeerIsFile'
    BY <1>4 DEF DestroyAcceptor, PeerIsFile
  <2>3. lost' = lost \cup ({Singles[5]} \ {Invalid})
    BY <1>1, <1>4 DEF DestroyAcceptor, PeerIsFile
  <2>4. OpenFiles(file') = OpenFiles(file) \ {Singles[1]}
    BY <1>1, <1>4, <2>1, ClosedOpens DEF DestroyAcceptor, Acceptors, Typed
  <2> QED
    BY <1>4, <2>2, <2>3, <2>4, AcceptorCloses DEF DestroyAcceptor, SocketFd, FilesInv, EachOwned
<1> QED
    BY <1>2, <1>3, <1>4

LEMMA ReleaseFilesStep ==
    ASSUME FilesInv, Typed',
           \/ \E s \in Socket : Convert(s) \/ DestroySocket(s)
           \/ DestroyConnector \/ DestroyTimer \/ CloseUdp
    PROVE  FilesInv'
<1> USE DEF Singles, FdOf, UdpFd, PeerFd
<1>1. PeerIsFile /\ Typed
    BY DEF FilesInv, EachOwned
<1>2. ASSUME NEW s \in Socket, Convert(s) PROVE FilesInv'
  <2> DEFINE t == [fd |-> connector.fd, ep |-> connector.ep]
  <2>1. connector # None /\ t \in Tcps
    BY <1>1, <1>2, ObjectFd DEF Convert, Connectors, Tcps
  <2>2. tcp' = [tcp EXCEPT ![s] = t] /\ t # None
    BY <1>2, <2>1, NoneIsNone DEF Convert
  <2>3. SocketFd' = [SocketFd EXCEPT ![s] = Singles[2]]
    BY <1>1, <2>1, <2>2 DEF SocketFd, Typed, ObjectsTyped
  <2>4. Singles' = [Singles EXCEPT ![2] = Invalid] /\ PeerIsFile'
    BY <1>1, <1>2 DEF Convert, PeerIsFile, operations
  <2>5. lost' = lost \cup ({SocketFd[s]} \ {Invalid})
    BY <1>2 DEF Convert, Overwritten, SocketFd
  <2>6. OpenFiles(file') = OpenFiles(file)
    BY <1>2 DEF Convert
  <2>7. Gives(2, s)
    BY <2>3, <2>4, <2>5, <2>6 DEF Gives
  <2> QED
    BY <2>4, <2>7, OwnerGives DEF FilesInv, EachOwned
<1>3. ASSUME NEW s \in Socket, DestroySocket(s) PROVE FilesInv'
  <2>1. tcp[s] \in Tcps
    BY <1>1, <1>3, ObjectFd DEF DestroySocket
  <2>2. SocketFd' = [SocketFd EXCEPT ![s] = Invalid]
    BY <1>1, <1>3 DEF DestroySocket, SocketFd, Typed, ObjectsTyped
  <2>3. OpenFiles(file') = OpenFiles(file) \ {SocketFd[s]}
    BY <1>1, <1>3, <2>1, ClosedOpens DEF DestroySocket, SocketFd, Tcps, Typed
  <2> QED
    BY <1>1, <1>3, <2>2, <2>3, SocketCloses
       DEF DestroySocket, operations, PeerIsFile, FilesInv, EachOwned
<1>4. ASSUME DestroyConnector PROVE FilesInv'
  <2>1. connector \in Connectors
    BY <1>1, <1>4, ObjectFd DEF DestroyConnector
  <2>2. Singles' = [Singles EXCEPT ![2] = Invalid]
    BY <1>4 DEF DestroyConnector
  <2>3. OpenFiles(file') = OpenFiles(file) \ {Singles[2]}
    BY <1>1, <1>4, <2>1, ClosedOpens DEF DestroyConnector, Connectors, Typed
  <2> QED
    BY <1>1, <1>4, <2>2, <2>3, OwnerCloses
       DEF DestroyConnector, SocketFd, PeerIsFile, FilesInv, EachOwned
<1>5. ASSUME DestroyTimer PROVE FilesInv'
  <2>1. timer \in [fd : Fd]
    BY <1>1, <1>5, ObjectFd DEF DestroyTimer
  <2>2. Singles' = [Singles EXCEPT ![3] = Invalid]
    BY <1>5 DEF DestroyTimer
  <2>3. OpenFiles(file') = OpenFiles(file) \ {Singles[3]}
    BY <1>1, <1>5, <2>1, ClosedOpens DEF DestroyTimer, Typed
  <2> QED
    BY <1>1, <1>5, <2>2, <2>3, OwnerCloses
       DEF DestroyTimer, SocketFd, PeerIsFile, FilesInv, EachOwned
<1>6. ASSUME CloseUdp PROVE FilesInv'
  <2>1. udp \in Fd
    BY <1>1, <1>6 DEF CloseUdp, Typed, ObjectsTyped
  <2>2. Singles' = [Singles EXCEPT ![4] = Invalid]
    BY <1>6 DEF CloseUdp, operations
  <2>3. OpenFiles(file') = OpenFiles(file) \ {Singles[4]}
    BY <1>1, <1>6, <2>1, ClosedOpens DEF CloseUdp, Typed
  <2> QED
    BY <1>1, <1>6, <2>2, <2>3, OwnerCloses
       DEF CloseUdp, operations, SocketFd, PeerIsFile, FilesInv, EachOwned
<1> QED
    BY <1>2, <1>3, <1>4, <1>5, <1>6

-----------------------------------------------------------------------------
(* The theorem.                                                             *)

LEMMA InitFiles == Init => FilesInv
<1> SUFFICES ASSUME Init PROVE FilesInv
    OBVIOUS
<1>1. Singles = <<Invalid, Invalid, Invalid, Invalid, Invalid>>
    BY DEF Init, Singles, FdOf, UdpFd, PeerFd
<1>2. SocketFd = [s \in Socket |-> Invalid]
    BY DEF Init, SocketFd, FdOf
<1>3. OpenFiles(file) = {} /\ lost = {} /\ PeerIsFile
    BY DEF Init, OpenFiles, PeerIsFile
<1>4. OneOwner
    BY <1>1, <1>2, <1>3 DEF OneOwner, Apart
<1>5. Owned \subseteq {Invalid}
    BY <1>1, <1>2 DEF Owned
<1> QED
    BY <1>3, <1>4, <1>5, InitTyped DEF FilesInv, EachOwned

LEMMA NextFiles == FilesInv /\ [Next]_vars => FilesInv'
<1> SUFFICES ASSUME FilesInv, [Next]_vars PROVE FilesInv'
    OBVIOUS
<1>1. Typed'
    BY NextTyped DEF FilesInv
<1> QED
    BY <1>1, KeepsStep, MakeFilesStep, AcceptFilesStep, ReleaseFilesStep DEF Next, Keeps

\* Every open file is that of an object, or accepted for a callback still to come, or
\* lost in one of the two ways there are; and so none is closed twice.
THEOREM FilesAreAccounted == Spec => []FilesAccounted
    BY InitFiles, NextFiles, FilesInvAccounts, PTL DEF Spec

-----------------------------------------------------------------------------
(* A success means what it says: the invariant.                             *)

\* The option an object of class c sets, unless it was built by default.
WhatOf(c) == CASE c = "reuse" -> "SO_REUSEADDR"
               [] c = "outgoing" -> "IP_MULTICAST_IF"
               [] OTHER -> "IP_ADD_MEMBERSHIP"

Fits(h, x) == Class[h] \in Options /\ x # None => x.what \in {"none", WhatOf(Class[h])}

OptionsOK == \A h \in Holder : Fits(h, value[h])

\* A file has a family, and only names of that family reach it; the time of a disarmed
\* timer does not pass.
GoodFile(r) ==
    /\ r.family \in {"v4", "v6", "none"}
    /\ \A n \in r.backlog : n.family = r.family
    /\ r.expired => r.time # Disarmed

FamiliesOK == \A d \in OpenFiles(file) : GoodFile(file[d])

\* What has been accepted, before a socket is made of it.
AcceptedOK ==
    accepting # None /\ accepting.phase = "accepted" /\ acceptor.peerFd \notin unsure =>
        Names(acceptor.peerEp, file[acceptor.peerFd].peer)

\* What was connected, before and after the callback.
Connected == connector.told \/ (connecting # None /\ connecting.ok)

ConnectedOK ==
    connector # None /\ connector.ep.address.family = "v4" /\ Connected =>
        Open(connector.fd) /\ Names(connector.ep, file[connector.fd].peer)

\* The time of the timer is the one that was asked for, until it has been read.
TimingOK ==
    timing # None =>
        /\ timing.phase = "armed" =>
              Open(timer.fd) /\ file[timer.fd].time = Expiration(timing.ms)
        /\ timing.phase = "expired" => timing.ms # 0 /\ Elapsed(timing.took) = timing.ms

\* No system call connects a connector with a v6 endpoint.
NeverV6 ==
    connector # None /\ connector.fd # Invalid => file[connector.fd].peer.family # "v6"

SuccessInv ==
    /\ FilesInv /\ OptionsOK /\ FamiliesOK
    /\ SocketsKnowPeer /\ AcceptedOK /\ ConnectedOK /\ NeverV6 /\ TimingOK

-----------------------------------------------------------------------------
(* Options.                                                                 *)

LEMMA FitsOne ==
    ASSUME Typed, OptionsOK, NEW h \in Holder, NEW x, Fits(h, x), value' = [value EXCEPT ![h] = x]
    PROVE  OptionsOK'
BY DEF OptionsOK, Fits, Typed, ValuesTyped

LEMMA FitsTwo ==
    ASSUME Typed, OptionsOK, NEW g \in Holder, NEW h \in Holder, NEW x, NEW y,
           Fits(g, x), Fits(h, y), value' = [value EXCEPT ![g] = x, ![h] = y]
    PROVE  OptionsOK'
BY DEF OptionsOK, Fits, Typed, ValuesTyped

\* A value made, copied or moved sets the option of its class, or none.
LEMMA ValuesFit ==
    ASSUME Typed, OptionsOK, ValuesNext
    PROVE  OptionsOK'
<1> USE DEF Make
<1>1. \A x : \A h \in Holder : Class[h] \notin Options => Fits(h, x)
    BY DEF Fits
<1>2. ASSUME NEW h \in Holder, MakeAddress(h) PROVE OptionsOK'
    BY <1>1, <1>2, FitsOne DEF MakeAddress, Options
<1>3. ASSUME NEW h \in Holder, MakeEndpoint(h) PROVE OptionsOK'
  <2>1. Class[h] \notin Options
    BY <1>3 DEF MakeEndpoint, Options
  <2>2. \A a \in Held("address") : a \in Holder /\ Class[a] \notin Options
    BY DEF Held, Options
  <2>3. \/ \E x : value' = [value EXCEPT ![h] = x]
        \/ \E a \in Held("address") :
              \E x : value' = [value EXCEPT ![h] = x, ![a] = NoAddress]
    <3>1. PICK port \in Ports :
            \/ \E t \in Texts : Make(h, NewEndpoint(FromText(t), port))
            \/ \E a \in Held("address") : Make(h, NewEndpoint(value[a], port))
            \/ \E a \in Held("address") :
                  value' = [value EXCEPT ![h] = NewEndpoint(value[a], port), ![a] = NoAddress]
      BY <1>3 DEF MakeEndpoint
    <3> QED
      BY <3>1
  <2> QED
    BY <1>1, <2>1, <2>2, <2>3, FitsOne, FitsTwo
<1>4. ASSUME NEW h \in Holder, MakeOption(h) PROVE OptionsOK'
  <2>1. \A x : /\ ReuseAddress(x).what = "SO_REUSEADDR"
               /\ SetOutgoingInterface(x).what = "IP_MULTICAST_IF"
    BY DEF ReuseAddress, SetOutgoingInterface, NoOption
  <2>2. \A i, m : JoinGroup(i, 1, m).what = "IP_ADD_MEMBERSHIP"
    BY DEF JoinGroup, NoOption
  <2>3. CASE MakeReuse(h)
    <3>1. PICK yes \in {0, 1} : value' = [value EXCEPT ![h] = ReuseAddress(yes)]
      BY <2>3 DEF MakeReuse
    <3> QED
      BY <2>1, <2>3, <3>1, FitsOne DEF Fits, WhatOf, MakeReuse
  <2>4. CASE MakeOutgoing(h)
    <3>1. PICK a \in Held("address") :
            value' = [value EXCEPT ![h] = SetOutgoingInterface(value[a])]
      BY <2>4 DEF MakeOutgoing
    <3> QED
      BY <2>1, <2>4, <3>1, FitsOne DEF Fits, WhatOf, MakeOutgoing
  <2>5. CASE MakeJoin(h)
    <3>1. PICK a \in Held("address"), t \in Texts :
            value' = [value EXCEPT ![h] = JoinGroup(value[a], 1, FromText(t))]
      BY <2>5 DEF MakeJoin
    <3> QED
      BY <2>2, <2>5, <3>1, FitsOne DEF Fits, WhatOf, MakeJoin
  <2> QED
    BY <1>4, <2>3, <2>4, <2>5 DEF MakeOption
<1>5. ASSUME NEW h \in Holder, Renew(h) PROVE OptionsOK'
  <2>1. Fits(h, DefaultOf(Class[h]))
    BY DEF Fits, DefaultOf, Options, NoOption
  <2> QED
    BY <1>5, <2>1, FitsOne DEF Renew
<1>6. ASSUME NEW e \in Holder, NEW a \in Holder, GetAddress(e, a) PROVE OptionsOK'
    BY <1>1, <1>6, FitsOne DEF GetAddress, Options
<1>7. ASSUME NEW g \in Holder, NEW h \in Holder, Copy(g, h) PROVE OptionsOK'
  <2>1. Fits(g, value[h])
    BY <1>7 DEF Copy, Fits, OptionsOK
  <2> QED
    BY <1>7, <2>1, FitsOne DEF Copy
<1>8. ASSUME NEW g \in Holder, NEW h \in Holder, MoveConstruct(g, h) PROVE OptionsOK'
  <2>1. Fits(g, value[h])
    BY <1>8 DEF MoveConstruct, Fits, OptionsOK
  <2>2. Fits(h, MovedOf(Class[h], value[h]))
    <3>1. CASE Class[h] \in Options
      <4>1. value[h] \in Option /\ value[h] # None
        BY <1>8, <3>1 DEF MoveConstruct, Typed, ValuesTyped, ValueOf, Options
      <4>2. MovedOf(Class[h], value[h]).what = value[h].what
        BY <3>1, <4>1 DEF MovedOf, MovedOption, Option, Options
      <4> QED
        BY <4>1, <4>2 DEF Fits, OptionsOK
    <3> QED
      BY <1>1, <3>1
  <2> QED
    BY <1>8, <2>1, <2>2, FitsTwo DEF MoveConstruct
<1>9. ASSUME NEW g \in Holder, NEW h \in Holder, MoveAssign(g, h) PROVE OptionsOK'
  <2>1. Fits(g, value[h]) /\ Fits(h, None)
    BY <1>9 DEF MoveAssign, Fits, OptionsOK
  <2> QED
    BY <1>9, <2>1, FitsTwo DEF MoveAssign
<1> QED
    BY <1>2, <1>3, <1>4, <1>5, <1>6, <1>7, <1>8, <1>9 DEF ValuesNext

\* get_option keeps the name of the option.
LEMMA OptionRead ==
    ASSUME NEW d, NEW c, NEW o \in Option, NEW g \in GetResult(d, c, o), g # None
    PROVE  g.what = o.what
BY DEF GetResult, GetInt, GetAddressOption, GetGroup, Option

LEMMA OptionsNext ==
    ASSUME Typed, OptionsOK, [Next]_vars
    PROVE  OptionsOK'
<1>1. ASSUME NEW d \in Known, NEW h \in Holder, GetOption(d, h) PROVE OptionsOK'
  <2>1. value[h] \in Option /\ Class[h] \in Options /\ value[h] # None
    BY <1>1 DEF GetOption, Typed, ValuesTyped, ValueOf, Options
  <2>2. PICK o \in GetResult(d, Class[h], value[h]) :
          value' = IF o = None THEN value ELSE [value EXCEPT ![h] = o]
    BY <1>1 DEF GetOption
  <2>3. Fits(h, o)
    BY <2>1, OptionRead DEF OptionsOK, Fits
  <2> QED
    BY <2>2, <2>3, FitsOne DEF OptionsOK
<1>2. ASSUME NEW h \in Holder, GetEndpoint(h) PROVE OptionsOK'
  <2>1. \A x : Fits(h, x)
    BY <1>2 DEF GetEndpoint, Fits, Options
  <2> QED
    BY <1>2, <2>1, FitsOne DEF GetEndpoint
<1>3. CASE UseValues
    BY <1>3, ValuesFit DEF UseValues
<1>4. CASE UNCHANGED value
    BY <1>4 DEF OptionsOK, Fits
<1> QED
    BY <1>1, <1>2, <1>3, <1>4 DEF Next, vars, values, Incoming, Expire, MakeAcceptor, MakeConnector,
       MakeUdp, MakeTimer, Bind, Connect, SendTo, ReceiveFrom, SetOption, Accept, Convert, Receive,
       Send, DestroySocket, Listen, ReactAccept, CompleteAccept, CompleteConnect, DestroyAcceptor,
       DestroyConnector, CloseUdp, Timeout, ReactTimeout, CompleteTimeout, DestroyTimer

-----------------------------------------------------------------------------
(* What a step does to a file: family, backlog, peer and time.              *)

\* A file that stays open keeps its family; only connect writes its peer, and only the
\* timer's own calls its time.
StaysOpen(r, q) ==
    /\ r # None
    /\ q.family = r.family
    /\ \A n \in q.backlog : n \in r.backlog \/ n.family = r.family

KeepsTime(r, q) == q.time = r.time /\ (q.expired => r.expired \/ r.time # Disarmed)

Stays(r, q) == StaysOpen(r, q) /\ q.peer = r.peer /\ KeepsTime(r, q)
Reconnected(r, q) == StaysOpen(r, q) /\ KeepsTime(r, q)
Retimed(r, q) == StaysOpen(r, q) /\ q.peer = r.peer /\ ~q.expired

Opened(r, q) ==
    /\ r = None
    /\ q.family \in {"v4", "v6", "none"} /\ q.backlog = {} /\ ~q.expired

\* A call that writes other fields only.
Quiet(f) == \A d \in File : f[d] = file[d] \/ Stays(file[d], f[d])

LEMMA SameIsQuiet == Quiet(file)
    BY DEF Quiet

LEMMA FieldQuiet ==
    ASSUME file \in Files, NEW d \in File, file[d] # None
    PROVE  /\ \A n \in Name : Quiet([file EXCEPT ![d].local = n])
           /\ Quiet([file EXCEPT ![d].listening = TRUE])
           /\ \A i \in {0, 1} : Quiet([file EXCEPT ![d].reuse = i])
           /\ \A b \in Bytes : Quiet([file EXCEPT ![d].outgoing = b])
           /\ \A b, c \in Bytes : Quiet([file EXCEPT ![d].groups = @ \cup {<<b, c>>}])
           /\ \A n \in Remote : n.family = file[d].family =>
                 Quiet([file EXCEPT ![d].backlog = @ \cup {n}])
           /\ file[d].time # Disarmed => Quiet([file EXCEPT ![d].expired = TRUE])
<1>1. file[d] \in FileRecord
    BY DEF Files
<1>2. \A r \in FileRecord : Stays(file[d], r) => Quiet([file EXCEPT ![d] = r])
    BY DEF Files, Quiet
<1> DEFINE S(r) == r \in FileRecord /\ Stays(file[d], r)
<1> USE DEF FileRecord, StaysOpen, KeepsTime, Stays
<1>3. \A n \in Name : S([file[d] EXCEPT !.local = n])
    BY <1>1
<1>4. S([file[d] EXCEPT !.listening = TRUE])
    BY <1>1
<1>5. \A i \in {0, 1} : S([file[d] EXCEPT !.reuse = i])
    BY <1>1
<1>6. \A b \in Bytes : S([file[d] EXCEPT !.outgoing = b])
    BY <1>1
<1>7. \A b, c \in Bytes : S([file[d] EXCEPT !.groups = @ \cup {<<b, c>>}])
    BY <1>1
<1>8. \A n \in Remote : n.family = file[d].family => S([file[d] EXCEPT !.backlog = @ \cup {n}])
    BY <1>1
<1>9. file[d].time # Disarmed => S([file[d] EXCEPT !.expired = TRUE])
    BY <1>1
<1> HIDE DEF FileRecord, StaysOpen, KeepsTime, Stays
<1> QED
    BY <1>2, <1>3, <1>4, <1>5, <1>6, <1>7, <1>8, <1>9

LEMMA MayFailQuiet ==
    ASSUME NEW may \in BOOLEAN, NEW f, may => Quiet(f), NEW r \in MayFail(may, f)
    PROVE  Quiet(r.file)
    BY SameIsQuiet DEF MayFail, Fails, Succeeds

LEMMA BindQuiet ==
    ASSUME file \in Files, NEW d \in Fd, NEW ep \in GoodEndpoint, NEW r \in BindResult(d, ep)
    PROVE  Quiet(r.file)
<1>1. Open(d) => Quiet([file EXCEPT ![d].local = ep.name])
    BY FieldQuiet DEF Open, GoodEndpoint, Endpoint
<1> QED
    BY <1>1, SameIsQuiet DEF BindResult, KernelBind, MayFail, Fails, Succeeds

LEMMA ListenQuiet ==
    ASSUME file \in Files, NEW d \in Fd, NEW r \in KernelListen(d)
    PROVE  Quiet(r.file)
<1>1. Open(d) => Quiet([file EXCEPT ![d].listening = TRUE])
    BY FieldQuiet DEF Open
<1> QED
    BY <1>1, MayFailQuiet DEF KernelListen

\* A call of setsockopt.
LEMMA KernelSetQuiet ==
    ASSUME file \in Files, NEW d \in Fd, NEW what, NEW int \in {0, 1}, NEW b \in Bytes,
           NEW m \in Bytes, NEW length, NEW k \in KernelSet(d, what, int, b, m, length)
    PROVE  Quiet(k.file)
<1>1. Open(d) => d \in File /\ file[d] # None
    BY DEF Open
<1>2. Zero \in Bytes /\ Junk \in Bytes
    BY DEF Bytes
<1>3. CASE what = "SO_REUSEADDR"
  <2>1. Open(d) => Quiet([file EXCEPT ![d].reuse = int])
    BY <1>1, FieldQuiet
  <2> QED
    BY <1>3, <2>1, SameIsQuiet DEF KernelSet, MayFail, Fails, Succeeds
<1>4. CASE what = "IP_MULTICAST_IF"
  <2>1. PICK i \in {b, Zero, Junk} :
          k \in MayFail(Open(d) /\ file[d].type = "datagram", [file EXCEPT ![d].outgoing = i])
    BY <1>4 DEF KernelSet
  <2>2. Open(d) => Quiet([file EXCEPT ![d].outgoing = i])
    BY <1>1, <1>2, FieldQuiet
  <2> QED
    BY <2>1, <2>2, SameIsQuiet DEF MayFail, Fails, Succeeds
<1>5. CASE what = "IP_ADD_MEMBERSHIP"
  <2>1. Open(d) => Quiet([file EXCEPT ![d].groups = @ \cup {<<b, m>>}])
    BY <1>1, FieldQuiet
  <2> QED
    BY <1>5, <2>1, SameIsQuiet DEF KernelSet, MayFail, Fails, Succeeds
<1>6. CASE what \notin {"SO_REUSEADDR", "IP_MULTICAST_IF", "IP_ADD_MEMBERSHIP"}
    BY <1>6, SameIsQuiet DEF KernelSet, Fails
<1> QED
    BY <1>3, <1>4, <1>5, <1>6

LEMMA SetQuiet ==
    ASSUME file \in Files, NEW d \in Fd, NEW c, NEW o \in Option, NEW r \in SetResult(d, c, o)
    PROVE  Quiet(r.file)
<1>1. /\ o.int \in {0, 1} /\ o.iface.bytes \in Bytes /\ o.mcast.bytes \in Bytes
      /\ Zero \in Bytes /\ Junk \in Bytes /\ 0 \in {0, 1}
    BY DEF Option, Address, Bytes
<1> QED
    BY <1>1, KernelSetQuiet, SameIsQuiet DEF SetResult, SetInt, SetAddress, SetGroup, Succeeds

LEMMA ConnectStays ==
    ASSUME file \in Files, NEW d \in Fd, NEW ep \in GoodEndpoint, NEW r \in ConnectResult(d, ep),
           NEW e \in File
    PROVE  /\ \/ r.file[e] = file[e]
              \/ e = d /\ Reconnected(file[e], r.file[e])
           /\ r.ok /\ ep.address.family = "v4" => Open(d) /\ r.file[d].peer = ep.name
<1>1. CASE \/ r = [ok |-> FALSE, file |-> file]
           \/ ep.address.family # "v4" /\ r = [ok |-> TRUE, file |-> file]
  <2>1. r.file = file /\ (ep.address.family = "v4" => ~r.ok)
    BY <1>1
  <2> QED
    BY <2>1
<1>2. CASE Open(d) /\ r = [ok |-> TRUE, file |-> [file EXCEPT ![d].peer = ep.name]]
  <2>1. d \in File /\ file[d] \in FileRecord
    BY <1>2 DEF Open, Files
  <2>2. r.file = [file EXCEPT ![d] = [file[d] EXCEPT !.peer = ep.name]]
    BY <1>2, <2>1 DEF Files
  <2>3. r.file[d] = [file[d] EXCEPT !.peer = ep.name] /\ (e # d => r.file[e] = file[e])
    BY <2>1, <2>2 DEF Files
  <2>4. Reconnected(file[d], r.file[d])
    BY <1>2, <2>1, <2>3 DEF Stays, Reconnected, Retimed, StaysOpen, KeepsTime, FileRecord, Open
  <2>5. r.file[d].peer = ep.name
    BY <2>1, <2>3 DEF FileRecord
  <2> QED
    BY <1>2, <2>3, <2>4, <2>5
<1>3. \/ r = [ok |-> FALSE, file |-> file]
      \/ ep.address.family # "v4" /\ r = [ok |-> TRUE, file |-> file]
      \/ Open(d) /\ r = [ok |-> TRUE, file |-> [file EXCEPT ![d].peer = ep.name]]
    BY Zenon DEF ConnectResult, KernelConnect, MayFail, Fails, Succeeds
<1> QED
    BY <1>1, <1>2, <1>3, Zenon

LEMMA SetTimeStays ==
    ASSUME file \in Files, NEW d \in Fd, NEW t \in Time, NEW r \in KernelSetTime(d, t),
           NEW e \in File
    PROVE  /\ \/ r.file[e] = file[e]
              \/ e = d /\ Retimed(file[e], r.file[e])
           /\ r.ok => Open(d) /\ r.file[d].time = t
<1>1. CASE r = [ok |-> FALSE, file |-> file]
    BY <1>1
<1>2. CASE /\ r = [ok |-> TRUE, file |-> [file EXCEPT ![d].time = t, ![d].expired = FALSE]]
           /\ Open(d)
  <2>1. d \in File /\ file[d] \in FileRecord
    BY <1>2 DEF Open, Files
  <2>2. r.file = [file EXCEPT ![d] = [file[d] EXCEPT !.time = t, !.expired = FALSE]]
    BY <1>2, <2>1 DEF Files, FileRecord
  <2>3. /\ r.file[d] = [file[d] EXCEPT !.time = t, !.expired = FALSE]
        /\ e # d => r.file[e] = file[e]
    BY <2>1, <2>2 DEF Files
  <2>4. /\ r.file[d].time = t /\ r.file[d].expired = FALSE
        /\ r.file[d].family = file[d].family /\ r.file[d].peer = file[d].peer
        /\ r.file[d].backlog = file[d].backlog
    BY <2>1, <2>3 DEF FileRecord
  <2>5. Retimed(file[d], r.file[d])
    BY <1>2, <2>4 DEF Stays, Reconnected, Retimed, StaysOpen, KeepsTime, Open
  <2> QED
    BY <1>2, <2>3, <2>4, <2>5
<1> QED
    BY <1>1, <1>2 DEF KernelSetTime, MayFail, Fails, Succeeds

LEMMA CreatedStays ==
    ASSUME file \in Files, NEW type, NEW f \in Family \cup {"none"},
           NEW r \in Created(type, f), NEW e \in File
    PROVE  r.file[e] = file[e] \/ Opened(file[e], r.file[e])
<1>1. CASE r.file = file
    BY <1>1
<1>2. CASE \E d \in Lowest : f # "unknown" /\ r.file = [file EXCEPT ![d] = Fresh(type, f)]
  <2>1. PICK d \in Lowest : f # "unknown" /\ r.file = [file EXCEPT ![d] = Fresh(type, f)]
    BY <1>2
  <2>2. d \in File /\ file[d] = None
    BY <2>1 DEF Lowest
  <2>3. e # d => r.file[e] = file[e]
    BY <2>1 DEF Files
  <2>4. r.file[d] = Fresh(type, f)
    BY <2>1, <2>2 DEF Files
  <2> QED
    BY <2>1, <2>2, <2>3, <2>4 DEF Opened, Fresh, Family
<1> QED
    BY <1>1, <1>2 DEF Created

\* An accept opens a file of the family and with the peer it was asked for.
LEMMA AcceptStays ==
    ASSUME file \in Files, FamiliesOK, NEW d \in Fd, NEW ep \in GoodEndpoint,
           NEW r \in AcceptResult(d, ep)
    PROVE  /\ \A e \in File : \/ r.file[e] = file[e]
                              \/ Opened(file[e], r.file[e])
                              \/ Stays(file[e], r.file[e])
           /\ r.fd # Invalid =>
                /\ Open(d) /\ r.fd \in File /\ file[r.fd] = None
                /\ r.n \in file[d].backlog
                /\ r.ep = PeerEndpoint(ep, r.n) /\ r.file[r.fd].peer = r.n
<1>1. CASE r = [fd |-> Invalid, ep |-> NoEndpoint, file |-> file, n |-> NoName]
    BY <1>1
<1>2. CASE r # [fd |-> Invalid, ep |-> NoEndpoint, file |-> file, n |-> NoName]
  <2> DEFINE x(n) == [Fresh("stream", file[d].family) EXCEPT !.peer = n]
             y(n) == [file[d] EXCEPT !.backlog = @ \ {n}]
  <2>1. PICK c \in Lowest, n \in file[d].backlog :
          /\ Open(d)
          /\ r = [fd |-> c, ep |-> PeerEndpoint(ep, n), n |-> n,
                  file |-> [file EXCEPT ![c] = x(n), ![d].backlog = @ \ {n}]]
    BY <1>2 DEF AcceptResult
  <2>2. /\ c \in File /\ file[c] = None /\ d \in File /\ file[d] # None
        /\ file[d] \in FileRecord /\ c # d
    BY <2>1 DEF Lowest, Open, Files
  <2>3. r.file = [[file EXCEPT ![c] = x(n)] EXCEPT ![d] = y(n)]
    BY <2>1, <2>2 DEF Files
  <2>4. /\ r.file[c] = x(n) /\ r.file[d] = y(n)
        /\ \A e \in File \ {c, d} : r.file[e] = file[e]
    BY <2>2, <2>3 DEF Files
  <2>5. GoodFile(file[d])
    BY <2>2 DEF FamiliesOK, OpenFiles
  <2>6. Opened(file[c], x(n)) /\ x(n).peer = n
    BY <2>2, <2>5 DEF Opened, Fresh, GoodFile
  <2>7. Stays(file[d], y(n))
    BY <2>2 DEF Stays, Reconnected, Retimed, StaysOpen, KeepsTime, FileRecord
  <2> HIDE DEF x, y
  <2> QED
    BY <2>1, <2>2, <2>4, <2>6, <2>7
<1> QED
    BY <1>1, <1>2

LEMMA ClosedStays ==
    ASSUME file \in Files, NEW d \in Fd, NEW e \in File
    PROVE  Closed(d)[e] = file[e] \/ (d = e /\ Closed(d)[e] = None)
    BY DEF Closed, Files, Fd

\* The steps that may write the peer, or the time, of the file d.
Connects(d) == connector # None /\ d = connector.fd /\ \E h \in Holder : Connect(h)
Times(d) == timer # None /\ d = timer.fd /\ (ReactTimeout \/ \E ms \in Timeouts : Timeout(ms))

FileStep(d) ==
    \/ file'[d] = file[d]
    \/ file'[d] = None
    \/ Opened(file[d], file'[d])
    \/ Stays(file[d], file'[d])
    \/ Connects(d) /\ Reconnected(file[d], file'[d])
    \/ Times(d) /\ Retimed(file[d], file'[d])

LEMMA QuietStep ==
    ASSUME NEW f, file' = f, Quiet(f), NEW d \in File
    PROVE  FileStep(d)
    BY DEF Quiet, FileStep

LEMMA FileSteps ==
    ASSUME Typed, FamiliesOK, [Next]_vars, NEW d \in File
    PROVE  FileStep(d)
<1>0. /\ file \in Files
      /\ \A h \in Held("endpoint") : value[h] \in GoodEndpoint
      /\ \A e \in Known : e \in Fd
      /\ acceptor # None => acceptor.fd \in Fd /\ acceptor.ep \in GoodEndpoint
      /\ connector # None => connector.fd \in Fd
      /\ timer # None => timer.fd \in Fd
      /\ \A s \in Socket : tcp[s] # None => tcp[s].fd \in Fd
      /\ udp # None => udp \in Fd
    BY ObjectFd, HeldTyped DEF Typed, ObjectsTyped, ValueOf, Acceptors, Connectors, Tcps
<1>1. ASSUME NEW c \in File, NEW n \in Remote, Incoming(c, n) PROVE FileStep(d)
    BY <1>0, <1>1, FieldQuiet, QuietStep DEF Incoming, Open
<1>2. ASSUME NEW c \in File, Expire(c) PROVE FileStep(d)
    BY <1>0, <1>2, FieldQuiet, QuietStep DEF Expire, Open
<1>3. ASSUME NEW f \in Family, MakeAcceptor(f) \/ MakeConnector(f) \/ MakeUdp(f)
      PROVE  FileStep(d)
  <2>1. \E type : \E r \in Created(type, f) : file' = r.file
    BY <1>3 DEF MakeAcceptor, MakeConnector, MakeUdp
  <2> QED
    BY <1>0, <2>1, CreatedStays DEF FileStep
<1>4. ASSUME MakeTimer PROVE FileStep(d)
    BY <1>0, <1>4, CreatedStays DEF MakeTimer, TimerOpened, FileStep
<1>5. ASSUME NEW h \in Holder, Bind(h) PROVE FileStep(d)
    BY <1>0, <1>5, BindQuiet, QuietStep DEF Bind
<1>6. ASSUME NEW h \in Holder, Connect(h) PROVE FileStep(d)
  <2>1. PICK r \in ConnectResult(connector.fd, value[h]) : file' = r.file
    BY <1>6 DEF Connect
  <2>2. connector # None /\ connector.fd \in Fd /\ value[h] \in GoodEndpoint /\ file \in Files
    BY <1>0, <1>6 DEF Connect
  <2>3. \/ file'[d] = file[d]
        \/ d = connector.fd /\ Reconnected(file[d], file'[d])
    BY <2>1, <2>2, ConnectStays
  <2> QED
    BY <1>6, <2>2, <2>3 DEF Connects, FileStep
<1>7. ASSUME NEW e \in Known, NEW h \in Holder, SetOption(e, h) PROVE FileStep(d)
  <2>1. value[h] \in Option
    BY <1>7 DEF SetOption, Typed, ValuesTyped, ValueOf, Options
  <2> QED
    BY <1>0, <1>7, <2>1, SetQuiet, QuietStep DEF SetOption
<1>8. ASSUME Listen PROVE FileStep(d)
    BY <1>0, <1>8, ListenQuiet, QuietStep DEF Listen
<1>9. ASSUME ReactAccept PROVE FileStep(d)
  <2>1. acceptor # None
    BY <1>9 DEF ReactAccept, Typed, OperationsTyped
  <2>2. PICK r \in AcceptResult(acceptor.fd, acceptor.ep) : file' = r.file
    BY <1>9 DEF ReactAccept
  <2>3. \/ file'[d] = file[d] \/ Opened(file[d], file'[d])
        \/ Stays(file[d], file'[d])
    BY <1>0, <2>1, <2>2, AcceptStays
  <2> QED
    BY <2>3 DEF FileStep
<1>10. ASSUME \/ DestroyAcceptor \/ DestroyConnector \/ CloseUdp \/ DestroyTimer
              \/ \E s \in Socket : DestroySocket(s)
       PROVE  FileStep(d)
  <2>1. PICK c \in Fd : file' = Closed(c)
    BY <1>0, <1>10 DEF DestroyAcceptor, DestroyConnector, CloseUdp, DestroyTimer, DestroySocket
  <2>2. file'[d] = file[d] \/ file'[d] = None
    BY <1>0, <2>1, ClosedStays
  <2> QED
    BY <2>2 DEF FileStep
<1>11. ASSUME NEW ms \in Timeouts, Timeout(ms) PROVE FileStep(d)
  <2>1. Expiration(ms) \in Time /\ timer # None /\ timer.fd \in Fd /\ file \in Files
    BY <1>0, <1>11, SocketsAssumption DEF Expiration, Time, Timeout
  <2>2. file' = file \/ \E r \in KernelSetTime(timer.fd, Expiration(ms)) : file' = r.file
    BY <1>11 DEF Timeout, Fails
  <2> DEFINE t == Expiration(ms)
  <2>3. ASSUME NEW r \in KernelSetTime(timer.fd, t), file' = r.file
        PROVE  file'[d] = file[d] \/ (d = timer.fd /\ Retimed(file[d], file'[d]))
    <3>1. t \in Time
      BY <2>1
    <3> HIDE DEF t
    <3> QED
      BY <2>1, <2>3, <3>1, SetTimeStays
  <2> QED
    BY <1>11, <2>1, <2>2, <2>3 DEF Times, FileStep
<1>12. ASSUME ReactTimeout PROVE FileStep(d)
  <2>1. /\ timer # None /\ timer.fd \in File /\ file[timer.fd] # None
        /\ file' = [file EXCEPT ![timer.fd].expired = FALSE, ![timer.fd].time = Disarmed]
    BY <1>12 DEF ReactTimeout, Open, Typed, OperationsTyped
  <2>2. CASE d # timer.fd
    BY <1>0, <2>1, <2>2 DEF FileStep, Files
  <2>3. CASE d = timer.fd
    <3>1. file[d] \in FileRecord
      BY <1>0, <2>1, <2>3 DEF Files
    <3>2. file'[d] = [file[d] EXCEPT !.expired = FALSE, !.time = Disarmed]
      BY <1>0, <2>1, <2>3, <3>1 DEF Files, FileRecord
    <3>3. /\ file'[d].expired = FALSE /\ file'[d].family = file[d].family
          /\ file'[d].peer = file[d].peer /\ file'[d].backlog = file[d].backlog
      BY <3>1, <3>2 DEF FileRecord
    <3> QED
      BY <1>12, <2>1, <2>3, <3>3 DEF Times, FileStep, Retimed, StaysOpen
  <2> QED
    BY <2>2, <2>3
<1>13. file' = file => FileStep(d)
    BY DEF FileStep
<1> QED
    BY <1>1, <1>2, <1>3, <1>4, <1>5, <1>6, <1>7, <1>8, <1>9, <1>10, <1>11, <1>12, <1>13
       DEF Next, vars, UseValues, SendTo, ReceiveFrom, GetEndpoint, GetOption, Accept, Convert,
           Receive, Send, CompleteAccept, CompleteConnect, CompleteTimeout

LEMMA FamiliesNext ==
    ASSUME Typed, FamiliesOK, [Next]_vars
    PROVE  FamiliesOK'
<1> SUFFICES ASSUME NEW d \in File, file'[d] # None PROVE GoodFile(file'[d])
    BY DEF FamiliesOK, OpenFiles
<1>1. FileStep(d) /\ (file[d] # None => GoodFile(file[d]))
    BY FileSteps DEF FamiliesOK, OpenFiles
<1> QED
    BY <1>1 DEF FileStep, Opened, Stays, Reconnected, Retimed, StaysOpen, KeepsTime, GoodFile

\* The peer of an open file changes in connect alone.
LEMMA PeerKept ==
    ASSUME Typed, FamiliesOK, [Next]_vars, NEW d \in File, file[d] # None, file'[d] # None,
           ~Connects(d)
    PROVE  file'[d].peer = file[d].peer
    BY FileSteps DEF FileStep, Opened, Stays, Reconnected, Retimed, StaysOpen, KeepsTime

LEMMA TimeKept ==
    ASSUME Typed, FamiliesOK, [Next]_vars, NEW d \in File, file[d] # None, file'[d] # None,
           ~Times(d)
    PROVE  file'[d].time = file[d].time
    BY FileSteps DEF FileStep, Opened, Stays, Reconnected, Retimed, StaysOpen, KeepsTime

-----------------------------------------------------------------------------
(* Peers: what an object says of a peer stays true as long as it has the    *)
(* file, as no other object has it.                                         *)

\* The address and the port of a name.
LEMMA GoodName ==
    ASSUME NEW ep \in GoodEndpoint, ep.address.family # "unknown"
    PROVE  Names(ep, ep.name)
    BY DEF GoodEndpoint, Endpoint, Agrees, Names, FromNative, Address

LEMMA PeerNamed ==
    ASSUME NEW ep \in GoodEndpoint, NEW n \in Name, n.family \in {"v4", "v6"},
           ep.address.family = n.family
    PROVE  Names(PeerEndpoint(ep, n), n)
<1>1. ep.length # 0
    BY DEF GoodEndpoint, Agrees, NameLength
<1>2. PeerEndpoint(ep, n) = FromName(n.family, n)
    BY <1>1 DEF PeerEndpoint, Written
<1> QED
    BY <1>2 DEF FromName, NewEndpoint, Names

\* The files of the objects are open, and no two of them are the same.
LEMMA SocketApart ==
    ASSUME FilesInv, NEW s \in Socket, tcp[s] # None, tcp[s].fd # Invalid
    PROVE  /\ tcp[s].fd \in File /\ file[tcp[s].fd] # None
           /\ acceptor # None => acceptor.fd # tcp[s].fd
           /\ connector # None => connector.fd # tcp[s].fd
           /\ \A r \in Socket \ {s} : tcp[r] # None => tcp[r].fd # tcp[s].fd
<1>1. SocketFd[s] = tcp[s].fd
    BY DEF SocketFd, FdOf
<1>2. tcp[s].fd \in OpenFiles(file)
    BY <1>1 DEF FilesInv, EachOwned, Owned
<1>3. \A i \in 1..5 : Singles[i] # tcp[s].fd
    BY <1>1 DEF FilesInv, OneOwner, Apart
<1>4. Singles[1] = FdOf(acceptor) /\ Singles[2] = FdOf(connector)
    BY DEF Singles
<1>5. FdOf(acceptor) # tcp[s].fd /\ FdOf(connector) # tcp[s].fd
    BY <1>3, <1>4
<1>6. \A r \in Socket \ {s} : SocketFd[r] # tcp[s].fd
    BY <1>1 DEF FilesInv, OneOwner, Apart
<1> QED
    BY <1>2, <1>5, <1>6 DEF OpenFiles, FdOf, SocketFd

LEMMA PeerApart ==
    ASSUME FilesInv, accepting # None, accepting.phase = "accepted"
    PROVE  /\ acceptor # None /\ acceptor.peerFd \in File /\ file[acceptor.peerFd] # None
           /\ connector # None => connector.fd # acceptor.peerFd
           /\ \A r \in Socket : tcp[r] # None => tcp[r].fd # acceptor.peerFd
<1>1. PeerFd = acceptor.peerFd /\ PeerFd # Invalid /\ Singles[5] = PeerFd
    BY DEF PeerFd, FilesInv, EachOwned, PeerIsFile, Singles
<1>2. acceptor.peerFd \in OpenFiles(file)
    BY <1>1 DEF FilesInv, EachOwned, Owned
<1>3. FdOf(connector) # acceptor.peerFd
    BY <1>1 DEF FilesInv, OneOwner, Apart, Singles
<1>4. \A r \in Socket : SocketFd[r] # acceptor.peerFd
    BY <1>1 DEF FilesInv, OneOwner, Apart
<1> QED
    BY <1>2, <1>3, <1>4 DEF OpenFiles, FdOf, SocketFd, FilesInv, Typed, OperationsTyped

LEMMA ConnectorOpen ==
    ASSUME FilesInv, connector # None, connector.fd # Invalid
    PROVE  connector.fd \in File /\ file[connector.fd] # None
<1>1. Singles[2] = connector.fd
    BY DEF Singles, FdOf
<1>2. connector.fd \in OpenFiles(file)
    BY <1>1 DEF FilesInv, EachOwned, Owned
<1> QED
    BY <1>2 DEF OpenFiles

\* A file ceases to be unsure when it is closed.
LEMMA UnsureUntilClosed ==
    ASSUME [Next]_vars, NEW d, d \in unsure, d \notin unsure'
    PROVE  \/ DestroyAcceptor /\ d = acceptor.fd
           \/ DestroyConnector /\ d = connector.fd
           \/ \E s \in Socket : DestroySocket(s) /\ d = tcp[s].fd
<1>1. unsure' # unsure
    OBVIOUS
<1>2. \/ ReactAccept \/ DestroyAcceptor \/ DestroyConnector
      \/ \E s \in Socket : Convert(s) \/ DestroySocket(s)
    BY <1>1 DEF Next, vars, UseValues, Incoming, Expire, MakeAcceptor, MakeConnector,
       MakeUdp, MakeTimer, Bind, Connect, SendTo, ReceiveFrom, GetEndpoint, GetOption, SetOption,
       Accept, Receive, Send, Listen, CompleteAccept, CompleteConnect,
       CloseUdp, Timeout, ReactTimeout, CompleteTimeout, DestroyTimer
<1> QED
    BY <1>2 DEF ReactAccept, DestroyAcceptor, DestroyConnector, Convert, DestroySocket

\* The steps that change a socket, or what the acceptor knows of a peer.
LEMMA SocketChanged ==
    ASSUME Typed, [Next]_vars, NEW s \in Socket, tcp'[s] # tcp[s], tcp'[s] # None
    PROVE  \/ Convert(s)
           \/ CompleteAccept /\ accepting.peer = s /\ accepting.phase = "accepted"
<1>1. tcp \in [Socket -> Tcps \cup {None}]
    BY DEF Typed, ObjectsTyped
<1>2. CompleteAccept \/ \E r \in Socket : Convert(r) \/ DestroySocket(r)
    BY DEF Next, vars, objects, UseValues, Incoming, Expire, MakeAcceptor, MakeConnector,
       MakeUdp, MakeTimer, Bind, Connect, SendTo, ReceiveFrom, GetEndpoint, GetOption, SetOption,
       Accept, Receive, Send, Listen, ReactAccept, CompleteConnect, DestroyAcceptor,
       DestroyConnector, CloseUdp, Timeout, ReactTimeout, CompleteTimeout, DestroyTimer
<1>3. CASE CompleteAccept
    BY <1>1, <1>3 DEF CompleteAccept
<1>4. ASSUME NEW r \in Socket, Convert(r) PROVE Convert(s)
    BY <1>1, <1>4 DEF Convert
<1>5. ASSUME NEW r \in Socket, DestroySocket(r) PROVE FALSE
    BY <1>1, <1>5 DEF DestroySocket
<1> QED
    BY <1>2, <1>3, <1>4, <1>5

LEMMA KnowPeerNext ==
    ASSUME SuccessInv, [Next]_vars
    PROVE  SocketsKnowPeer'
<1> SUFFICES ASSUME NEW s \in Socket, NEW x, x = tcp'[s], x # None, x.fd \in File,
                    file'[x.fd] # None, x.fd \notin unsure'
             PROVE  Names(x.ep, file'[x.fd].peer)
    BY DEF SocketsKnowPeer, Open
<1>0. FilesInv /\ Typed /\ FamiliesOK
    BY DEF SuccessInv, FilesInv
<1>1. CASE tcp[s] = x
  <2>1. x.fd # Invalid
    BY SocketsAssumption
  <2>2. /\ file[x.fd] # None
        /\ acceptor # None => acceptor.fd # x.fd
        /\ connector # None => connector.fd # x.fd
        /\ \A r \in Socket \ {s} : tcp[r] # None => tcp[r].fd # x.fd
    BY <1>0, <1>1, <2>1, SocketApart
  <2>3. x.fd \notin unsure
    <3>1. ~DestroySocket(s)
      BY <1>0 DEF DestroySocket, Typed, ObjectsTyped
    <3> QED
      BY <2>2, <3>1, UnsureUntilClosed DEF DestroyAcceptor, DestroyConnector, DestroySocket
  <2>4. Names(x.ep, file[x.fd].peer)
    BY <1>1, <2>2, <2>3 DEF SuccessInv, SocketsKnowPeer, Open
  <2>5. file'[x.fd].peer = file[x.fd].peer
    BY <1>0, <2>2, PeerKept DEF Connects
  <2> QED
    BY <2>4, <2>5
<1>2. CASE CompleteAccept /\ accepting.peer = s /\ accepting.phase = "accepted"
  <2>1. x = [fd |-> acceptor.peerFd, ep |-> acceptor.peerEp] /\ file' = file /\ unsure' = unsure
    BY <1>0, <1>2 DEF CompleteAccept, Typed, ObjectsTyped
  <2> QED
    BY <1>2, <2>1 DEF CompleteAccept, SuccessInv, AcceptedOK
<1>3. CASE Convert(s)
  <2>1. x = [fd |-> connector.fd, ep |-> connector.ep] /\ file' = file
    BY <1>0, <1>3 DEF Convert, Typed, ObjectsTyped
  <2>2. connector # None /\ connector.told /\ connector.ep.address.family = "v4"
    BY <1>3, <2>1 DEF Convert
  <2> QED
    BY <2>1, <2>2 DEF SuccessInv, ConnectedOK, Connected
<1> QED
    BY <1>0, <1>1, <1>2, <1>3, SocketChanged

LEMMA AcceptedSame ==
    ASSUME Typed, [Next]_vars, accepting' # None, accepting'.phase = "accepted", ~ReactAccept
    PROVE  /\ accepting' = accepting /\ acceptor # None
           /\ acceptor'.peerFd = acceptor.peerFd /\ acceptor'.peerEp = acceptor.peerEp
           /\ ~DestroyAcceptor
<1>1. \A s \in Socket : ~Accept(s)
    BY DEF Accept
<1>2. ~CompleteAccept /\ ~DestroyAcceptor
    BY DEF CompleteAccept, DestroyAcceptor
<1>3. accepting' = accepting
    BY <1>1, <1>2 DEF Next, vars, operations, UseValues, Incoming, Expire, MakeAcceptor,
       MakeConnector, MakeUdp, MakeTimer, Bind, Connect, SendTo, ReceiveFrom, GetEndpoint,
       GetOption, SetOption, Convert, Receive, Send, DestroySocket, Listen, CompleteConnect,
       DestroyConnector, CloseUdp, Timeout, ReactTimeout, CompleteTimeout, DestroyTimer
<1>4. acceptor # None /\ acceptor \in Acceptors
    BY <1>3 DEF Typed, ObjectsTyped, OperationsTyped
<1>5. acceptor' = acceptor \/ \E h \in Holder : Bind(h)
    BY <1>1, <1>2, <1>4 DEF Next, vars, objects, UseValues, Incoming, Expire, MakeAcceptor,
       MakeConnector, MakeUdp, MakeTimer, Connect, SendTo, ReceiveFrom, GetEndpoint,
       GetOption, SetOption, Convert, Receive, Send, DestroySocket, Listen, CompleteConnect,
       DestroyConnector, CloseUdp, Timeout, ReactTimeout, CompleteTimeout, DestroyTimer
<1>6. ASSUME NEW h \in Holder, Bind(h)
      PROVE  acceptor'.peerFd = acceptor.peerFd /\ acceptor'.peerEp = acceptor.peerEp
    BY <1>4, <1>6 DEF Bind, Acceptors
<1> QED
    BY <1>2, <1>3, <1>4, <1>5, <1>6

LEMMA AcceptedNext ==
    ASSUME SuccessInv, [Next]_vars
    PROVE  AcceptedOK'
<1> SUFFICES ASSUME accepting' # None, accepting'.phase = "accepted",
                    NEW d, d = acceptor'.peerFd, d \notin unsure'
             PROVE  Names(acceptor'.peerEp, file'[d].peer)
    BY DEF AcceptedOK
<1>0. FilesInv /\ Typed /\ FamiliesOK /\ FilesInv' /\ file \in Files
    BY NextFiles DEF SuccessInv, FilesInv, Typed
<1>1. CASE ReactAccept
  <2>1. /\ acceptor # None /\ acceptor \in Acceptors /\ acceptor.fd \in Fd
        /\ acceptor.ep \in GoodEndpoint
    BY <1>0, <1>1 DEF ReactAccept, Typed, ObjectsTyped, OperationsTyped, Acceptors
  <2>2. PICK r \in AcceptResult(acceptor.fd, acceptor.ep) :
          /\ acceptor' = [acceptor EXCEPT !.peerFd = r.fd, !.peerEp = r.ep]
          /\ file' = r.file
          /\ accepting' = [accepting EXCEPT !.phase =
                              IF r.fd = Invalid THEN "failed" ELSE "accepted"]
          /\ unsure' = IF r.fd # Invalid /\ Misread(acceptor.fd, acceptor.ep)
                       THEN unsure \cup {r.fd} ELSE unsure
    BY <1>1 DEF ReactAccept
  <2>3. r.fd # Invalid /\ d = r.fd /\ acceptor'.peerEp = r.ep
    <3>1. accepting \in Accepts
      BY <1>0, <1>1 DEF ReactAccept, Typed, OperationsTyped
    <3> QED
      BY <2>1, <2>2, <3>1 DEF Acceptors, Accepts
  <2>4. acceptor.ep.address.family = file[acceptor.fd].family
    BY <2>2, <2>3 DEF Misread
  <2>5. /\ Open(acceptor.fd) /\ r.n \in file[acceptor.fd].backlog
        /\ r.ep = PeerEndpoint(acceptor.ep, r.n) /\ file'[d].peer = r.n
    BY <1>0, <2>1, <2>2, <2>3, AcceptStays
  <2>6. r.n \in Name /\ r.n.family = file[acceptor.fd].family
    BY <1>0, <2>5, NamesAreNames DEF FamiliesOK, GoodFile, OpenFiles, Open, Files, FileRecord
  <2>7. acceptor.ep.address.family \in {"v4", "v6"}
    BY <1>0, <2>1, <2>4, <2>5 DEF FamiliesOK, GoodFile, OpenFiles, Open, GoodEndpoint, Endpoint,
       Address, Family
  <2> QED
    BY <2>1, <2>3, <2>4, <2>5, <2>6, <2>7, PeerNamed
<1>2. CASE ~ReactAccept
  <2>1. /\ accepting' = accepting /\ acceptor # None
        /\ d = acceptor.peerFd /\ acceptor'.peerEp = acceptor.peerEp
        /\ ~DestroyAcceptor
    BY <1>0, <1>2, AcceptedSame
  <2>2. /\ d \in File /\ file[d] # None
        /\ connector # None => connector.fd # d
        /\ \A s \in Socket : tcp[s] # None => tcp[s].fd # d
    BY <1>0, <2>1, PeerApart
  <2>3. d \notin unsure
    BY <2>1, <2>2, UnsureUntilClosed DEF DestroyConnector, DestroySocket
  <2>4. Names(acceptor.peerEp, file[d].peer)
    BY <2>1, <2>3 DEF SuccessInv, AcceptedOK
  <2>5. file'[d] # None
    <3>1. PeerFd' = d /\ Singles'[5] = PeerFd' /\ d # Invalid
      BY <2>1, <2>2, SocketsAssumption DEF PeerFd, Singles
    <3>2. d \in OpenFiles(file')
      BY <1>0, <3>1 DEF FilesInv, EachOwned, Owned
    <3> QED
      BY <3>2 DEF OpenFiles
  <2>6. file'[d].peer = file[d].peer
    BY <1>0, <2>2, <2>5, PeerKept DEF Connects
  <2> QED
    BY <2>1, <2>4, <2>6
<1> QED
    BY <1>1, <1>2

LEMMA ConnectorSame ==
    ASSUME Typed, [Next]_vars, connector' # None, ~CompleteConnect,
           \A h \in Holder : ~Connect(h), \A f \in Family : ~MakeConnector(f)
    PROVE  connector' = connector /\ connecting' = connecting
<1>1. ~DestroyConnector /\ \A s \in Socket : ~Convert(s)
    BY DEF DestroyConnector, Convert
<1> QED
    BY <1>1 DEF Next, vars, objects, operations, UseValues, Incoming, Expire, MakeAcceptor, MakeUdp,
       MakeTimer, Bind, SendTo, ReceiveFrom, GetEndpoint, GetOption, SetOption, Accept, Receive,
       Send, DestroySocket, Listen, ReactAccept, CompleteAccept, DestroyAcceptor, CloseUdp,
       Timeout, ReactTimeout, CompleteTimeout, DestroyTimer

LEMMA ConnectedNext ==
    ASSUME SuccessInv, [Next]_vars
    PROVE  ConnectedOK'
<1> SUFFICES ASSUME connector' # None, connector'.ep.address.family = "v4", Connected'
             PROVE  /\ connector'.fd \in File /\ file'[connector'.fd] # None
                    /\ Names(connector'.ep, file'[connector'.fd].peer)
    BY DEF ConnectedOK, Open
<1>0. /\ FilesInv /\ Typed /\ FamiliesOK /\ FilesInv' /\ file \in Files
      /\ connector \in Connectors \cup {None}
    BY NextFiles DEF SuccessInv, FilesInv, Typed, ObjectsTyped
<1>1. ASSUME NEW h \in Holder, Connect(h)
      PROVE  /\ connector'.fd \in File /\ file'[connector'.fd] # None
             /\ Names(connector'.ep, file'[connector'.fd].peer)
  <2>1. /\ connector \in Connectors /\ connector.fd \in Fd /\ value[h] \in GoodEndpoint
        /\ connector' = [connector EXCEPT !.ep = value[h], !.told = FALSE]
    BY <1>0, <1>1, HeldTyped DEF Connect, Typed, ObjectsTyped, Connectors, ValueOf
  <2>2. /\ connector'.fd = connector.fd /\ connector'.ep = value[h] /\ ~connector'.told
    BY <2>1 DEF Connectors
  <2>3. PICK r \in ConnectResult(connector.fd, value[h]), armed \in BOOLEAN :
          file' = r.file /\ connecting' = [ok |-> r.ok /\ armed]
    BY <1>1 DEF Connect
  <2>4. r.ok
    BY <2>2, <2>3 DEF Connected
  <2>5. value[h].address.family = "v4"
    BY <2>2
  <2>6. connector.fd \in File
    BY <2>1, <2>3, <2>4, <2>5 DEF ConnectResult, KernelConnect, MayFail, Fails, Succeeds, Open
  <2>7. Open(connector.fd) /\ file'[connector.fd].peer = value[h].name
    BY <1>0, <2>1, <2>3, <2>4, <2>5, <2>6, ConnectStays
  <2>8. r.file \in SameFiles
    BY <1>0, <2>1, <2>3, ResultsTyped
  <2>9. file'[connector.fd] # None
    BY <2>3, <2>7, <2>8 DEF SameFiles, OpenFiles, Open
  <2> QED
    BY <2>1, <2>2, <2>5, <2>6, <2>7, <2>9, GoodName
<1>2. CASE CompleteConnect
  <2>1. /\ connector \in Connectors /\ connecting # None
        /\ connector' = [connector EXCEPT !.told = connecting.ok]
        /\ connecting' = None /\ file' = file
    BY <1>0, <1>2 DEF CompleteConnect, Typed, OperationsTyped
  <2>2. connector'.fd = connector.fd /\ connector'.ep = connector.ep /\ connecting.ok
    BY <2>1 DEF Connectors, Connected
  <2>3. connector # None
    BY <1>0, <2>1 DEF Typed, OperationsTyped
  <2> QED
    BY <2>1, <2>2, <2>3 DEF SuccessInv, ConnectedOK, Connected, Open
<1>3. ASSUME NEW f \in Family, MakeConnector(f) PROVE FALSE
  <2>1. ~connector'.told /\ connecting' = None
    BY <1>0, <1>3 DEF MakeConnector, Typed, OperationsTyped, operations
  <2> QED
    BY <2>1 DEF Connected
<1>4. CASE connector' = connector /\ connecting' = connecting /\ \A h \in Holder : ~Connect(h)
  <2>1. Open(connector.fd) /\ Names(connector.ep, file[connector.fd].peer)
    BY <1>4 DEF SuccessInv, ConnectedOK, Connected
  <2>2. file'[connector.fd] # None
    <3>1. Singles'[2] = connector.fd /\ connector.fd # Invalid
      BY <1>4, <2>1, SocketsAssumption DEF Singles, FdOf, Open
    <3>2. connector.fd \in OpenFiles(file')
      BY <1>0, <3>1 DEF FilesInv, EachOwned, Owned
    <3> QED
      BY <3>2 DEF OpenFiles
  <2>3. file'[connector.fd].peer = file[connector.fd].peer
    BY <1>0, <1>4, <2>1, <2>2, PeerKept DEF Connects, Open
  <2> QED
    BY <1>4, <2>1, <2>2, <2>3 DEF Open
<1> QED
    BY <1>0, <1>1, <1>2, <1>3, <1>4, ConnectorSame

LEMMA NeverV6Next ==
    ASSUME SuccessInv, [Next]_vars
    PROVE  NeverV6'
<1> SUFFICES ASSUME connector' # None, connector'.fd # Invalid
             PROVE  file'[connector'.fd].peer.family # "v6"
    BY DEF NeverV6
<1>0. /\ FilesInv /\ Typed /\ FamiliesOK /\ FilesInv' /\ file \in Files
      /\ connector \in Connectors \cup {None}
    BY NextFiles DEF SuccessInv, FilesInv, Typed, ObjectsTyped
<1>1. ASSUME NEW h \in Holder, Connect(h)
      PROVE  file'[connector'.fd].peer.family # "v6"
  <2>1. /\ connector \in Connectors /\ connector.fd \in Fd /\ value[h] \in GoodEndpoint
        /\ connector # None /\ connector' = [connector EXCEPT !.ep = value[h], !.told = FALSE]
    BY <1>0, <1>1, HeldTyped DEF Connect, Typed, ObjectsTyped, Connectors, ValueOf
  <2>2. connector'.fd = connector.fd
    BY <2>1 DEF Connectors
  <2>3. PICK r \in ConnectResult(connector.fd, value[h]) : file' = r.file
    BY <1>1 DEF Connect
  <2>4. CASE r.ok /\ value[h].address.family = "v4"
    <3>1. connector.fd \in File
      BY <2>1, <2>2 DEF Fd
    <3>2. file'[connector.fd].peer = value[h].name
      BY <1>0, <2>1, <2>3, <2>4, <3>1, ConnectStays
    <3>3. value[h].name.family = "v4"
      BY <2>1, <2>4 DEF GoodEndpoint, Agrees
    <3> QED
      BY <2>2, <3>2, <3>3
  <2>5. CASE ~(r.ok /\ value[h].address.family = "v4")
    <3>1. r.file = file
      BY <2>3, <2>5 DEF ConnectResult, KernelConnect, MayFail, Fails, Succeeds
    <3> QED
      BY <2>1, <2>2, <2>3, <3>1 DEF SuccessInv, NeverV6
  <2> QED
    BY <2>4, <2>5
<1>2. CASE CompleteConnect
  <2>1. /\ connector \in Connectors /\ connector # None /\ file' = file
        /\ connector' = [connector EXCEPT !.told = connecting.ok]
    BY <1>0, <1>2 DEF CompleteConnect, Typed, OperationsTyped
  <2>2. connector'.fd = connector.fd
    BY <2>1 DEF Connectors
  <2> QED
    BY <2>1, <2>2 DEF SuccessInv, NeverV6
<1>3. ASSUME NEW f \in Family, MakeConnector(f)
      PROVE  file'[connector'.fd].peer.family # "v6"
  <2>1. PICK r \in Created("stream", f) :
          connector' = [fd |-> r.fd, ep |-> NoEndpoint, told |-> FALSE] /\ file' = r.file
    BY <1>3 DEF MakeConnector
  <2>2. r.fd \in Lowest /\ file' = [file EXCEPT ![r.fd] = Fresh("stream", f)]
    BY <2>1 DEF Created
  <2>3. file'[r.fd] = Fresh("stream", f)
    BY <1>0, <2>2 DEF Lowest, Files
  <2> QED
    BY <2>1, <2>3 DEF Fresh, NoName
<1>4. CASE connector' = connector /\ \A h \in Holder : ~Connect(h)
  <2>1. connector.fd \in File /\ file[connector.fd] # None
    BY <1>0, <1>4, ConnectorOpen
  <2>2. file'[connector.fd] # None
    <3>1. Singles'[2] = connector.fd
      BY <1>4 DEF Singles, FdOf
    <3>2. connector.fd \in OpenFiles(file')
      BY <1>0, <1>4, <3>1 DEF FilesInv, EachOwned, Owned
    <3> QED
      BY <3>2 DEF OpenFiles
  <2>3. file'[connector.fd].peer = file[connector.fd].peer
    BY <1>0, <1>4, <2>1, <2>2, PeerKept DEF Connects
  <2> QED
    BY <1>4, <2>3 DEF SuccessInv, NeverV6
<1> QED
    BY <1>0, <1>1, <1>2, <1>3, <1>4, ConnectorSame

LEMMA TimerSame ==
    ASSUME Typed, [Next]_vars, timing' # None, ~ReactTimeout, \A ms \in Timeouts : ~Timeout(ms)
    PROVE  timing' = timing /\ timer' = timer /\ timer # None
<1>1. ~CompleteTimeout /\ ~DestroyTimer
    BY DEF CompleteTimeout, DestroyTimer
<1>2. timing' = timing
    BY <1>1 DEF Next, vars, operations, UseValues, Incoming, Expire, MakeAcceptor, MakeConnector,
       MakeUdp, MakeTimer, Bind, Connect, SendTo, ReceiveFrom, GetEndpoint, GetOption, SetOption,
       Accept, Convert, Receive, Send, DestroySocket, Listen, ReactAccept, CompleteAccept,
       CompleteConnect, DestroyAcceptor, DestroyConnector, CloseUdp
<1>3. timer # None
    BY <1>2 DEF Typed, OperationsTyped
<1> QED
    BY <1>1, <1>2, <1>3 DEF Next, vars, objects, UseValues, Incoming, Expire, MakeAcceptor,
       MakeConnector, MakeUdp, MakeTimer, Bind, Connect, SendTo, ReceiveFrom, GetEndpoint,
       GetOption, SetOption, Accept, Convert, Receive, Send, DestroySocket, Listen, ReactAccept,
       CompleteAccept, CompleteConnect, DestroyAcceptor, DestroyConnector, CloseUdp

LEMMA TimingNext ==
    ASSUME SuccessInv, [Next]_vars
    PROVE  TimingOK'
<1> SUFFICES ASSUME timing' # None
             PROVE  /\ timing'.phase = "armed" =>
                          /\ timer'.fd \in File /\ file'[timer'.fd] # None
                          /\ file'[timer'.fd].time = Expiration(timing'.ms)
                    /\ timing'.phase = "expired" =>
                          timing'.ms # 0 /\ Elapsed(timing'.took) = timing'.ms
    BY DEF TimingOK, Open
<1>0. FilesInv /\ Typed /\ FamiliesOK /\ FilesInv' /\ file \in Files
    BY NextFiles DEF SuccessInv, FilesInv, Typed
<1>1. ASSUME NEW ms \in Timeouts, Timeout(ms)
      PROVE  /\ timing'.phase = "armed" =>
                   /\ timer'.fd \in File /\ file'[timer'.fd] # None
                   /\ file'[timer'.fd].time = Expiration(timing'.ms)
             /\ timing'.phase # "expired"
  <2>1. timer # None /\ timer.fd \in Fd /\ timer' = timer
    BY <1>0, <1>1 DEF Timeout, objects, Typed, ObjectsTyped
  <2>2. PICK armed \in BOOLEAN :
          \E r \in IF armed THEN KernelSetTime(timer.fd, Expiration(ms)) ELSE {Fails} :
             /\ file' = r.file
             /\ timing' = [ms |-> ms, phase |-> IF r.ok THEN "armed" ELSE "failed",
                           took |-> Disarmed]
    BY <1>1 DEF Timeout, Open
  <2>3. PICK r \in IF armed THEN KernelSetTime(timer.fd, Expiration(ms)) ELSE {Fails} :
          /\ file' = r.file
          /\ timing' = [ms |-> ms, phase |-> IF r.ok THEN "armed" ELSE "failed", took |-> Disarmed]
    BY <2>2
  <2>4. CASE ~r.ok
    BY <2>3, <2>4
  <2>5. CASE r.ok
    <3>1. r \in KernelSetTime(timer.fd, Expiration(ms)) /\ timing'.ms = ms
      BY <2>3, <2>5 DEF Fails
    <3>2. Expiration(ms) \in Time
      BY SocketsAssumption DEF Expiration, Time
    <3>3. Open(timer.fd)
      BY <2>5, <3>1 DEF KernelSetTime, MayFail, Fails
    <3>4. timer.fd \in File
      BY <3>3 DEF Open
    <3> DEFINE t == Expiration(ms)
    <3>5. t \in Time /\ r \in KernelSetTime(timer.fd, t)
      BY <3>1, <3>2
    <3> HIDE DEF t
    <3>6. r.file[timer.fd].time = t
      BY <1>0, <2>1, <2>5, <3>4, <3>5, SetTimeStays
    <3>7. r.file \in SameFiles
      BY <1>0, <2>1, <3>5, ResultsTyped
    <3>8. file'[timer.fd] # None
      BY <2>3, <3>3, <3>7 DEF SameFiles, OpenFiles, Open
    <3> QED
      BY <2>1, <2>3, <3>1, <3>4, <3>6, <3>8 DEF t
  <2> QED
    BY <2>4, <2>5
<1>2. CASE ReactTimeout
  <2>1. /\ timing \in Timings /\ timing.phase = "armed" /\ timer.fd \in File
        /\ file[timer.fd] # None /\ file[timer.fd].expired
        /\ timing' = [timing EXCEPT !.phase = "expired", !.took = file[timer.fd].time]
    BY <1>0, <1>2 DEF ReactTimeout, Open, Typed, OperationsTyped
  <2>2. /\ timing'.phase = "expired" /\ timing'.took = file[timer.fd].time
        /\ timing'.ms = timing.ms /\ timing.ms \in Nat
    BY <2>1 DEF Timings
  <2>3. file[timer.fd].time = Expiration(timing.ms)
    BY <1>2, <2>1 DEF SuccessInv, TimingOK, ReactTimeout
  <2>4. file[timer.fd].time # Disarmed
    BY <1>0, <2>1 DEF FamiliesOK, GoodFile, OpenFiles
  <2>5. ExactTime(timing.ms)
    BY <2>2, TimerExact
  <2> QED
    BY <2>2, <2>3, <2>4, <2>5 DEF ExactTime, Disarmed
<1>3. CASE timing' = timing /\ timer' = timer /\ timer # None /\ ~ReactTimeout
           /\ \A ms \in Timeouts : ~Timeout(ms)
  <2>1. CASE timing.phase = "armed"
    <3>1. Open(timer.fd) /\ file[timer.fd].time = Expiration(timing.ms)
      BY <1>3, <2>1 DEF SuccessInv, TimingOK
    <3>2. Singles'[3] = timer.fd /\ timer.fd # Invalid /\ timer.fd \in File
      BY <1>3, <3>1, SocketsAssumption DEF Singles, FdOf, Open
    <3>3. timer.fd \in OpenFiles(file')
      BY <1>0, <3>2 DEF FilesInv, EachOwned, Owned
    <3>4. file'[timer.fd] # None
      BY <3>3 DEF OpenFiles
    <3>5. file'[timer.fd].time = file[timer.fd].time
      BY <1>0, <1>3, <3>1, <3>4, TimeKept DEF Times, Open
    <3> QED
      BY <1>3, <2>1, <3>1, <3>2, <3>4, <3>5
  <2>2. CASE timing.phase # "armed"
    BY <1>3, <2>2 DEF SuccessInv, TimingOK
  <2> QED
    BY <2>1, <2>2
<1> QED
    BY <1>0, <1>1, <1>2, <1>3, TimerSame

LEMMA SuccessInit == Init => SuccessInv
<1> SUFFICES ASSUME Init PROVE SuccessInv
    OBVIOUS
<1>1. FilesInv
    BY InitFiles
<1>2. OptionsOK
    BY DEF Init, ValuesInit, OptionsOK, Fits, DefaultOf, Options, NoOption
<1>3. FamiliesOK
    BY DEF Init, FamiliesOK, OpenFiles
<1>4. SocketsKnowPeer /\ AcceptedOK /\ ConnectedOK /\ NeverV6 /\ TimingOK
    BY DEF Init, SocketsKnowPeer, AcceptedOK, ConnectedOK, NeverV6, TimingOK
<1> QED
    BY <1>1, <1>2, <1>3, <1>4 DEF SuccessInv

LEMMA SuccessNext == SuccessInv /\ [Next]_vars => SuccessInv'
<1> SUFFICES ASSUME SuccessInv, [Next]_vars PROVE SuccessInv'
    OBVIOUS
<1>1. FilesInv /\ Typed /\ FamiliesOK /\ OptionsOK
    BY DEF SuccessInv, FilesInv
<1> QED
    BY <1>1, NextFiles, OptionsNext, FamiliesNext, KnowPeerNext, AcceptedNext, ConnectedNext,
       NeverV6Next, TimingNext DEF SuccessInv

\* What a socket says of its peer is whom the kernel has connected it with, however the
\* socket came about, unless nobody can know.
THEOREM PeersAreKnown == Spec => []SocketsKnowPeer
<1>1. SuccessInv => SocketsKnowPeer
    BY DEF SuccessInv
<1> QED
    BY <1>1, SuccessInit, SuccessNext, PTL DEF Spec

-----------------------------------------------------------------------------
(* A call that has returned OK has done what was asked.                     *)

LEMMA SilentDone == ASSUME said' = NoCall PROVE OKIsDone'
    BY DEF OKIsDone, NoCall

LEMMA FieldWritten ==
    ASSUME file \in Files, NEW d \in File, file[d] # None
    PROVE  /\ \A n \in Name : [file EXCEPT ![d].local = n][d].local = n
           /\ [file EXCEPT ![d].listening = TRUE][d].listening
           /\ \A i \in {0, 1} : [file EXCEPT ![d].reuse = i][d].reuse = i
           /\ \A g : g \in [file EXCEPT ![d].groups = @ \cup {g}][d].groups
<1>1. file[d] \in FileRecord
    BY DEF Files
<1>2. \A x : [file EXCEPT ![d] = x][d] = x
    BY DEF Files
<1>3. /\ \A n \in Name : [file[d] EXCEPT !.local = n].local = n
      /\ [file[d] EXCEPT !.listening = TRUE].listening = TRUE
      /\ \A i \in {0, 1} : [file[d] EXCEPT !.reuse = i].reuse = i
      /\ \A g : [file[d] EXCEPT !.groups = @ \cup {g}].groups = file[d].groups \cup {g}
    BY <1>1 DEF FileRecord
<1> QED
    BY <1>2, <1>3

LEMMA BindDone ==
    ASSUME Typed, NEW h \in Holder, Bind(h)
    PROVE  OKIsDone'
<1>1. /\ file \in Files /\ value[h] \in GoodEndpoint /\ value[h].name \in Name
      /\ acceptor \in Acceptors
    BY HeldTyped DEF Bind, Typed, ObjectsTyped, ValueOf, GoodEndpoint, Endpoint
<1>2. acceptor'.ep = value[h] /\ acceptor'.fd = acceptor.fd
    BY <1>1 DEF Bind, Acceptors
<1>3. PICK r \in BindResult(acceptor.fd, value[h]) :
        file' = r.file /\ Says("bind", r.ok, acceptor.fd)
    BY DEF Bind
<1>4. CASE ~r.ok
    BY <1>3, <1>4, SilentDone DEF Says
<1>5. CASE r.ok
  <2>1. said' = [call |-> "bind", ok |-> TRUE, fd |-> acceptor.fd]
    BY <1>3, <1>5 DEF Says
  <2>2. ASSUME value[h].address.family # "unknown"
        PROVE  Names(value[h], file'[acceptor.fd].local)
    <3>1. /\ Open(acceptor.fd)
          /\ r.file = [file EXCEPT ![acceptor.fd].local = value[h].name]
      BY <1>5, <2>2 DEF BindResult, KernelBind, MayFail, Fails, Succeeds
    <3>2. file'[acceptor.fd].local = value[h].name
      BY <1>1, <1>3, <3>1, FieldWritten DEF Open
    <3> QED
      BY <1>1, <2>2, <3>2, GoodName
  <2> QED
    BY <1>2, <2>1, <2>2 DEF OKIsDone, SaidOnly, Done, Undone
<1> QED
    BY <1>4, <1>5

LEMMA ListenDone ==
    ASSUME Typed, Listen
    PROVE  OKIsDone'
<1>1. file \in Files
    BY DEF Typed
<1>2. PICK r \in KernelListen(acceptor.fd) : file' = r.file /\ Says("listen", r.ok, acceptor.fd)
    BY DEF Listen
<1>3. CASE ~r.ok
    BY <1>2, <1>3, SilentDone DEF Says
<1>4. CASE r.ok
  <2>1. said' = [call |-> "listen", ok |-> TRUE, fd |-> acceptor.fd]
    BY <1>2, <1>4 DEF Says
  <2>2. Open(acceptor.fd) /\ r.file = [file EXCEPT ![acceptor.fd].listening = TRUE]
    BY <1>4 DEF KernelListen, MayFail, Fails, Succeeds
  <2>3. file'[acceptor.fd].listening
    BY <1>1, <1>2, <2>2, FieldWritten DEF Open
  <2> QED
    BY <2>1, <2>3 DEF OKIsDone, SaidOnly, Done
<1> QED
    BY <1>3, <1>4

LEMMA ConnectDone ==
    ASSUME SuccessInv, CompleteConnect
    PROVE  OKIsDone'
<1>1. connector \in Connectors /\ connector # None
    BY DEF SuccessInv, FilesInv, Typed, ObjectsTyped, OperationsTyped, CompleteConnect
<1>2. connector'.fd = connector.fd /\ connector'.ep = connector.ep /\ file' = file
    BY <1>1 DEF CompleteConnect, Connectors
<1>3. CASE ~connecting.ok
    BY <1>3, SilentDone DEF CompleteConnect, Says
<1>4. CASE connecting.ok
  <2>1. said' = [call |-> "connect", ok |-> TRUE, fd |-> connector.fd]
    BY <1>4 DEF CompleteConnect, Says
  <2>2. connector.ep.address.family = "v4" => Names(connector.ep, file[connector.fd].peer)
    BY <1>1, <1>4 DEF SuccessInv, ConnectedOK, Connected, CompleteConnect
  <2>3. Open(connector.fd) => file[connector.fd].peer.family # "v6"
    BY <1>1, SocketsAssumption DEF SuccessInv, NeverV6, Open
  <2> QED
    BY <1>2, <2>1, <2>2, <2>3 DEF OKIsDone, SaidOnly, Done, Undone, Open
<1> QED
    BY <1>3, <1>4

LEMMA TransferDone ==
    ASSUME NEW s \in Socket, Receive(s) \/ Send(s)
    PROVE  OKIsDone'
<1>1. CASE Receive(s)
  <2>1. PICK r \in RecvResult(tcp[s].fd) :
          said' = IF Reported(r.ok, r.bytes)
                  THEN [call |-> "recv", ok |-> TRUE, fd |-> tcp[s].fd, bytes |-> r.bytes]
                  ELSE NoCall
    BY <1>1 DEF Receive
  <2>2. CASE ~Reported(r.ok, r.bytes)
    BY <2>1, <2>2, SilentDone
  <2>3. CASE Reported(r.ok, r.bytes)
    <3>1. r.bytes \in {0, 1} /\ r.ok \in MayTransfer(tcp[s].fd) /\ r.ok /\ r.bytes # 0
      BY <2>3 DEF Reported, RecvResult
    <3>2. file[tcp[s].fd].peer # NoName
      BY <3>1 DEF MayTransfer
    <3>3. r.bytes > 0
      BY <3>1
    <3> QED
      BY <1>1, <2>1, <2>3, <3>2, <3>3 DEF OKIsDone, SaidOnly, Done, Receive
  <2> QED
    BY <2>2, <2>3
<1>2. CASE Send(s)
  <2>1. PICK ok \in SendResult(tcp[s].fd) : Says("send", ok, tcp[s].fd)
    BY <1>2 DEF Send
  <2>2. CASE ~ok
    BY <2>1, <2>2, SilentDone DEF Says
  <2>3. CASE ok
    <3>1. file[tcp[s].fd].peer # NoName
      BY <2>3 DEF SendResult, MayTransfer
    <3> QED
      BY <1>2, <2>1, <2>3, <3>1 DEF OKIsDone, SaidOnly, Done, Send, Says
  <2> QED
    BY <2>2, <2>3
<1> QED
    BY <1>1, <1>2

LEMMA TimeoutDone ==
    ASSUME SuccessInv, CompleteTimeout
    PROVE  OKIsDone'
<1>1. CASE timing.phase = "failed"
    BY <1>1, SilentDone DEF CompleteTimeout
<1>2. CASE timing.phase # "failed"
  <2>1. timing.ms # 0 /\ Elapsed(timing.took) = timing.ms
    BY <1>2 DEF SuccessInv, TimingOK, CompleteTimeout
  <2>2. said' = [call |-> "timeout", ok |-> TRUE, fd |-> timer.fd, ms |-> timing.ms,
                 took |-> timing.took]
    BY <1>2 DEF CompleteTimeout
  <2> QED
    BY <2>1, <2>2 DEF OKIsDone, SaidOnly, Done
<1> QED
    BY <1>1, <1>2

LEMMA DatagramDone ==
    ASSUME SuccessInv, NEW h \in Holder, SendTo(h) \/ ReceiveFrom(h)
    PROVE  OKIsDone'
<1>1. /\ value[h] \in GoodEndpoint /\ value[h].name \in Name
      /\ value[h].address.family \in Family
    BY HeldTyped DEF SendTo, ReceiveFrom, SuccessInv, FilesInv, Typed, ValueOf, GoodEndpoint,
       Endpoint, Address
<1>2. file[udp].family \in {"v4", "v6", "none"}
    BY DEF SendTo, ReceiveFrom, SuccessInv, FamiliesOK, GoodFile, OpenFiles, Open
<1>3. CASE SendTo(h)
  <2>1. PICK r \in SendToResult(udp, value[h]) :
          said' = IF r.ok THEN [call |-> "send_to", ok |-> TRUE, fd |-> udp, ep |-> value[h],
                                n |-> value[h].name]
                  ELSE NoCall
    BY <1>3 DEF SendTo
  <2>2. CASE ~r.ok
    BY <2>1, <2>2, SilentDone
  <2>3. CASE r.ok
    <3>1. /\ file[udp].family = value[h].name.family
          /\ value[h].length = NameLength(value[h].name.family)
      BY <2>3 DEF SendToResult, KernelSendTo, MayFail, Fails
    <3>2. value[h].name.family \in {"v4", "v6"}
      BY <1>1, <1>2, <3>1 DEF Name, Family
    <3>3. value[h].address.family # "unknown"
      BY <1>1, <3>1, <3>2 DEF GoodEndpoint, Agrees, NameLength
    <3>4. Names(value[h], value[h].name)
      BY <1>1, <3>3, GoodName
    <3> QED
      BY <2>1, <2>3, <3>4 DEF OKIsDone, SaidOnly, Done
  <2> QED
    BY <2>2, <2>3
<1>4. CASE ReceiveFrom(h)
  <2> DEFINE ep == value[h]
  <2>1. PICK n \in Remote :
          /\ n.family = file[udp].family
          /\ said' \in {NoCall, [call |-> "recv_from", ok |-> TRUE, fd |-> udp, by |-> ep,
                                ep |-> PeerEndpoint(ep, n), n |-> n]}
    BY <1>4 DEF ReceiveFrom
  <2>2. CASE said' = NoCall
    BY <2>2, SilentDone
  <2>3. CASE said' = [call |-> "recv_from", ok |-> TRUE, fd |-> udp, by |-> ep,
                      ep |-> PeerEndpoint(ep, n), n |-> n]
    <3>1. file' = file /\ n \in Name
      BY <1>4, NamesAreNames DEF ReceiveFrom
    <3>2. ASSUME ~Misread(udp, ep) PROVE Names(PeerEndpoint(ep, n), n)
      <4>1. ep.address.family = n.family /\ n.family \in {"v4", "v6"}
        BY <1>1, <1>2, <2>1, <3>2 DEF Misread, Family
      <4> QED
        BY <1>1, <3>1, <4>1, PeerNamed
    <3>3. ASSUME ep.address.family # "unknown"
          PROVE  PeerEndpoint(ep, n).port = Swapped(n.port)
      <4>1. ep.length # 0
        BY <1>1, <3>3 DEF GoodEndpoint, Agrees, NameLength, Family
      <4> QED
        BY <4>1 DEF PeerEndpoint, Written, FromName, NewEndpoint
    <3>4. SaidOnly' <=> Misread(udp, ep)
      BY <2>3, <3>1 DEF SaidOnly, Misread
    <3>5. CASE Misread(udp, ep)
      BY <2>3, <3>3, <3>4, <3>5 DEF OKIsDone, Undone
    <3>6. CASE ~Misread(udp, ep)
      BY <2>3, <3>2, <3>4, <3>6 DEF OKIsDone, Done
    <3> QED
      BY <3>5, <3>6
  <2> QED
    BY <2>1, <2>2, <2>3
<1> QED
    BY <1>3, <1>4

LEMMA ClaimDone ==
    ASSUME Typed, OptionsOK, NEW d \in Known, NEW h \in Holder, SetOption(d, h)
    PROVE  OKIsDone'
<1> DEFINE c == Class[h]
           o == value[h]
<1>1. /\ c \in Options /\ o \in Option /\ o.what \in {"none", WhatOf(c)} /\ file \in Files
      /\ o.int \in {0, 1}
    BY DEF SetOption, Typed, ValuesTyped, ValueOf, Options, OptionsOK, Fits, Option
<1>2. PICK r \in SetResult(d, c, o) : file' = r.file /\ said' = Claim("set", r.ok, d, o)
    BY DEF SetOption
<1> HIDE DEF c, o
<1>3. CASE ~r.ok
    BY <1>2, <1>3, SilentDone DEF Claim
<1>4. CASE r.ok
  <2>1. said' = [call |-> "set", ok |-> TRUE, fd |-> d, opt |-> o]
    BY <1>2, <1>4 DEF Claim
  <2>2. ASSUME o.what = "SO_REUSEADDR" PROVE o.int = file'[d].reuse
    <3>1. c = "reuse"
      BY <1>1, <2>2 DEF WhatOf, Options
    <3>2. Open(d) /\ file' = [file EXCEPT ![d].reuse = o.int]
      BY <1>2, <1>4, <2>2, <3>1 DEF SetResult, SetInt, KernelSet, MayFail, Fails, Succeeds
    <3> QED
      BY <1>1, <3>2, FieldWritten DEF Open
  <2>3. ASSUME o.what = "IP_ADD_MEMBERSHIP", o.iface.family = "v4"
        PROVE  <<o.iface.bytes, o.mcast.bytes>> \in file'[d].groups
    <3>1. c = "join"
      BY <1>1, <2>3 DEF WhatOf, Options
    <3>2. r \in KernelSet(d, "IP_ADD_MEMBERSHIP", 0, o.iface.bytes, o.mcast.bytes, 8)
      BY <1>2, <2>3, <3>1 DEF SetResult, SetGroup
    <3>3. /\ Open(d)
          /\ file' = [file EXCEPT ![d].groups = @ \cup {<<o.iface.bytes, o.mcast.bytes>>}]
      BY <1>2, <1>4, <3>2 DEF KernelSet, MayFail, Fails, Succeeds
    <3> QED
      BY <1>1, <3>3, FieldWritten DEF Open
  <2>4. ASSUME o.what = "IP_MULTICAST_IF", o.iface.family # "unknown"
        PROVE  file'[d].outgoing \in {Zero, Junk}
    <3>1. c = "outgoing"
      BY <1>1, <2>4 DEF WhatOf, Options
    <3>2. AddressLength(o.iface) \in {16, 46}
      BY <1>1, <2>4 DEF AddressLength, Option, Address, Family
    <3>3. r \in KernelSet(d, "IP_MULTICAST_IF", 0, o.iface.bytes, Zero, AddressLength(o.iface))
      BY <1>2, <2>4, <3>1 DEF SetResult, SetAddress
    <3> DEFINE length == AddressLength(o.iface)
    <3>4. ~(length < 12)
      BY <3>2
    <3>5. r \in KernelSet(d, "IP_MULTICAST_IF", 0, o.iface.bytes, Zero, length)
      BY <3>3
    <3> HIDE DEF length
    <3>6. PICK i \in {Zero, Junk} :
            r \in MayFail(Open(d) /\ file[d].type = "datagram", [file EXCEPT ![d].outgoing = i])
      BY <3>4, <3>5 DEF KernelSet
    <3>7. Open(d) /\ file' = [file EXCEPT ![d].outgoing = i]
      BY <1>2, <1>4, <3>6 DEF MayFail, Fails, Succeeds
    <3>8. i \in Bytes
      BY DEF Bytes
    <3> QED
      BY <1>1, <3>7, <3>8, FieldWritten DEF Open
  <2>5. CASE SaidOnly'
    <3>1. Undone'
      BY <2>1, <2>4 DEF Undone
    <3> QED
      BY <2>5, <3>1 DEF OKIsDone
  <2>6. CASE ~SaidOnly'
    <3>1. \/ o.what = "SO_REUSEADDR"
          \/ o.what # "IP_MULTICAST_IF" /\ o.iface.family = "v4"
      BY <2>1, <2>6 DEF SaidOnly
    <3>2. o.what # "none"
      BY <1>2, <1>4, <3>1 DEF SetResult, SetInt, SetAddress, SetGroup, KernelSet, Fails
    <3>3. CASE o.what = "SO_REUSEADDR"
      BY <2>1, <2>2, <2>6, <3>3 DEF OKIsDone, Done
    <3>4. CASE o.what = "IP_ADD_MEMBERSHIP" /\ o.iface.family = "v4"
      BY <2>1, <2>3, <2>6, <3>4 DEF OKIsDone, Done
    <3> QED
      BY <1>1, <3>1, <3>2, <3>3, <3>4 DEF WhatOf
  <2> QED
    BY <2>5, <2>6
<1> QED
    BY <1>3, <1>4

LEMMA ReadDone ==
    ASSUME Typed, OptionsOK, NEW d \in Known, NEW h \in Holder, GetOption(d, h)
    PROVE  OKIsDone'
<1> DEFINE c == Class[h]
           v == value[h]
<1>1. c \in Options /\ v \in Option /\ v.what \in {"none", WhatOf(c)}
    BY DEF GetOption, Typed, ValuesTyped, ValueOf, Options, OptionsOK, Fits
<1>2. PICK o \in GetResult(d, c, v) : said' = IF o = None THEN NoCall ELSE Claim("get", TRUE, d, o)
    BY DEF GetOption
<1>3. file' = file
    BY DEF GetOption
<1> HIDE DEF c, v
<1>4. CASE o = None
    BY <1>2, <1>4, SilentDone
<1>5. CASE o # None
  <2>1. said' = [call |-> "get", ok |-> TRUE, fd |-> d, opt |-> o] /\ o.what = v.what
    BY <1>1, <1>2, <1>5, OptionRead DEF Claim
  <2>2. ASSUME o.what = "SO_REUSEADDR" PROVE o.int = file[d].reuse
    <3>1. c = "reuse"
      BY <1>1, <2>1, <2>2 DEF WhatOf, Options
    <3>2. o = [v EXCEPT !.int = file[d].reuse]
      BY <1>2, <1>5, <3>1 DEF GetResult, GetInt
    <3> QED
      BY <1>1, <3>2 DEF Option
  <2>3. ASSUME c = "outgoing", o.iface.family = "v4"
        PROVE  o.what = "IP_MULTICAST_IF" /\ o.iface.bytes = file[d].outgoing
    <3>1. /\ v.what = "IP_MULTICAST_IF"
          /\ o = [v EXCEPT !.iface = FromNative(@.family, IF @.family = "v4"
                                                          THEN file[d].outgoing ELSE Junk)]
      <4>1. o \in GetAddressOption(d, v)
        BY <1>2, <2>3 DEF GetResult
      <4>2. v.iface.family # "unknown"
        BY <1>5, <2>3, <4>1 DEF GetAddressOption
      <4> QED
        BY <1>5, <4>1, <4>2 DEF GetAddressOption
    <3>2. o.iface = FromNative(v.iface.family, IF v.iface.family = "v4"
                                               THEN file[d].outgoing ELSE Junk)
      BY <1>1, <3>1 DEF Option
    <3> QED
      BY <2>1, <2>3, <3>1, <3>2 DEF FromNative
  <2>4. CASE SaidOnly'
    BY <2>1, <2>4 DEF OKIsDone, Undone
  <2>5. CASE ~SaidOnly'
    <3>1. \/ o.what = "SO_REUSEADDR"
          \/ o.what # "IP_ADD_MEMBERSHIP" /\ o.iface.family = "v4"
      BY <2>1, <2>5 DEF SaidOnly
    <3>2. CASE o.what = "SO_REUSEADDR"
      BY <1>3, <2>1, <2>2, <2>5, <3>2 DEF OKIsDone, Done
    <3>3. CASE o.what \notin {"SO_REUSEADDR", "IP_ADD_MEMBERSHIP"} /\ o.iface.family = "v4"
      <4>1. c = "outgoing"
        <5>1. c # "reuse"
          BY <1>2, <1>5, <2>1, <3>3 DEF GetResult, GetInt
        <5>2. c # "join"
          <6>1. c = "join" => o.iface.family = "unknown"
            BY <1>2, <1>5 DEF GetResult, GetGroup
          <6> QED
            BY <3>3, <6>1
        <5> QED
          BY <1>1, <5>1, <5>2 DEF Options
      <4> QED
        BY <1>3, <2>1, <2>3, <2>5, <3>3, <4>1 DEF OKIsDone, Done
    <3> QED
      BY <3>1, <3>2, <3>3
  <2> QED
    BY <2>4, <2>5
<1> QED
    BY <1>4, <1>5

LEMMA DoneNext ==
    ASSUME SuccessInv, OKIsDone, [Next]_vars
    PROVE  OKIsDone'
<1>0. Typed /\ OptionsOK
    BY DEF SuccessInv, FilesInv
<1>1. ASSUME NEW h \in Holder, Bind(h) PROVE OKIsDone'
    BY <1>0, <1>1, BindDone
<1>2. ASSUME NEW h \in Holder, SendTo(h) \/ ReceiveFrom(h) PROVE OKIsDone'
    BY <1>2, DatagramDone
<1>3. ASSUME NEW d \in Known, NEW h \in Holder, SetOption(d, h) \/ GetOption(d, h) PROVE OKIsDone'
    BY <1>0, <1>3, ClaimDone, ReadDone
<1>4. ASSUME NEW s \in Socket, Receive(s) \/ Send(s) PROVE OKIsDone'
    BY <1>4, TransferDone
<1>5. ASSUME Listen \/ CompleteConnect \/ CompleteTimeout PROVE OKIsDone'
    BY <1>0, <1>5, ListenDone, ConnectDone, TimeoutDone
<1>6. CASE Silent
    BY <1>6, SilentDone DEF Silent
<1>7. CASE UNCHANGED vars
    BY <1>7 DEF vars, objects, OKIsDone, SaidOnly, Done, Undone, Open, Misread
<1> QED
    BY <1>1, <1>2, <1>3, <1>4, <1>5, <1>6, <1>7 DEF Next, UseValues, Incoming, Expire,
       MakeAcceptor, MakeConnector, MakeUdp, MakeTimer, Connect, GetEndpoint, Accept, Convert,
       DestroySocket, ReactAccept, CompleteAccept, DestroyAcceptor, DestroyConnector, CloseUdp,
       Timeout, ReactTimeout, DestroyTimer

\* OK means that the kernel has done what was asked, with the endpoint, the option or the
\* timeout that was given, but for the calls of SaidOnly: whatever is bound, moved, failed
\* or still in progress, no other call lies. A connect that made no system call never
\* has a v6 peer, a misread sender keeps its port, and the interface of multicast is
\* none that was named.
THEOREM SuccessIsReal == Spec => []OKIsDone
<1>1. Init => SuccessInv /\ OKIsDone
    BY SuccessInit DEF Init, OKIsDone, NoCall
<1>2. (SuccessInv /\ OKIsDone) /\ [Next]_vars => (SuccessInv /\ OKIsDone)'
    BY SuccessNext, DoneNext
<1> QED
    BY <1>1, <1>2, PTL DEF Spec
=============================================================================
