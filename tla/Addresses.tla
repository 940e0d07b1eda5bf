------------------------------ MODULE Addresses ------------------------------
(***************************************************************************)
(* The values the library is called with: ip_address, ip_endpoint and the   *)
(* socket options.  What each constructor builds, what a move leaves behind *)
(* and what a system call is shown of them.  The bytes of an address are a  *)
(* member of V4 or of V6, cleared, or never written.                        *)
(***************************************************************************)
EXTENDS Integers

CONSTANTS
    V4, V6,     \* addresses, as an in_addr and as an in6_addr
    Zero,       \* bytes cleared by memset
    Junk,       \* bytes nobody wrote
    Ports       \* the ports that are used

\* An in_port_t, and the uint16_t a port is passed as.
Bits16 == {p \in Nat : p < 65536}

ASSUME AddressAssumption ==
    /\ V4 \cap V6 = {} /\ Zero # Junk
    /\ {Zero, Junk} \cap (V4 \cup V6) = {}
    /\ Ports \subseteq Bits16

Bytes == V4 \cup V6 \cup {Zero, Junk}

\* family::v4, family::v6, family::unknown.
Family == {"v4", "v6", "unknown"}

-----------------------------------------------------------------------------
(* ip_address.                                                              *)

Address == [family : Family, bytes : Bytes]

\* The default constructor, and what a move leaves in its source.
NoAddress == [family |-> "unknown", bytes |-> Zero]

FromNative(f, b) == [family |-> f, bytes |-> b]

\* A text is what is looked at: does it have two colons, three dots, and the
\* address that inet_pton finds in it, if any.
Text == [colons : BOOLEAN, dots : BOOLEAN, means : V4 \cup V6 \cup {Junk}]

\* The result of inet_pton is not looked at: the family is set and the bytes stay
\* as they were, unwritten.
FromText(t) ==
    IF t.colons THEN FromNative("v6", IF t.means \in V6 THEN t.means ELSE Junk)
    ELSE IF t.dots THEN FromNative("v4", IF t.means \in V4 THEN t.means ELSE Junk)
    ELSE FromNative("unknown", Junk)

\* to_string, and == which compares its results.
AddressText(a) == IF a.family = "unknown" THEN <<>> ELSE <<a.family, a.bytes>>
SameAddress(a, b) == AddressText(a) = AddressText(b)

\* INET_ADDRSTRLEN and INET6_ADDRSTRLEN, what the text of an address needs.
AddressLength(a) == CASE a.family = "v4" -> 16 [] a.family = "v6" -> 46 [] OTHER -> 0

-----------------------------------------------------------------------------
(* ip_endpoint, and the sockaddr it keeps for the kernel.                   *)

\* htons and ntohs of a little-endian machine.
Swapped(port) == (port % 256) * 256 + port \div 256

\* sin_family, sin_addr and sin_port, or their sin6_ counterparts.
Name == [family : Family, bytes : Bytes, port : Bits16]
NoName == [family |-> "unknown", bytes |-> Zero, port |-> 0]
Unwritten == [family |-> "unknown", bytes |-> Junk, port |-> 0]

\* sizeof(sockaddr_in) and sizeof(sockaddr_in6).
NameLength(f) == CASE f = "v4" -> 16 [] f = "v6" -> 28 [] OTHER -> 0

Endpoint == [name : Name, length : {0, 16, 28}, address : Address, port : Bits16]

NoEndpoint == [name |-> NoName, length |-> 0, address |-> NoAddress, port |-> 0]

\* init_native_socket writes nothing when the family is unknown.
NativeName(a, port) ==
    IF a.family = "unknown" THEN Unwritten
    ELSE [family |-> a.family, bytes |-> a.bytes, port |-> Swapped(port)]

NewEndpoint(a, port) ==
    [name |-> NativeName(a, port), length |-> NameLength(a.family), address |-> a, port |-> port]

\* The constructors from a sockaddr_in and from a sockaddr_in6; the port is at
\* the same place in both, the address is not.
FromName(f, n) ==
    NewEndpoint(FromNative(f, IF n.family = f THEN n.bytes ELSE Junk), Swapped(n.port))

EndpointText(e) == <<AddressText(e.address), e.port>>
SameEndpoint(e, g) == EndpointText(e) = EndpointText(g)

\* What a move leaves behind.  Mutant: the length is not reset.
KeptLength(e) == [NoEndpoint EXCEPT !.length = e.length]
MovedEndpoint(e) == NoEndpoint

-----------------------------------------------------------------------------
(* Socket options.  An address_option has its address in iface.             *)

Option == [what : {"none", "SO_REUSEADDR", "IP_MULTICAST_IF", "IP_ADD_MEMBERSHIP"},
           int : {0, 1}, iface : Address, index : Nat, mcast : Address]

\* The default constructors, "used in getting option": level and name are 0.
NoOption == [what |-> "none", int |-> 0, iface |-> NoAddress, index |-> 0, mcast |-> NoAddress]

ReuseAddress(yes) == [NoOption EXCEPT !.what = "SO_REUSEADDR", !.int = yes]
SetOutgoingInterface(a) == [NoOption EXCEPT !.what = "IP_MULTICAST_IF", !.iface = a]
JoinGroup(i, n, m) ==
    [NoOption EXCEPT !.what = "IP_ADD_MEMBERSHIP", !.iface = i, !.index = n, !.mcast = m]

\* The moves are the implicit ones: the numbers stay, the addresses go.
MovedOption(o) == [o EXCEPT !.iface = NoAddress, !.mcast = NoAddress]

-----------------------------------------------------------------------------
(* init_timer: the time a timerfd is given.                                 *)

\* The product fits in 32 bits (theorem NoWrap).  Mutant: microseconds for
\* nanoseconds.
Microseconds(ms) == [sec |-> ms \div 1000, nsec |-> (ms % 1000) * 1000]
Expiration(ms) == [sec |-> ms \div 1000, nsec |-> (ms % 1000) * 1000000]

\* The time it takes, in milliseconds.
Elapsed(t) == t.sec * 1000 + t.nsec \div 1000000

-----------------------------------------------------------------------------
\* What the kernel is shown of an endpoint agrees with what address() and port()
\* say of it, and an endpoint of no family has a name of no length.
Agrees(e) ==
    /\ e.length = NameLength(e.address.family)
    /\ e.address.family # "unknown" =>
          /\ e.name.family = e.address.family
          /\ e.name.bytes = e.address.bytes
          /\ Swapped(e.name.port) = e.port

\* A timer is given the time that was asked, in a form timerfd_settime accepts,
\* and is disarmed by 0 alone.
ExactTime(ms) ==
    LET t == Expiration(ms) IN
    /\ t.nsec < 1000000000 /\ Elapsed(t) = ms
    /\ t.nsec % 1000000 = 0
    /\ t = [sec |-> 0, nsec |-> 0] <=> ms = 0
=============================================================================
