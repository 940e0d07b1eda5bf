---------------------------- MODULE ValueObjects ----------------------------
(***************************************************************************)
(* The public ip_address, ip_endpoint, reuse_address,                       *)
(* set_outgoing_interface and join_group as a program holds them: each owns *)
(* its value through a unique_ptr.  Construction of one by move leaves the  *)
(* source a cleared value, assignment by move leaves it a null pointer, and *)
(* a program may only destroy or overwrite such an object.                  *)
(***************************************************************************)
EXTENDS Addresses

CONSTANTS
    Holder,     \* the value objects of the program
    Class,      \* Class[h]: "address", "endpoint", "reuse", "outgoing" or "join"
    Texts,      \* the texts addresses are made from
    MaxMade,    \* bound: values made, copied or moved, and twice the io objects made
    None        \* a null _pimpl

Options == {"reuse", "outgoing", "join"}

ASSUME ValueAssumption ==
    /\ Class \in [Holder -> {"address", "endpoint"} \cup Options]
    /\ Texts \subseteq Text
    /\ None \notin Address \cup Endpoint \cup Option
    /\ MaxMade \in Nat

VARIABLES
    value,      \* value[h]: _pimpl->impl
    made        \* the number of them

values == <<value, made>>

DefaultOf(c) == CASE c = "address" -> NoAddress [] c = "endpoint" -> NoEndpoint [] OTHER -> NoOption
MovedOf(c, x) == CASE c = "address" -> NoAddress
                   [] c = "endpoint" -> MovedEndpoint(x)
                   [] OTHER -> MovedOption(x)

Held(c) == {h \in Holder : Class[h] = c /\ value[h] # None}

ValuesInit ==
    /\ value = [h \in Holder |-> DefaultOf(Class[h])]
    /\ made = 0

Counts(n) == made + n <= MaxMade /\ made' = made + n

\* h is given a new value of its own.
Make(h, x) ==
    /\ Counts(1)
    /\ value' = [value EXCEPT ![h] = x]

MakeAddress(h) == Class[h] = "address" /\ \E t \in Texts : Make(h, FromText(t))

\* From a text, or from an ip_address that is copied or moved from.
MakeEndpoint(h) ==
    /\ Class[h] = "endpoint"
    /\ \E port \in Ports :
          \/ \E t \in Texts : Make(h, NewEndpoint(FromText(t), port))
          \/ \E a \in Held("address") : Make(h, NewEndpoint(value[a], port))
          \/ \E a \in Held("address") :
                /\ Counts(1)
                /\ value' = [value EXCEPT ![h] = NewEndpoint(value[a], port), ![a] = NoAddress]

MakeReuse(h) == Class[h] = "reuse" /\ \E yes \in {0, 1} : Make(h, ReuseAddress(yes))

MakeOutgoing(h) ==
    Class[h] = "outgoing" /\ \E a \in Held("address") : Make(h, SetOutgoingInterface(value[a]))

MakeJoin(h) ==
    /\ Class[h] = "join"
    /\ \E a \in Held("address"), t \in Texts : Make(h, JoinGroup(value[a], 1, FromText(t)))

MakeOption(h) == MakeReuse(h) \/ MakeOutgoing(h) \/ MakeJoin(h)

\* ip_endpoint::address.
GetAddress(e, a) ==
    /\ e \in Held("endpoint") /\ Class[a] = "address"
    /\ value' = [value EXCEPT ![a] = value[e].address]
    /\ Counts(1)

Renew(h) ==
    /\ value' = [value EXCEPT ![h] = DefaultOf(Class[h])]
    /\ Counts(1)

\* g is constructed as a copy of h, or has an implementation and is assigned h.
Copy(g, h) ==
    /\ g # h /\ Class[g] = Class[h] /\ value[h] # None
    /\ value' = [value EXCEPT ![g] = value[h]]
    /\ Counts(1)

MoveConstruct(g, h) ==
    /\ g # h /\ Class[g] = Class[h] /\ value[h] # None
    /\ value' = [value EXCEPT ![g] = value[h], ![h] = MovedOf(Class[h], value[h])]
    /\ Counts(1)

MoveAssign(g, h) ==
    /\ g # h /\ Class[g] = Class[h]
    /\ value' = [value EXCEPT ![g] = value[h], ![h] = None]
    /\ Counts(1)

ValuesNext ==
    \/ \E h \in Holder : MakeAddress(h) \/ MakeEndpoint(h) \/ MakeOption(h) \/ Renew(h)
    \/ \E g, h \in Holder : \/ GetAddress(g, h) \/ Copy(g, h)
                            \/ MoveConstruct(g, h) \/ MoveAssign(g, h)

ValueSpec == ValuesInit /\ [][ValuesNext]_values

-----------------------------------------------------------------------------
(* Properties.                                                              *)

\* Through any sequence of constructions, copies, moves and assignments an
\* endpoint shows the kernel the address and the port it reports itself; after a
\* move it shows nothing.
EndpointsAgree == \A h \in Held("endpoint") : Agrees(value[h])
=============================================================================
