------------------------------ MODULE MCSockets ------------------------------
(* An instance of Sockets for TLC. *)
EXTENDS Sockets, TLC

CONSTANTS e1, e2, a, o1, o2, o3, there4, there6

Classes == (e1 :> "endpoint") @@ (e2 :> "endpoint") @@ (a :> "address") @@ (o1 :> "reuse")
             @@ (o2 :> "outgoing") @@ (o3 :> "join")

Endpoints == Permutations({e1, e2})

\* 0x0102: its bytes differ.
Port == 258
Far == {[family |-> "v4", bytes |-> there4, port |-> Swapped(Port)],
        [family |-> "v6", bytes |-> there6, port |-> Swapped(Port)]}

\* A good text of each family, and a text with three dots that is no address.
SomeTexts == {[colons |-> FALSE, dots |-> TRUE, means |-> there4],
              [colons |-> TRUE, dots |-> FALSE, means |-> there6],
              [colons |-> FALSE, dots |-> TRUE, means |-> Junk]}
=============================================================================
