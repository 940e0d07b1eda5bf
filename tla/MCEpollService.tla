--------------------------- MODULE MCEpollService ---------------------------
(* Instances of EpollService for TLC: one definition per population of objects. *)
EXTENDS ConveyorInvariant, TLC

CONSTANTS d1, d2, s1, s2

\* One tcp socket.
TcpKind == [d \in Desc |-> "tcp"]
\* An acceptor and a connector, each on its own strand.
PairKind == (d1 :> "acceptor") @@ (d2 :> "connector")
OnOwnStrand == (d1 :> s1) @@ (d2 :> s2)
OnS1 == [d \in Desc |-> s1]
AnyThread == [d \in Desc |-> Thread]
=============================================================================
