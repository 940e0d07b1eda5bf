--------------------------- MODULE MCEventRegistrar ---------------------------
(* Instances of EventRegistrar for TLC. *)
EXTENDS EventRegistrar, TLC

\* self = shared_from_this(), as in the programs under test/canary.
SelfCaptures == [x \in Object |-> {x}]
AnyCaptures == [x \in Object |-> Object]
=============================================================================
