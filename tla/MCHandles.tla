------------------------------ MODULE MCHandles ------------------------------
(* Instances of Handles for TLC. *)
EXTENDS Handles, TLC

CONSTANTS a, c, s1, s2

Program == (a :> "acceptor") @@ (c :> "connector") @@ (s1 :> "socket") @@ (s2 :> "socket")
Server == (a :> "acceptor") @@ (s1 :> "socket") @@ (s2 :> "socket")
=============================================================================
