-------------------------- MODULE MCServiceLifecycle --------------------------
(* Instances of ServiceLifecycle for TLC. *)
EXTENDS ServiceLifecycle, TLC

CONSTANTS s1, s2, e1, e2

AllFirst == [e \in Event |-> s1]
=============================================================================
