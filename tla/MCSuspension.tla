---------------------------- MODULE MCSuspension ----------------------------
(* Small instances of Suspension: replicas and calls are interchangeable.  *)
EXTENDS Suspension, TLC

Symmetry == Permutations(Replica) \cup Permutations(Call)
=============================================================================
