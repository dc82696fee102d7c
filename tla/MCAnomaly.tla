------------------------------ MODULE MCAnomaly ------------------------------
(* Small instances of Anomaly: calls are interchangeable.                  *)
EXTENDS Anomaly, TLC

CallSymmetry == Permutations(Call)
=============================================================================
