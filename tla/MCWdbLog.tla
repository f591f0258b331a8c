------------------------------ MODULE MCWdbLog ------------------------------
(* Instances of WdbLog for TLC. *)
EXTENDS WdbLog, TLC

\* Values are only compared with each other.
Symmetry == Permutations(Value)
=============================================================================
