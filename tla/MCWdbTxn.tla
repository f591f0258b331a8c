------------------------------ MODULE MCWdbTxn ------------------------------
(* Instances of WdbTxn: the pool threads are interchangeable. *)
EXTENDS WdbTxn, TLC

Symmetry == Permutations(Thread)
=============================================================================
