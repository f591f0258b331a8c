---------------------------- MODULE MCTradeFlow -----------------------------
(* Instances of TradeFlow for TLC.  Roles and goods are interchangeable.     *)
EXTENDS TradeFlow, TLC

Symmetry == Permutations(Role) \cup Permutations(Good)
=============================================================================
