---------------------------- MODULE MCRoleNames -----------------------------
(* Instances of RoleNames for TLC; the values are in the configurations.     *)
EXTENDS RoleNames, TLC

\* Zones, names and calls are alike; the properties of the runs that use the
\* symmetry are invariants and a refinement that treats them alike too.
Symmetry == Permutations(Zone) \cup Permutations(Name) \cup Permutations(Call)
=============================================================================
