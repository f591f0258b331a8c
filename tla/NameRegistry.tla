---------------------------- MODULE NameRegistry ----------------------------
(***************************************************************************)
(* What the names of roles promise across the zones that share one          *)
(* uniquenamed: a name is taken by one role of one zone at a time, and is    *)
(* taken only while no role of any zone has it.  RoleNames is shown to       *)
(* implement this module.                                                    *)
(***************************************************************************)
CONSTANTS Name, Holder   \* a holder is a role in a zone

VARIABLE holders   \* who has each name

Init == holders = [n \in Name |-> {}]

Take(n, h) ==
  /\ holders[n] = {}
  /\ holders' = [holders EXCEPT ![n] = {h}]

Release(n) == holders' = [holders EXCEPT ![n] = {}]

Next == \E n \in Name : Release(n) \/ \E h \in Holder : Take(n, h)

Spec == Init /\ [][Next]_holders
=============================================================================
