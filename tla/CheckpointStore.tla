-------------------------- MODULE CheckpointStore --------------------------
(***************************************************************************)
(* What checkpoints promise to gamedbd and uniquenamed across crashes: a    *)
(* restart finds all tables as they stood at one instant, that of the last  *)
(* checkpoint that returned true or of one that was interrupted.  WdbLog is *)
(* shown to implement this module.                                          *)
(***************************************************************************)
CONSTANTS State,   \* contents of all tables
          NoState

VARIABLES
  rows,     \* what the handlers see; after a crash, what they will see
  durable,  \* what a crash now would leave
  image,    \* the instant the running checkpoint is to save
  phase     \* "down", "up", "taking" (may be lost) or "taken" (is durable)

vars == <<rows, durable, image, phase>>

Init ==
  /\ durable \in State
  /\ rows = durable
  /\ image = NoState
  /\ phase = "down"

Restart ==
  /\ phase = "down" /\ phase' = "up"
  /\ UNCHANGED <<rows, durable, image>>

Write ==
  /\ phase # "down"
  /\ rows' \in State
  /\ UNCHANGED <<durable, image, phase>>

Take ==
  /\ phase = "up" /\ phase' = "taking"
  /\ image' = rows
  /\ UNCHANGED <<rows, durable>>

Persist ==
  /\ phase = "taking" /\ phase' = "taken"
  /\ durable' = image
  /\ UNCHANGED <<rows, image>>

\* checkpoint returns true.
Answer ==
  /\ phase = "taken" /\ phase' = "up"
  /\ image' = NoState
  /\ UNCHANGED <<rows, durable>>

Crash ==
  /\ phase # "down" /\ phase' = "down"
  /\ rows' = durable
  /\ image' = NoState
  /\ UNCHANGED durable

Next == Restart \/ Write \/ Take \/ Persist \/ Answer \/ Crash

Spec == Init /\ [][Next]_vars
=============================================================================
