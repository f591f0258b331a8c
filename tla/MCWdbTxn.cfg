SPECIFICATION Spec
CONSTANTS
  NStorage = 2
  Thread = {t1, t2}
  Checkpointer = {c1}
  Key = {k1}
  Value = {v1}
  NoVal = NoVal
  Nobody = Nobody
  NoImage = NoImage
  MaxRepeat = 2
  MaxTxn = 1
  MaxCheckpoint = 1
SYMMETRY Symmetry
INVARIANTS TypeOK UndoOwned LocksHeld OrderedWait NoWaitCycle
PROPERTY AtomicSpec
CHECK_DEADLOCK FALSE
