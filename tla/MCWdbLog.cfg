SPECIFICATION Spec
CONSTANTS
  NTable = 2
  Page = {m}
  Magic = m
  Value = {a, b}
  NoValue = NoValue
  NoState = NoState
  RecMax = 2
  MaxLog = 3
  MaxCheckpoint = 2
  MaxCrash = 2
CHECK_DEADLOCK FALSE
SYMMETRY Symmetry
INVARIANTS TypeOK RotationInterrupted Coherent
PROPERTY CrashSafe
