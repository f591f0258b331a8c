SPECIFICATION FairSpec
CONSTANTS
  NTable = 2
  Page = {m, p}
  Magic = m
  Value = {a, b}
  NoValue = NoValue
  NoState = NoState
  RecMax = 1
  MaxLog = 2
  MaxCheckpoint = 1
  MaxCrash = 1
CHECK_DEADLOCK FALSE
INVARIANT Coherent
PROPERTIES Redone Completes
