SPECIFICATION DiskSpec
CONSTANTS
  NTable = 1
  Page = {m, p}
  Magic = m
  Value = {a, b}
  NoValue = NoValue
  NoState = NoState
  RecMax = 2
  MaxLog = 3
  MaxCheckpoint = 2
  MaxCrash = 0
CHECK_DEADLOCK FALSE
INVARIANT NoLostPage
