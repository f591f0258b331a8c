SPECIFICATION FreshSpec
CONSTANTS
  NTable = 2
  Page = {m}
  Magic = m
  Value = {a, b}
  NoValue = NoValue
  NoState = NoState
  RecMax = 2
  MaxLog = 3
  MaxCheckpoint = 2
  MaxCrash = 1
CHECK_DEADLOCK FALSE
INVARIANT RecoversFromLogs
