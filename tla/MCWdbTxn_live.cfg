SPECIFICATION FairSpec
CONSTANTS
  NStorage = 2
  Thread = {t1, t2}
  Checkpointer = {c1}
  Key = {k1}
  Value = {}
  NoVal = NoVal
  Nobody = Nobody
  NoImage = NoImage
  MaxRepeat = 2
  MaxTxn = 1
  MaxCheckpoint = 1
PROPERTY Completes
CHECK_DEADLOCK FALSE
