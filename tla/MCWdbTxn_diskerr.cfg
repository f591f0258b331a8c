SPECIFICATION DiskSpec
CONSTANTS
  NStorage = 1
  Thread = {t1, t2}
  Checkpointer = {c1}
  Key = {k1}
  Value = {v1}
  NoVal = NoVal
  Nobody = Nobody
  NoImage = NoImage
  MaxRepeat = 2
  MaxTxn = 1
  MaxCheckpoint = 1
INVARIANT NoOrphanLock
CHECK_DEADLOCK FALSE
