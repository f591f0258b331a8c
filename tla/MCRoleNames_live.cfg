CONSTANTS
  User = {ann}
  OldUser = {}
  Zone = {z1}
  Name = {n1, n2}
  NoName = NoName
  MaxRole = 1
  Call = {c1, c2}
  NoRole = NoRole
  MaxRequest = 3
  MaxExpiry = 0
  MaxPreTimeout = 0
  MaxDBTimeout = 1
  MaxResend = 1
  MaxLost = 1
  MaxCrash = 0
  LostKinds = {"create"}
SPECIFICATION FairSpec
INVARIANTS TypeOK RowsAgree
PROPERTY Settles
CHECK_DEADLOCK FALSE
