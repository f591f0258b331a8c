CONSTANTS
  User = {ann}
  OldUser = {ann}
  Zone = {z1, z2}
  Name = {n1, n2}
  NoName = NoName
  MaxRole = 2
  Call = {c1, c2}
  NoRole = NoRole
  MaxRequest = 3
  MaxExpiry = 2
  MaxPreTimeout = 1
  MaxDBTimeout = 0
  MaxResend = 0
  MaxLost = 1
  MaxCrash = 1
  LostKinds = {"create", "rename", "delete"}
SPECIFICATION Spec
SYMMETRY Symmetry
INVARIANTS NameUnique RowsAgree
PROPERTIES RegistrySpec
CHECK_DEADLOCK FALSE
