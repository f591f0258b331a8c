\* Two roles and one good, two trades one after another or at once.
CONSTANTS
  Role = {a, b}
  Good = {axe}
  MaxTrade = 2
  MaxLogin = 2
  MaxUpset = 1
  MaxFault = 1
  None = None
  Off = Off
SPECIFICATION Spec
INVARIANTS TypeOK DeskHolds OneOwner EndTold
SYMMETRY Symmetry
CHECK_DEADLOCK FALSE
