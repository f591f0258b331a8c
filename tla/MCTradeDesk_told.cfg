\* The timer thread beside a pool thread.
CONSTANTS
  Alice = Alice
  Bob = Bob
  Good = {axe}
  Bound = {}
  NoGood = NoGood
  Amount = {0, 1}
  Capacity = 1
  MaxExchg = 1
  MoneyLimit = 1
  Handler = {h1}
  NoCall = NoCall
  Untold = Untold
SPECIFICATION Spec
INVARIANT ModifiedTold
CHECK_DEADLOCK FALSE
