\* Two traders with three goods and up to two coins; one slot each, so that
\* a trade may not fit; one good is bound; two pool threads.
CONSTANTS
  Alice = Alice
  Bob = Bob
  Good = {axe, bow, ring}
  Bound = {ring}
  NoGood = NoGood
  Amount = {0, 1}
  Capacity = 1
  MaxExchg = 1
  MoneyLimit = 1
  Handler = {h1, h2}
  NoCall = NoCall
  Untold = Untold
SPECIFICATION FairSpec
INVARIANTS TypeOK ResultFresh Conserved SavedOnce
PROPERTIES BarterSpec Closes
CHECK_DEADLOCK FALSE
