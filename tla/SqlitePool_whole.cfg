SPECIFICATION PoolSpec
CONSTANTS
  Writers = {w1, w2}
  Stmts = 2
  MaxCrashes = 1
  NoWriter = none
INVARIANTS
  BlocksAreWhole
CHECK_DEADLOCK FALSE
