SPECIFICATION PoolFairSpec
CONSTANTS
  Writers = {w1, w2}
  Stmts = 3
  MaxCrashes = 2
  NoWriter = none
INVARIANTS
  ReturnedIsDurable
  FailureIsClean
  TurnsAreDistinct
PROPERTIES
  WaitEnds
CHECK_DEADLOCK FALSE
