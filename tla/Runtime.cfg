SPECIFICATION Spec
CONSTANTS
  Writers = {t1, t2, t3}
  t1 = t1
  t2 = t2
  t3 = t3
  probe = probe
  Tracked <- MCTracked
  Names = {probe}
  NameOf <- MCNameOf
  Stmts = 1
  MaxCrashes = 1
  NoWriter = none
INVARIANTS
  NoneEscapes
  JobsAreTruthful
SYMMETRY Symmetry
PROPERTIES
  NothingAfterClose
CHECK_DEADLOCK FALSE
