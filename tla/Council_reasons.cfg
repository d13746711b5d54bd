SPECIFICATION Spec
CONSTANTS
  sa = sa
  sb = sb
  sc = sc
  Seats = {sa, sb, sc}
  Reviews <- MCReviews
  MinOk = 2
  AnyOf = {sa, sc}
  MaxConcurrency = 2
  Wall = 14
  Late = 1
INVARIANTS ReasonIsTrue
CHECK_DEADLOCK FALSE
