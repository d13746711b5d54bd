SPECIFICATION Spec
CONSTANTS
  Procs = {p, q}
  Providers = {v, w}
  Keys = {"good", "bad"}
  Valid = {"good"}
  MaxWrites = 3
  MaxFaults = 1
SYMMETRY Symmetry
INVARIANTS StoreStaysReadable UpdatesAreKept AdapterFollowsOwnSaves
PROPERTY ImplementsStore
CHECK_DEADLOCK FALSE
