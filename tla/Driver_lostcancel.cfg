SPECIFICATION Spec
CONSTANTS
  MaxAttempts = 1
  MaxTurns = 1
  MaxModelCalls = 6
  MaxProviderAttempts = 7
  ProviderTries = 2
  Digests = {d1}
  d1 = d1
  None = None
INVARIANTS CancellationPropagates
CHECK_DEADLOCK FALSE
