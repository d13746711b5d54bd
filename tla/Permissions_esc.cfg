SPECIFICATION Spec
CONSTANTS
  Calls <- MCCalls
  Responses <- MCResponses
  Files = {"f"}
  MaxRounds = 2
INVARIANTS SensitiveNeedsAYes
CHECK_DEADLOCK FALSE
