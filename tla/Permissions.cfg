SPECIFICATION Spec
CONSTANTS
  Calls <- MCCalls
  Responses <- MCResponses
  Files = {"f"}
  MaxRounds = 2
INVARIANTS ConsentCoversTheCall NothingOutlivesTheTurn RefusalHolds ExecutingWasApproved
PROPERTY ImplementsConsent
CHECK_DEADLOCK FALSE
