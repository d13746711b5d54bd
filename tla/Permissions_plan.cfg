SPECIFICATION Spec
CONSTANTS
  Calls <- MCCalls
  Responses <- MCResponses
  Files = {"f"}
  MaxRounds = 2
INVARIANTS PlanningChangesNothing
CHECK_DEADLOCK FALSE
