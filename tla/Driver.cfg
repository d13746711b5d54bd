SPECIFICATION FairSpec
CONSTANTS
  MaxAttempts = 3
  MaxTurns = 2
  MaxModelCalls = 8
  MaxProviderAttempts = 9
  ProviderTries = 2
  Digests = {d1, d2}
  d1 = d1
  d2 = d2
  None = None
INVARIANTS AnswerWasApproved NothingLeftOpen EvidenceIsKept EndIsTruthful LimitsHold ActingNotRetriedAfterTool RunStateIsValid
PROPERTIES NeverRunAgainWhileOpen ImplementsRunMachine EveryRunEnds
CHECK_DEADLOCK FALSE
