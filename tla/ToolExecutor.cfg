SPECIFICATION FairSpec
CONSTANTS
  c1 = c1
  c2 = c2
  c3 = c3
  r1 = r1
  r2 = r2
  d1 = d1
  d2 = d2
  None = None
  Calls = {c1, c2}
  Requests = {r1, r2}
  Digests = {d1, d2}
  ArgBytes <- MCArgBytes
  MaxToolCalls = 2
  MaxArgumentBytes = 3
  MaxResultBytes = 3
  MaxSingleResultBytes = 2
  MaxConcurrent = 1
  Deadline = 2
  ApprovalTTL = 1
  MaxOutput = 3
  MaxTime = 2
CHECK_DEADLOCK FALSE
INVARIANTS AtMostOnceKept ReplayIsTrue BudgetHonoured
PROPERTIES SettledIsFinal SafeRetryNeverBegan StartsOnALiveApproval ImplementsAtMostOnce WaitsAndSlotsEnd
