\* An episode with two requests, one retry each, and one restart.
SPECIFICATION LedgerSpec
CONSTANTS
  Resource = {"candidates", "commands"}
  Limit <- MCLimit
  MaxRequests = 2
  MaxUsage = 3
  Cost = {0, 2}
  Retries = 1
  Attempts = 4
  MaxCrashes = 1
INVARIANTS
  AcknowledgedUsePersists
  AttemptsReconcile
PROPERTY
  BudgetIsRespected
\* A finished episode stops.
CHECK_DEADLOCK FALSE
