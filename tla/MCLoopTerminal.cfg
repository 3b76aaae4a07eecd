\* The release of a construction environment fails.
SPECIFICATION LoopSpec
CONSTANTS
  Strategies = {TRUE}
  Retain = TRUE
  MaxCandidates = 2
  MaxPolicyFailures = 2
  Limit <- MCLimit
  MaxEnvironments = 2
  Outcome <- MCOutcome
  MaxRuns = 1
INVARIANT
  ReturnedActionsTerminal
CHECK_DEADLOCK FALSE
