\* Both environment strategies; the run is interrupted anywhere and started
\* again on the same log and ledger.
SPECIFICATION FairLoopSpec
CONSTANTS
  Strategies = {TRUE, FALSE}
  Retain = TRUE
  MaxCandidates = 3
  MaxPolicyFailures = 2
  Limit <- MCLimit
  MaxEnvironments = 4
  Outcome <- MCOutcome
  MaxRuns = 2
INVARIANTS
  EnvironmentsReturned
  ReservationsCover
  VerifiedInOwnEnvironment
  FeedbackPrecedesProposal
  UncertifiedIsBest
  ReusedOnlyWhenReusable
  VerdictIsVerified
PROPERTIES
  DeliversAsPromised
  LoopEnds
CHECK_DEADLOCK FALSE
