SPECIFICATION EpisodeSpec
CONSTANTS
  MaxPosition = 1
  MaxProcesses = 2
  MaxBeats = 1
INVARIANTS
  EvaluatedOnce
  FinishedIsEligible
  EligibleWentThrough
CHECK_DEADLOCK FALSE
