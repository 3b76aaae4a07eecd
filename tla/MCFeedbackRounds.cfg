SPECIFICATION RoundsSpec
CONSTANTS
  Subject = {"module", "version", "operation"}
  VersionSubject = {"version"}
  OperationSubject = {"operation"}
  Value = {1, 2, 3}
  Candidate = {1, 2, 3}
  Unscoped = 0
  Source = {"goal", "action", "initial"}
  Evident <- MCEvident
  Unobserved = 0
  Finding <- MCFinding
  Initial <- MCInitial
  MaxRounds = 3
INVARIANTS
  PropagationConverged
  ObservationsAreCurrent
  CompleteReportIsExhaustive
PROPERTY
  EvidenceAccumulates
CHECK_DEADLOCK FALSE
