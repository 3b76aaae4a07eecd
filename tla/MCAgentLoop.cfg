SPECIFICATION FairAgentSpec
CONSTANTS
  Program = {p, q, x}
  Admissible = {p, q}
  Modes = {"none", "soft", "terminal", "incumbent", "handoff", "atomic", "atomic-handoff", "incremental", "editable"}
  MaxReplays = 2
  MaxRequests = 2
  MaxCalls = 2
  MaxAttempts = 2
INVARIANTS
  CertificatesTraced
  CertificatesHold
  IncumbentIsLatest
  EnvironmentsSettled
PROPERTIES
  DeliversAsPromised
  AgentEnds
CHECK_DEADLOCK FALSE
