\* One process runs the solver loop, is killed at any step and reopened once.
SPECIFICATION FairSessionSpec
CONSTANTS
  Evidence = {"e1", "e2", "e3", "e4"}
  Constraint = {"c1"}
  Hypothesis = {}
  Goal = {"goal"}
  GoalId = "goal"
  Fact = {}
  Action = {"a1", "a2", "a3", "a4"}
  Failure = {"f1", "f2", "f3", "f4", "f5", "f6"}
  NoId = "none"
  NoSnapshot = NoSnapshot
  Preconditions <- MCPreconditions
  RequestedIds = {"none", "a1"}
  Requests = {}
  Session = {s1}
  MaxActions = 2
  MaxRuns = 2
INVARIANTS
  ReturnedRunAudits
  OpenActionsAreLostRuns
PROPERTY
  RunsEnd
CHECK_DEADLOCK FALSE
