\* Two processes and the command line share one log and one snapshot file.
SPECIFICATION SessionSpec
CONSTANTS
  Evidence = {"e1", "e2", "e3"}
  Constraint = {"c1"}
  Hypothesis = {}
  Goal = {"goal"}
  GoalId = "goal"
  Fact = {}
  Action = {"a1", "a2"}
  Failure = {"f1", "f2", "f3"}
  NoId = "none"
  NoSnapshot = NoSnapshot
  Preconditions = {{}}
  RequestedIds = {"none", "a1"}
  Requests <- MCCommandLine
  Session = {s1, s2}
  MaxActions = 1
  MaxRuns = 1
INVARIANTS
  ResultsAreCitable
  OneDriverPerAction
VIEW WithoutOrder
SYMMETRY Symmetry
CHECK_DEADLOCK FALSE
