\* Two processes append to one file, read it and fail at every point of a write.
SPECIFICATION StoreSpec
CONSTANTS
  Evidence = {"e1"}
  Constraint = {"c1"}
  Hypothesis = {}
  Goal = {}
  Fact = {}
  Action = {"a1"}
  Failure = {"f1"}
  NoId = "none"
  Process = {p1, p2}
  NoProcess = NoProcess
  NoEvent = NoEvent
  MaxSize = 6
  Requests <- MCStoreRequests
INVARIANTS
  CacheCoherent
  CitationsGrounded
PROPERTIES
  TornLogIsSealed
  ActionsFollowLifecycle
  ImplementsLog
CHECK_DEADLOCK FALSE
