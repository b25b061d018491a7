SPECIFICATION Spec
CONSTANTS
  BuildIds = {"b1"}
  Cancellers = {"user", "suspension"}
  Nothing = "nothing"
  MaxBuilds = 2
  QueueSize = 1
  Faults = {}
INVARIANTS
  CancelExcludesDeploy
