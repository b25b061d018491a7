SPECIFICATION JobsSpec
CONSTANTS
  BuildIds = {"b1", "b2"}
  Cancellers = {"user", "suspension"}
  Nothing = "nothing"
  MaxBuilds = 2
  QueueSize = 1
  Faults = {"cancelwrite", "runwrite", "timeout"}
  OnlyBuild = "b1"
  OnlyCanceller = "user"
  MaxTroubles = 2
  Sandboxes = {"x1"}
  MaxSuspensions = 1
  MaxCrashes = 1
  MaxFaults = 1
  EgressOff = TRUE
CHECK_DEADLOCK FALSE
INVARIANTS
  TypesOK
  MarkExcludesDeploy
  NoAbandonedSlot
  SandboxesCleared
PROPERTIES
  OutcomeSpec
  BuildsEnd
  SandboxesEnd
