SPECIFICATION Spec
CONSTANTS
  Services = {"s1"}
  Workers = {w1}
  Nobody = nobody
  Kinds = {"image", "restart", "start", "stop", "delete", "reset"}
  MaxContainers = 2
  CrashThreshold = 1
  Faults = TRUE
INVARIANTS
  TypeOK
  NoUntrackedContainer
  DeploymentRowClosed
