SPECIFICATION Spec
CONSTANTS
  Dbs = {"d1", "d2"}
  Ports = {1, 2}
  MaxPortRetries = 2
  Creates = {"c1", "c2"}
  MaxRuns = 2
  MaxSuspensions = 1
  MaxCrashes = 1
CHECK_DEADLOCK FALSE
INVARIANTS
  TypeOK
  SuspendedNotRunning
  QuotaHeld
PROPERTIES
  DataKept
