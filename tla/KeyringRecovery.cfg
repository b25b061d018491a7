SPECIFICATION Spec
CONSTANTS
  MaxKeys = 2
  Requests = {r1}
  MaxTime = 3
  MaxMints = 5
  MaxSuspensions = 0
CHECK_DEADLOCK FALSE
INVARIANTS
  RecoverySucceeds
