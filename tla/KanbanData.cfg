SPECIFICATION Spec
CONSTANTS
  Creates = {"c1", "c2"}
  MaxRuns = 2
  MaxSuspensions = 1
  MaxCrashes = 1
  Faults = FALSE
CHECK_DEADLOCK FALSE
PROPERTIES
  BoardDataKept
