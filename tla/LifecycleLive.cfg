SPECIFICATION FairSpec
CONSTANTS
  Services = {"s1"}
  Workers = {w1}
  Nobody = nobody
  Kinds = {"deploy", "restart", "delete"}
  MaxContainers = 1
  CrashThreshold = 2
  Faults = FALSE
PROPERTIES
  OperationsReturn
  TransientStatusEnds
