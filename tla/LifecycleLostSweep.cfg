SPECIFICATION FairSpec
CONSTANTS
  Services = {"s1"}
  Workers = {w1}
  Nobody = nobody
  Kinds = {"deploy"}
  MaxContainers = 1
  CrashThreshold = 2
  Faults = FALSE
PROPERTIES
  SuspensionStopsServices
