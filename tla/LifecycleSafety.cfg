SPECIFICATION Spec
CONSTANTS
  Services = {"s1"}
  Workers = {w1, w2}
  Nobody = nobody
  Kinds = {"restart", "delete"}
  MaxContainers = 2
  CrashThreshold = 2
  Faults = FALSE
SYMMETRY Symmetry
INVARIANTS
  CircuitOpenHasNoContainer
  NoUntrackedContainer
  SuspendedHasNoRunningContainer
PROPERTIES
  NoPhantomCrash
  NoRouteResurrection
