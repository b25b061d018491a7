SPECIFICATION SceneSpec
CONSTANTS
  Envs = {e1, e2}
  Entries = {p1}
  Warm = {p1}
  Spare = {c1}
  Nothing = nothing
  PoolSize = 1
  Quota = 2
  Actors = {"suspension", "user"}
  Faults = {"call", "crash"}
SYMMETRY Symmetry
CHECK_DEADLOCK FALSE
INVARIANTS
  TypeOK
  OneOwner
  SuspendedNotRunning
PROPERTIES
  WorkspaceKept
  RenewalWins
  ClaimedStaysOwned
