SPECIFICATION Spec
CONSTANTS
  Envs = {e1}
  Entries = {p1}
  Warm = {p1}
  Spare = {c1}
  Nothing = nothing
  PoolSize = 1
  Quota = 1
  Actors = {"user"}
  Faults = {}
CHECK_DEADLOCK FALSE
INVARIANTS
  LeftoversReachGc
