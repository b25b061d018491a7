------------------------------ MODULE MCOwnership ------------------------------
(* Small instances of Environments for TLC. A behaviour is one scene: two environments that *)
(* share the pool with the refill, GC and an operator; one environment that is suspended    *)
(* while refill and GC, or the reconciler, are at work; or one environment with every call  *)
(* failing at will and the process restarting, under suspensions or with GC at work.        *)
EXTENDS Environments, TLC

VARIABLE scene

Shared == INSTANCE Environments WITH
  Warm <- {}, Actors <- {"refill", "gc", "user", "operator"}, Faults <- {"refill"}
Swept == INSTANCE Environments WITH
  Actors <- {"suspension", "refill", "gc", "user"}, Faults <- {"refill"}
Expiring == INSTANCE Environments WITH
  Actors <- {"suspension", "reconciler", "user"}, Faults <- {}
Collected == INSTANCE Environments WITH
  Actors <- {"user", "gc"}, Faults <- {"call", "crash"}

SceneInit ==
  \/ scene = "shared" /\ Shared!Init
  \/ scene \in {"swept", "expiring", "collected", "failing"} /\ Init

OneEnvironment == Cardinality({e \in Envs : env'[e] # Absent \/ creator'[e] # Idle}) <= 1

SceneNext ==
  /\ scene' = scene
  /\ \/ scene = "shared" /\ Shared!Next
     \/ scene = "swept" /\ Swept!Next /\ OneEnvironment
     \/ scene = "expiring" /\ Expiring!Next /\ OneEnvironment
     \/ scene = "collected" /\ Collected!Next /\ OneEnvironment
     \/ scene = "failing" /\ Next /\ OneEnvironment

SceneSpec == SceneInit /\ [][SceneNext]_<<scene, vars>>

\* Environments, entries and containers differ only in name.
Symmetry == Permutations(Envs) \cup Permutations(Entries) \cup Permutations(Spare)

=============================================================================
