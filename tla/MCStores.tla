-------------------------------- MODULE MCStores -------------------------------
(* Small instances of Databases and Kanbans for TLC.  A behaviour is one scene: a database  *)
(* against everything that can fail ("faults") or two suspensions ("twice"), two databases *)
(* that meet on the ports or on the quota, a board and a suspension, two suspensions of a  *)
(* board made once, or a board against failures and a crash.                               *)
EXTENDS Naturals

CONSTANTS Dbs, Ports, MaxPortRetries, Creates, MaxRuns, MaxSuspensions, MaxCrashes

VARIABLES
  scene,
  active, suspensions, crashes,
  status, cid, port, cont, runs, vol, net, creator, deleter, sweep, starter, leaked, missed,
  row, kCont, kRuns, kVol, create, kDeleter, stopper, kStarter, kLeaked, kMissed

tenantVars == <<active, suspensions, crashes>>
dbVars == <<status, cid, port, cont, runs, vol, net, creator, deleter, sweep, starter, leaked, missed>>
kVars == <<row, kCont, kRuns, kVol, create, kDeleter, stopper, kStarter, kLeaked, kMissed>>
vars == <<scene, tenantVars, dbVars, kVars>>

D == INSTANCE Databases WITH Faults <- TRUE, MaxDatabases <- 2
S == INSTANCE Databases WITH Faults <- FALSE, MaxDatabases <- 2, MaxSuspensions <- 2, MaxCrashes <- 0
P == INSTANCE Databases WITH Faults <- FALSE, MaxDatabases <- 2, MaxSuspensions <- 0, MaxCrashes <- 0
Q == INSTANCE Databases WITH Faults <- FALSE, MaxDatabases <- 1, MaxSuspensions <- 0, MaxCrashes <- 0

K == INSTANCE Kanbans WITH Faults <- FALSE, MaxCrashes <- 0, cont <- kCont, runs <- kRuns,
       vol <- kVol, deleter <- kDeleter, starter <- kStarter, leaked <- kLeaked, missed <- kMissed
T == INSTANCE Kanbans WITH Faults <- FALSE, MaxCrashes <- 0, MaxSuspensions <- 2, cont <- kCont,
       runs <- kRuns, vol <- kVol, deleter <- kDeleter, starter <- kStarter, leaked <- kLeaked,
       missed <- kMissed
C == INSTANCE Kanbans WITH Faults <- TRUE, MaxSuspensions <- 0, MaxRuns <- 1, cont <- kCont,
       runs <- kRuns, vol <- kVol, deleter <- kDeleter, starter <- kStarter, leaked <- kLeaked,
       missed <- kMissed

Init ==
  /\ scene \in {"faults", "twice", "ports", "quota", "board", "board twice", "board faults"}
  /\ K!Init /\ D!Init

OneDatabase == creator'["d2"] = creator["d2"]
OneBoard == create'["c2"] = create["c2"]

Next ==
  /\ scene' = scene
  /\ \/ scene = "faults" /\ D!Next /\ OneDatabase /\ UNCHANGED kVars
     \/ scene = "twice" /\ S!Next /\ OneDatabase /\ UNCHANGED kVars
     \/ scene = "ports" /\ P!Next /\ UNCHANGED kVars
     \/ scene = "quota" /\ Q!Next /\ UNCHANGED kVars
     \/ scene = "board" /\ K!Next /\ UNCHANGED dbVars
     \/ scene = "board twice" /\ T!Next /\ OneBoard /\ UNCHANGED dbVars
     \/ scene = "board faults" /\ C!Next /\ UNCHANGED dbVars

Spec == Init /\ [][Next]_vars

\* Everything keeps its type.
TypeOK == D!TypeOK /\ K!TypeOK

\* The data of a database or a board that was ready is kept.
DataKept == [][D!KeepsData /\ K!KeepsDataWhileUp]_vars

\* A tenant has no more databases than its quota.
QuotaHeld == scene = "quota" => Q!QuotaHeld

\* Nothing of a suspended tenant runs once the sweep is over.
SuspendedNotRunning == D!SuspendedNotRunning /\ K!SuspendedBoardNotRunning

=============================================================================
