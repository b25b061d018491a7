------------------------------- MODULE Databases -------------------------------
(***************************************************************************)
(* databases.Manager for the databases of one tenant: provisioning (row,   *)
(* volume, network, container, health wait), deletion, what a suspension   *)
(* and a reactivation do to them, the reconciler's pass over ready rows,   *)
(* the container and volume passes of GC, and a crash of ah followed by    *)
(* ReconcileStale.  A step is one statement or one Docker call.            *)
(*                                                                         *)
(* A database's container has a name of its own, so at most one exists at  *)
(* a time: cont[d] is its id, counted up from 1, and 0 when there is none. *)
(***************************************************************************)
EXTENDS Naturals, FiniteSets

CONSTANTS
  Dbs,             \* the ids generateID may return
  Ports,           \* host ports a database may be published on
  MaxDatabases,    \* tenant_quotas.max_databases
  MaxPortRetries,  \* attempts to insert a row on a free port
  MaxRuns,         \* bound: containers created for one database
  MaxSuspensions,  \* bound: suspensions of the tenant
  MaxCrashes,      \* bound: crashes of ah
  Faults           \* whether Docker calls and guarded writes may fail

VARIABLES
  active,     \* tenants.status = 'active'
  status,     \* databases.status; "none" when there is no row
  cid,        \* databases.container_id; 0 is NULL or ''
  port,       \* databases.port
  cont,       \* Docker: the container that has the database's name
  runs,       \* Docker: ids given out
  vol,        \* Docker: the volume, and whether it holds the tenant's data
  net,        \* Docker: whether the database's network exists
  creator,    \* Create, one call per id
  deleter,    \* Delete, one call per id
  sweep,      \* StopAllForTenant
  starter,    \* StartAllForTenant
  suspensions, crashes,  \* bounds
  leaked,     \* history: databases whose container a failed removal or a crash left behind
  missed      \* history: databases whose status hides a container: marked ready while the
              \* tenant is suspended, or stopped when the sweep has not removed it

tenantVars == <<active, suspensions>>
rowVars    == <<status, cid, port>>
dockerVars == <<cont, runs, vol, net, leaked>>
procVars   == <<creator, deleter, sweep, starter>>
vars == <<tenantVars, rowVars, dockerVars, procVars, crashes, missed>>

NoPort == 0
NoDb == "none"
NoRow == [id |-> NoDb, cid |-> 0, failed |-> FALSE]

Idle == [pc |-> "idle", todo |-> {}, cur |-> NoRow]
Resting == [pc |-> "idle", todo |-> {}, cur |-> NoDb, cid |-> 0]

Statuses == {"provisioning", "ready", "unavailable", "stopped", "failed"}

\* The rows the quota counts and the unique index on port covers.
Live == {d \in Dbs : status[d] \notin {"none", "failed"}}

TypeOK ==
  /\ active \in BOOLEAN
  /\ status \in [Dbs -> Statuses \cup {"none"}]
  /\ cid \in [Dbs -> 0..MaxRuns]
  /\ port \in [Dbs -> Ports \cup {NoPort}]
  /\ cont \in [Dbs -> 0..MaxRuns]
  /\ runs \in [Dbs -> 0..MaxRuns]
  /\ vol \in [Dbs -> {"none", "empty", "data"}]
  /\ net \in [Dbs -> BOOLEAN]
  /\ leaked \subseteq Dbs
  /\ missed \subseteq Dbs
  /\ \A d \in Dbs : creator[d].cid \in 0..MaxRuns
  /\ sweep.todo \subseteq [id : Dbs, cid : 0..MaxRuns, failed : BOOLEAN]
  /\ starter.todo \subseteq Dbs

Init ==
  /\ active = TRUE
  /\ status = [d \in Dbs |-> "none"]
  /\ cid = [d \in Dbs |-> 0]
  /\ port = [d \in Dbs |-> NoPort]
  /\ cont = [d \in Dbs |-> 0]
  /\ runs = [d \in Dbs |-> 0]
  /\ vol = [d \in Dbs |-> "none"]
  /\ net = [d \in Dbs |-> FALSE]
  /\ creator = [d \in Dbs |-> [pc |-> "new", cid |-> 0, tries |-> 0, gone |-> FALSE]]
  /\ deleter = [d \in Dbs |-> [pc |-> "idle", cid |-> 0]]
  /\ sweep = Idle
  /\ starter = Resting
  /\ suspensions = 0
  /\ crashes = 0
  /\ leaked = {}
  /\ missed = {}

-----------------------------------------------------------------------------
(* The table. *)

\* Whether the unique index admits d with a status other than failed.
PortOwned(d) == \A e \in Live \ {d} : port[e] # port[d]

\* UPDATE databases SET status = s WHERE id = d, unconditional.
UpdateStatus(d, s) ==
  status' = [status EXCEPT
    ![d] = IF @ = "none" \/ (s # "failed" /\ ~PortOwned(d)) THEN @ ELSE s]

(* Docker. *)

\* Stop and remove container c of d, best effort.
RemoveContainer(d, c) ==
  \/ /\ cont' = [cont EXCEPT ![d] = IF @ = c THEN 0 ELSE @]
     /\ leaked' = leaked
  \/ /\ Faults /\ c # 0 /\ cont[d] = c
     /\ leaked' = leaked \cup {d}
     /\ cont' = cont

\* Remove d's volume; Docker refuses one that is mounted.
RemoveVolume(d) ==
  \/ cont[d] = 0 /\ vol' = [vol EXCEPT ![d] = "none"]
  \/ (cont[d] # 0 \/ Faults) /\ vol' = vol

PortBound(p) == \E e \in Dbs : cont[e] # 0 /\ port[e] = p

\* RunDatabase succeeds: a container with a fresh id, on its volume (made if missing).
RunDatabase(d) ==
  /\ cont[d] = 0 /\ net[d] /\ ~PortBound(port[d]) /\ runs[d] < MaxRuns
  /\ runs' = [runs EXCEPT ![d] = @ + 1]
  /\ cont' = [cont EXCEPT ![d] = runs[d] + 1]
  /\ vol' = [vol EXCEPT ![d] = IF @ = "none" THEN "empty" ELSE @]
  /\ UNCHANGED <<net, leaked>>

\* It fails: the name or the port is taken, the network is gone, or a fault, after
\* which the removal of the half-started container may fail too.
RunFails(d) ==
  \/ /\ Faults \/ cont[d] # 0 \/ ~net[d] \/ PortBound(port[d]) \/ runs[d] = MaxRuns
     /\ UNCHANGED dockerVars
  \/ /\ Faults /\ cont[d] = 0 /\ net[d] /\ ~PortBound(port[d]) /\ runs[d] < MaxRuns
     /\ runs' = [runs EXCEPT ![d] = @ + 1]
     /\ cont' = [cont EXCEPT ![d] = runs[d] + 1]
     /\ vol' = [vol EXCEPT ![d] = IF @ = "none" THEN "empty" ELSE @]
     /\ leaked' = leaked \cup {d}
     /\ net' = net

-----------------------------------------------------------------------------
(* Create. *)

At(d, pc) == creator[d].pc = pc
Goto(d, pc) == creator' = [creator EXCEPT ![d].pc = pc]

\* findFreePort: neither a live row's nor bound on the host; the lowest one.
FreePorts == {p \in Ports : /\ \A e \in Live : port[e] # p
                            /\ ~PortBound(p)}

FindFreePort(d) ==
  /\ At(d, "new") /\ (active \/ creator[d].tries > 0)
  /\ \/ /\ FreePorts # {} /\ creator[d].tries < MaxPortRetries
        /\ LET p == CHOOSE q \in FreePorts : \A r \in FreePorts : q <= r
           IN  port' = [port EXCEPT ![d] = p]
        /\ creator' = [creator EXCEPT ![d].pc = "insert", ![d].tries = @ + 1]
     \/ /\ FreePorts = {} \/ creator[d].tries = MaxPortRetries
        /\ Goto(d, "done")
        /\ UNCHANGED port
  /\ UNCHANGED <<tenantVars, status, cid, dockerVars, deleter, sweep, starter, crashes, missed>>

\* Mutant: the quota counts the databases that are ready.
InsertRowCountingReady(d) ==
  /\ At(d, "insert")
  /\ \/ /\ Cardinality({e \in Dbs : status[e] = "ready"}) < MaxDatabases /\ PortOwned(d)
        /\ status' = [status EXCEPT ![d] = "provisioning"]
        /\ Goto(d, "volume")
     \/ /\ ~PortOwned(d) \/ Cardinality({e \in Dbs : status[e] = "ready"}) >= MaxDatabases
        /\ Goto(d, "done")
        /\ UNCHANGED status
  /\ UNCHANGED <<tenantVars, cid, port, dockerVars, deleter, sweep, starter, crashes, missed>>

\* The insert is checked by the unique index and counts the quota itself.
InsertRow(d) ==
  /\ At(d, "insert")
  /\ \/ /\ Cardinality(Live) < MaxDatabases /\ PortOwned(d)
        /\ status' = [status EXCEPT ![d] = "provisioning"]
        /\ Goto(d, "volume")
     \/ /\ Cardinality(Live) < MaxDatabases /\ ~PortOwned(d)
        /\ Goto(d, "new")
        /\ UNCHANGED status
     \/ /\ Cardinality(Live) >= MaxDatabases
        /\ Goto(d, "done")
        /\ UNCHANGED status
  /\ UNCHANGED <<tenantVars, cid, port, dockerVars, deleter, sweep, starter, crashes, missed>>

CreateVolume(d) ==
  /\ At(d, "volume")
  /\ \/ /\ vol' = [vol EXCEPT ![d] = IF @ = "none" THEN "empty" ELSE @]
        /\ Goto(d, "network")
        /\ UNCHANGED status
     \/ /\ Faults
        /\ UpdateStatus(d, "failed")
        /\ Goto(d, "done")
        /\ UNCHANGED vol
  /\ UNCHANGED <<tenantVars, cid, port, cont, runs, net, leaked, deleter, sweep, starter, crashes, missed>>

\* EnsureDatabaseNetwork, the first half of runContainer.
EnsureNetwork(d) ==
  /\ At(d, "network")
  /\ \/ net' = [net EXCEPT ![d] = TRUE] /\ Goto(d, "run")
     \/ Faults /\ Goto(d, "mark") /\ UNCHANGED net
  /\ UNCHANGED <<tenantVars, rowVars, cont, runs, vol, leaked, deleter, sweep, starter, crashes, missed>>

RunContainer(d) ==
  /\ At(d, "run")
  /\ \/ /\ RunDatabase(d)
        /\ creator' = [creator EXCEPT ![d].pc = "record", ![d].cid = runs[d] + 1]
     \/ RunFails(d) /\ Goto(d, "mark")
  /\ UNCHANGED <<tenantVars, rowVars, deleter, sweep, starter, crashes, missed>>

\* UPDATE container_id WHERE status = 'provisioning'; a row that has changed keeps its
\* volume, a row that is gone loses everything.
RecordContainer(d) ==
  /\ At(d, "record")
  /\ \/ /\ status[d] = "provisioning"
        /\ cid' = [cid EXCEPT ![d] = creator[d].cid]
        /\ Goto(d, "health")
     \/ /\ status[d] \notin {"provisioning", "none"}
        /\ Goto(d, "undo") /\ UNCHANGED cid
     \/ /\ status[d] = "none"
        /\ creator' = [creator EXCEPT ![d].pc = "rmcont", ![d].gone = TRUE]
        /\ UNCHANGED cid
     \/ Faults /\ Goto(d, "mark") /\ UNCHANGED cid
  /\ UNCHANGED <<tenantVars, status, port, dockerVars, deleter, sweep, starter, crashes, missed>>

\* waitHealthy probes the port: whatever answers on it counts.
WaitHealthy(d) ==
  /\ At(d, "health")
  /\ \/ PortBound(port[d]) /\ Goto(d, "cas")
     \/ Goto(d, "mark")
  /\ UNCHANGED <<tenantVars, rowVars, dockerVars, deleter, sweep, starter, crashes, missed>>

\* casStatus(provisioning -> ready).
CasReady(d) ==
  /\ At(d, "cas")
  /\ \/ /\ status[d] = "provisioning"
        /\ status' = [status EXCEPT ![d] = "ready"]
        /\ missed' = IF active THEN missed ELSE missed \cup {d}
        /\ Goto(d, "done")
     \/ /\ status[d] \notin {"provisioning", "none"}
        /\ Goto(d, "undo") /\ UNCHANGED <<status, missed>>
     \/ /\ status[d] = "none"
        /\ creator' = [creator EXCEPT ![d].pc = "rmcont", ![d].gone = TRUE]
        /\ UNCHANGED <<status, missed>>
     \/ Faults /\ Goto(d, "mark") /\ UNCHANGED <<status, missed>>
  /\ UNCHANGED <<tenantVars, cid, port, dockerVars, deleter, sweep, starter, crashes>>

\* Mutant: a row that was stopped underneath ends the Create, which leaves its container.
LeaveContainer(d) ==
  /\ At(d, "undo")
  /\ Goto(d, "done")
  /\ UNCHANGED <<tenantVars, rowVars, dockerVars, deleter, sweep, starter, crashes, missed>>

\* removeProvisionedContainer: the row was stopped underneath; its volume stays.
UndoContainer(d) ==
  /\ At(d, "undo")
  /\ RemoveContainer(d, creator[d].cid)
  /\ Goto(d, "done")
  /\ UNCHANGED <<tenantVars, rowVars, runs, vol, net, deleter, sweep, starter, crashes, missed>>

\* markFailed, which also says whether the row is gone.
MarkFailed(d) ==
  /\ At(d, "mark")
  /\ \/ /\ UpdateStatus(d, "failed")
        /\ creator' = [creator EXCEPT ![d].pc = "rmcont", ![d].gone = (status[d] = "none")]
     \/ Faults /\ Goto(d, "rmcont") /\ UNCHANGED status
  /\ UNCHANGED <<tenantVars, cid, port, dockerVars, deleter, sweep, starter, crashes, missed>>

\* cleanup: the container, the volume and, when the row is gone, the network.
CleanupContainer(d) ==
  /\ At(d, "rmcont")
  /\ RemoveContainer(d, creator[d].cid)
  /\ Goto(d, "rmvol")
  /\ UNCHANGED <<tenantVars, rowVars, runs, vol, net, deleter, sweep, starter, crashes, missed>>

CleanupVolume(d) ==
  /\ At(d, "rmvol")
  /\ RemoveVolume(d)
  /\ Goto(d, IF creator[d].gone THEN "rmnet" ELSE "done")
  /\ UNCHANGED <<tenantVars, rowVars, cont, runs, net, leaked, deleter, sweep, starter, crashes, missed>>

\* removeDatabaseNetwork disconnects what is on the network first.
CleanupNetwork(d) ==
  /\ At(d, "rmnet")
  /\ net' = [net EXCEPT ![d] = FALSE]
  /\ Goto(d, "done")
  /\ UNCHANGED <<tenantVars, rowVars, cont, runs, vol, leaked, deleter, sweep, starter, crashes, missed>>

Create(d) ==
  \/ FindFreePort(d) \/ InsertRow(d) \/ CreateVolume(d) \/ EnsureNetwork(d)
  \/ RunContainer(d) \/ RecordContainer(d) \/ WaitHealthy(d) \/ CasReady(d)
  \/ UndoContainer(d) \/ MarkFailed(d)
  \/ CleanupContainer(d) \/ CleanupVolume(d) \/ CleanupNetwork(d)

-----------------------------------------------------------------------------
(* Delete. *)

DeleteRead(d) ==
  /\ active /\ deleter[d].pc = "idle" /\ status[d] # "none"
  /\ deleter' = [deleter EXCEPT ![d] = [pc |-> "rmcont", cid |-> cid[d]]]
  /\ UNCHANGED <<tenantVars, rowVars, dockerVars, creator, sweep, starter, crashes, missed>>

\* A container that cannot be removed keeps the record, and the call fails.
DeleteContainer(d) ==
  /\ deleter[d].pc = "rmcont"
  /\ \/ /\ cont' = [cont EXCEPT ![d] = IF @ = deleter[d].cid THEN 0 ELSE @]
        /\ deleter' = [deleter EXCEPT ![d].pc = "rmvol"]
     \/ /\ Faults /\ deleter[d].cid # 0 /\ cont[d] = deleter[d].cid
        /\ deleter' = [deleter EXCEPT ![d].pc = "idle"]
        /\ UNCHANGED cont
  /\ UNCHANGED <<tenantVars, rowVars, runs, vol, net, leaked, creator, sweep, starter, crashes, missed>>

\* wipeVolume, best effort, and RemoveVolume, whose failure keeps the record.
DeleteVolume(d) ==
  /\ deleter[d].pc = "rmvol"
  /\ \/ /\ cont[d] = 0
        /\ vol' = [vol EXCEPT ![d] = "none"]
        /\ deleter' = [deleter EXCEPT ![d].pc = "delrow"]
     \/ /\ cont[d] # 0 \/ Faults
        /\ vol' = [vol EXCEPT ![d] = IF @ = "none" THEN @ ELSE "empty"]
        /\ deleter' = [deleter EXCEPT ![d].pc = "idle"]
  /\ UNCHANGED <<tenantVars, rowVars, cont, runs, net, leaked, creator, sweep, starter, crashes, missed>>

DeleteRow(d) ==
  /\ deleter[d].pc = "delrow"
  /\ status' = [status EXCEPT ![d] = "none"]
  /\ cid' = [cid EXCEPT ![d] = 0]
  /\ deleter' = [deleter EXCEPT ![d].pc = "rmnet"]
  /\ UNCHANGED <<tenantVars, port, dockerVars, creator, sweep, starter, crashes, missed>>

DeleteNetwork(d) ==
  /\ deleter[d].pc = "rmnet"
  /\ net' = [net EXCEPT ![d] = FALSE]
  /\ deleter' = [deleter EXCEPT ![d].pc = "idle"]
  /\ UNCHANGED <<tenantVars, rowVars, cont, runs, vol, leaked, creator, sweep, starter, crashes, missed>>

Delete(d) ==
  DeleteRead(d) \/ DeleteContainer(d) \/ DeleteVolume(d) \/ DeleteRow(d) \/ DeleteNetwork(d)

-----------------------------------------------------------------------------
(* Suspension and reactivation. *)

\* The suspension commits; its sweep is a detached goroutine.
Suspend ==
  /\ active /\ suspensions < MaxSuspensions /\ sweep.pc = "idle"
  /\ active' = FALSE
  /\ suspensions' = suspensions + 1
  /\ sweep' = [sweep EXCEPT !.pc = "select"]
  /\ UNCHANGED <<rowVars, dockerVars, creator, deleter, starter, crashes, missed>>

\* StopAllForTenant reads what it will stop in one query.
SweepSelect ==
  /\ sweep.pc = "select"
  /\ sweep' = [sweep EXCEPT
       !.pc = "next",
       !.todo = {[id |-> d, cid |-> cid[d], failed |-> status[d] = "failed"] :
                   d \in {e \in Dbs : \/ status[e] \notin {"none", "failed", "stopped"}
                                      \/ status[e] = "failed" /\ cid[e] # 0}}]
  /\ UNCHANGED <<tenantVars, rowVars, dockerVars, creator, deleter, starter, crashes, missed>>

SweepStop(r) ==
  /\ sweep.pc = "next"
  /\ RemoveContainer(r.id, r.cid)
  /\ sweep' = [pc |-> "write", todo |-> sweep.todo \ {r}, cur |-> r]
  /\ UNCHANGED <<tenantVars, rowVars, runs, vol, net, creator, deleter, starter, crashes, missed>>

\* A failed row only loses its container id; the others become stopped, whatever they
\* are by now, and keep theirs.
SweepWrite ==
  /\ sweep.pc = "write"
  /\ IF sweep.cur.failed
     THEN cid' = [cid EXCEPT ![sweep.cur.id] = 0] /\ UNCHANGED status
     ELSE UpdateStatus(sweep.cur.id, "stopped") /\ UNCHANGED cid
  /\ missed' = IF cont[sweep.cur.id] = 0 THEN missed \ {sweep.cur.id}
               ELSE missed \cup {sweep.cur.id}
  /\ sweep' = [sweep EXCEPT !.pc = "next", !.cur = NoRow]
  /\ UNCHANGED <<tenantVars, port, dockerVars, creator, deleter, starter, crashes>>

SweepDone ==
  /\ sweep.pc = "next" /\ sweep.todo = {}
  /\ sweep' = Idle
  /\ UNCHANGED <<tenantVars, rowVars, dockerVars, creator, deleter, starter, crashes, missed>>

StopAllForTenant ==
  SweepSelect \/ (\E r \in sweep.todo : SweepStop(r)) \/ SweepWrite \/ SweepDone

\* The reactivation commits; its starts are a detached goroutine.
Reactivate ==
  /\ ~active /\ starter.pc = "idle"
  /\ active' = TRUE
  /\ starter' = [starter EXCEPT !.pc = "select"]
  /\ UNCHANGED <<suspensions, rowVars, dockerVars, creator, deleter, sweep, crashes, missed>>

StartSelect ==
  /\ starter.pc = "select"
  /\ starter' = [starter EXCEPT !.pc = "next", !.todo = {d \in Dbs : status[d] = "stopped"}]
  /\ UNCHANGED <<tenantVars, rowVars, dockerVars, creator, deleter, sweep, crashes, missed>>

\* The first tenantActive: a suspended tenant ends the loop.
StartCheck(d) ==
  /\ starter.pc = "next" /\ d \in starter.todo
  /\ starter' = IF active
                THEN [pc |-> "network", todo |-> starter.todo \ {d}, cur |-> d, cid |-> 0]
                ELSE Resting
  /\ UNCHANGED <<tenantVars, rowVars, dockerVars, creator, deleter, sweep, crashes, missed>>

StartEnd ==
  /\ starter.pc = "next" /\ starter.todo = {}
  /\ starter' = Resting
  /\ UNCHANGED <<tenantVars, rowVars, dockerVars, creator, deleter, sweep, crashes, missed>>

StartNetwork(d) ==
  /\ starter.pc = "network" /\ starter.cur = d
  /\ \/ net' = [net EXCEPT ![d] = TRUE] /\ starter' = [starter EXCEPT !.pc = "run"]
     \/ Faults /\ starter' = [starter EXCEPT !.pc = "next"] /\ UNCHANGED net
  /\ UNCHANGED <<tenantVars, rowVars, cont, runs, vol, leaked, creator, deleter, sweep, crashes, missed>>

\* A failure leaves the database stopped.
StartRun(d) ==
  /\ starter.pc = "run" /\ starter.cur = d
  /\ \/ RunDatabase(d) /\ starter' = [starter EXCEPT !.pc = "record", !.cid = runs[d] + 1]
     \/ RunFails(d) /\ starter' = [starter EXCEPT !.pc = "next"]
  /\ UNCHANGED <<tenantVars, rowVars, creator, deleter, sweep, crashes, missed>>

\* Unconditional, and its result is not looked at.
StartRecord(d) ==
  /\ starter.pc = "record" /\ starter.cur = d
  /\ cid' = [cid EXCEPT ![d] = IF status[d] = "none" THEN @ ELSE starter.cid]
  /\ starter' = [starter EXCEPT !.pc = "health"]
  /\ UNCHANGED <<tenantVars, status, port, dockerVars, creator, deleter, sweep, crashes, missed>>

StartHealthy(d) ==
  /\ starter.pc = "health" /\ starter.cur = d
  /\ \/ PortBound(port[d]) /\ starter' = [starter EXCEPT !.pc = "recheck"]
     \/ starter' = [starter EXCEPT !.pc = "unhealthy"]
  /\ UNCHANGED <<tenantVars, rowVars, dockerVars, creator, deleter, sweep, crashes, missed>>

\* Not healthy: the container goes,
StartUnhealthy(d) ==
  /\ starter.pc = "unhealthy" /\ starter.cur = d
  /\ RemoveContainer(d, starter.cid)
  /\ starter' = [starter EXCEPT !.pc = "forget"]
  /\ UNCHANGED <<tenantVars, rowVars, runs, vol, net, creator, deleter, sweep, crashes, missed>>

\* and the row, which stays stopped, forgets it, if it still names it.
StartForget(d) ==
  /\ starter.pc = "forget" /\ starter.cur = d
  /\ \/ cid' = [cid EXCEPT ![d] = IF @ = starter.cid THEN 0 ELSE @]
     \/ Faults /\ UNCHANGED cid
  /\ starter' = [starter EXCEPT !.pc = "next"]
  /\ UNCHANGED <<tenantVars, status, port, dockerVars, creator, deleter, sweep, crashes, missed>>

\* The second tenantActive.
StartRecheck(d) ==
  /\ starter.pc = "recheck" /\ starter.cur = d
  /\ starter' = [starter EXCEPT !.pc = IF active THEN "ready" ELSE "undo"]
  /\ UNCHANGED <<tenantVars, rowVars, dockerVars, creator, deleter, sweep, crashes, missed>>

\* Suspended while starting: the container goes, and then the row says so.
StartUndo(d) ==
  /\ starter.pc = "undo" /\ starter.cur = d
  /\ RemoveContainer(d, starter.cid)
  /\ starter' = [starter EXCEPT !.pc = "stopped"]
  /\ UNCHANGED <<tenantVars, rowVars, runs, vol, net, creator, deleter, sweep, crashes, missed>>

StartStopped(d) ==
  /\ starter.pc = "stopped" /\ starter.cur = d
  /\ UpdateStatus(d, "stopped")
  /\ starter' = Resting
  /\ UNCHANGED <<tenantVars, cid, port, dockerVars, creator, deleter, sweep, crashes, missed>>

\* Unconditional again.
StartReady(d) ==
  /\ starter.pc = "ready" /\ starter.cur = d
  /\ UpdateStatus(d, "ready")
  /\ missed' = IF active /\ status[d] # "none" THEN missed ELSE missed \cup {d}
  /\ starter' = [starter EXCEPT !.pc = "next"]
  /\ UNCHANGED <<tenantVars, cid, port, dockerVars, creator, deleter, sweep, crashes>>

StartAllForTenant ==
  \/ StartSelect \/ StartEnd
  \/ \E d \in Dbs : \/ StartCheck(d) \/ StartNetwork(d) \/ StartRun(d) \/ StartRecord(d)
                    \/ StartHealthy(d) \/ StartUnhealthy(d) \/ StartForget(d)
                    \/ StartRecheck(d) \/ StartUndo(d) \/ StartStopped(d) \/ StartReady(d)

-----------------------------------------------------------------------------
(* The rest of the daemon, and its crashes. *)

\* The tenant writes to a database it may reach.
UseDatabase(d) ==
  /\ active /\ status[d] = "ready" /\ cont[d] # 0 /\ vol[d] = "empty"
  /\ vol' = [vol EXCEPT ![d] = "data"]
  /\ UNCHANGED <<tenantVars, rowVars, cont, runs, net, leaked, procVars, crashes, missed>>

\* Mutant: the reconciler writes the state that Docker reports.
ReconcileDatabaseAs(d) ==
  /\ status[d] = "ready" /\ cid[d] # 0 /\ cont[d] # cid[d]
  /\ status' = [status EXCEPT ![d] = "exited"]
  /\ UNCHANGED <<tenantVars, cid, port, dockerVars, procVars, crashes, missed>>

\* reconcileDatabases: an id that is not found stays so, and the update is guarded by it.
ReconcileDatabase(d) ==
  /\ status[d] = "ready" /\ cid[d] # 0 /\ cont[d] # cid[d]
  /\ status' = [status EXCEPT ![d] = "unavailable"]
  /\ UNCHANGED <<tenantVars, cid, port, dockerVars, procVars, crashes, missed>>

\* A container a goroutine has made and not settled yet is younger than minResourceAge.
Young(d) == \/ creator[d].cid = cont[d] /\ creator[d].pc # "done"
            \/ starter.cur = d /\ starter.cid = cont[d]

\* collectOnce: a container no row names, a volume no row names.
CollectContainer(d) ==
  /\ cont[d] # 0 /\ cid[d] # cont[d] /\ ~Young(d)
  /\ RemoveContainer(d, cont[d])
  /\ UNCHANGED <<tenantVars, rowVars, runs, vol, net, procVars, crashes, missed>>

CollectVolume(d) ==
  /\ vol[d] # "none" /\ status[d] = "none" /\ cont[d] = 0
  /\ vol' = [vol EXCEPT ![d] = "none"]
  /\ UNCHANGED <<tenantVars, rowVars, cont, runs, net, leaked, procVars, crashes, missed>>

\* ah dies with all its goroutines; the next one runs ReconcileStale before it serves.
Crash ==
  /\ crashes < MaxCrashes
  /\ crashes' = crashes + 1
  /\ LET stale == {d \in Dbs : status[d] = "provisioning"}
         kept(d) == d \notin stale \/ cid[d] # cont[d]
     IN  /\ status' = [d \in Dbs |-> IF d \in stale THEN "failed" ELSE status[d]]
         /\ cont' = [d \in Dbs |-> IF kept(d) THEN cont[d] ELSE 0]
         /\ vol' = [d \in Dbs |-> IF d \in stale /\ (~kept(d) \/ cont[d] = 0)
                                  THEN "none" ELSE vol[d]]
         /\ leaked' = leaked \cup {d \in Dbs : cont[d] # 0 /\ (Young(d) \/ sweep.pc # "idle")}
  /\ creator' = [d \in Dbs |-> IF creator[d].pc = "new" /\ creator[d].tries = 0
                               THEN creator[d] ELSE [creator[d] EXCEPT !.pc = "done"]]
  /\ deleter' = [d \in Dbs |-> [pc |-> "idle", cid |-> 0]]
  /\ sweep' = Idle
  /\ starter' = Resting
  /\ UNCHANGED <<tenantVars, cid, port, runs, net, missed>>

Environment(d) ==
  UseDatabase(d) \/ ReconcileDatabase(d) \/ CollectContainer(d) \/ CollectVolume(d)

Next ==
  \/ \E d \in Dbs : Create(d) \/ Delete(d) \/ Environment(d)
  \/ Suspend \/ Reactivate \/ StopAllForTenant \/ StartAllForTenant
  \/ Crash

Spec == Init /\ [][Next]_vars

-----------------------------------------------------------------------------
(* Properties. *)

Settled(d) ==
  /\ creator[d].pc = "done" /\ deleter[d].pc = "idle"
  /\ starter.cur # d

\* A database that may hold the tenant's data loses it only to Delete, or once Delete has
\* taken its row: no cleanup of a failed provision, no ReconcileStale and no GC removes
\* the volume of a row that lives, although each of them removes volumes.  (Except
\* that a reactivation can start a database under the Create that is still to clean it up.)
KeepsData ==
  \A d \in Dbs : vol[d] = "data" /\ vol'[d] # "data" =>
    deleter[d].pc = "rmvol" \/ status[d] = "none" \/ creator[d].pc = "rmvol"

\* Once a suspension has swept, the container of a database that has a row still runs only
\* because its removal failed, because the row was marked ready after the suspension, or
\* because the sweep marked the row stopped on what it had read before the container was
\* recorded.
\* (One without a row is GC's: a Delete that overlaps Create may leave it.)
SuspendedNotRunning ==
  \A d \in Dbs :
    ~active /\ sweep.pc = "idle" /\ Settled(d) /\ status[d] # "none" /\ cont[d] # 0
      => d \in leaked \cup missed

\* However Creates race, the tenant never holds more databases, other than failed ones, than
\* its quota.  (A suspension can: its sweep may mark a row stopped that has failed meanwhile.)
QuotaHeld == suspensions = 0 => Cardinality(Live) <= MaxDatabases

=============================================================================
