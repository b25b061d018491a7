--------------------------- MODULE ServiceLifecycle ---------------------------
(***************************************************************************)
(* The lifecycle of the services of one tenant: the operations of          *)
(* services.Manager (Create, Deploy, DeployImage, Restart, Start, Stop,    *)
(* Delete, ResetCircuitBreaker), each run by a worker goroutine one        *)
(* database statement or Docker call at a time; the reconciler's crash     *)
(* state machine, circuit breaker and stale-row recovery, which share no   *)
(* lock with them; StopAllForTenant, started by a suspension and likewise  *)
(* lock-free; reactivation; containers dying on their own; and a crash of  *)
(* the ah process.                                                         *)
(*                                                                         *)
(* Time is abstracted: a crash window, a retry_at or a stale age may       *)
(* elapse whenever the code could observe that it has.  A Docker call may  *)
(* fail when Faults is TRUE.  What a read of a row told an operation is    *)
(* kept in its own record, so a decision may be stale by the time its      *)
(* write is done.                                                          *)
(***************************************************************************)
EXTENDS Naturals, FiniteSets

CONSTANTS
  Services,        \* ids of the tenant's services
  Workers,         \* goroutines that run Manager operations
  Nobody,          \* the holder of a free service lock
  Kinds,           \* the operations the workers run
  MaxContainers,   \* bound: containers Docker creates for one service
  CrashThreshold,  \* crashes inside the window that open the circuit
  Faults           \* whether a Docker call, a route write or a disk check may fail

AllKinds == {"deploy", "image", "restart", "start", "stop", "delete", "reset"}

ASSUME LifecycleAssumption ==
  /\ Nobody \notin Workers
  /\ Kinds \subseteq AllKinds
  /\ MaxContainers \in Nat \ {0}
  /\ CrashThreshold \in Nat \ {0}
  /\ Faults \in BOOLEAN

VARIABLES
  tenant,   \* tenants.status
  row,      \* the services table: status, container_id, circuit_open, crash_count
  docker,   \* the state of every container, by service and container id
  route,    \* whether the service's Traefik route file exists
  lock,     \* the holder of the service's striped mutex
  op,       \* what each worker is doing, and what it read
  open,     \* whether the deployment row of the worker's operation is still "deploying"
  rec,      \* what the reconciler is doing, and what it read
  sweep,    \* what StopAllForTenant is doing, and what it read
  swept,    \* StopAllForTenant has completed in the present suspension
  leaked    \* containers whose best-effort removal failed or was lost in a crash

vars == <<tenant, row, docker, route, lock, op, open, rec, sweep, swept, leaked>>

Ids == 1..MaxContainers
NoCid == 0                      \* container_id = ''
Cids == Ids \cup {NoCid}

Watched == {"running", "crashed"}
Statuses == {"absent", "deleted", "created", "deploying", "restarting", "stopped", "failed"}
              \cup Watched
Steps == {"idle", "check", "reject", "lock", "mark", "prep", "teardown", "clear",
          "recheck", "run", "activate", "discard", "route", "dstart", "restore", "startwrite",
          "dstop", "stopwrite", "remove", "erase"}
RecSteps == {"idle", "inspect", "record", "recover", "trip", "open", "restart", "again", "undo"}

Idle == [kind |-> "none", pc |-> "idle", svc |-> "none", cid |-> NoCid, was |-> "absent",
         new |-> NoCid, interrupted |-> FALSE]
RecIdle == [pc |-> "idle", svc |-> "none", cid |-> NoCid, was |-> "absent", crash |-> 0,
            why |-> "none"]
SweepIdle == [pc |-> "idle", todo |-> {}, svc |-> "none", cid |-> [s \in Services |-> NoCid]]

Init ==
  /\ tenant = "active"
  /\ row = [s \in Services |-> [status |-> "absent", cid |-> NoCid, circuit |-> FALSE, crash |-> 0]]
  /\ docker = [s \in Services |-> [c \in Ids |-> "none"]]
  /\ route = [s \in Services |-> FALSE]
  /\ lock = [s \in Services |-> Nobody]
  /\ op = [w \in Workers |-> Idle]
  /\ open = [w \in Workers |-> FALSE]
  /\ rec = RecIdle
  /\ sweep = SweepIdle
  /\ swept = FALSE
  /\ leaked = [s \in Services |-> {}]

-----------------------------------------------------------------------------
(* The database and Docker, as the operations see them. *)

Present(s) == row[s].status \notin {"absent", "deleted"}
Exists(s, c) == c # NoCid /\ docker[s][c] \in {"running", "exited"}
Alive(s) == {c \in Ids : Exists(s, c)}
Fresh(s) == {c \in Ids : docker[s][c] = "none"}

\* UPDATE services SET status = st WHERE id = s: no row, no effect.
WithStatus(s, st) == IF Present(s) THEN [row EXCEPT ![s].status = st] ELSE row

\* UPDATE services SET container_id = '' [, status = st] WHERE id = s AND container_id = c.
CasClear(s, c, st) ==
  IF Present(s) /\ row[s].cid = c /\ c # NoCid
    THEN [row EXCEPT ![s] = [row[s] EXCEPT !.cid = NoCid, !.status = st]]
    ELSE row

\* What stopping and removing the containers C of service s leaves in Docker: force-removal
\* of a container succeeds, or finds it already gone.
Without(s, C) ==
  [docker EXCEPT ![s] = [c \in Ids |-> IF c \in C /\ Exists(s, c) THEN "gone" ELSE docker[s][c]]]

\* What a failed stop or remove of container c may leave: untouched, or stopped only.
HalfRemoved(s, c) ==
  {docker} \cup (IF Exists(s, c) THEN {[docker EXCEPT ![s][c] = "exited"]} ELSE {})

Goto(w, pc) == op' = [op EXCEPT ![w].pc = pc]

\* Mutant: a path out of the operation that forgets the unlock.
ReturnLocked(w) == op' = [op EXCEPT ![w] = Idle] /\ UNCHANGED lock

\* The operation returns: deferred unlock and slot release.
Return(w) ==
  /\ op' = [op EXCEPT ![w] = Idle]
  /\ lock' = [s \in Services |-> IF lock[s] = w THEN Nobody ELSE lock[s]]

At(w, pc) == op[w].pc = pc
IsDeploy(w) == op[w].kind \in {"deploy", "rdeploy"}
DeployPath(w) == op[w].kind \in {"deploy", "rdeploy", "image"}

-----------------------------------------------------------------------------
(* Creating a service, and starting an operation on one. *)

Create(s) ==
  /\ row[s].status = "absent"
  /\ tenant = "active"
  /\ row' = [row EXCEPT ![s].status = "created"]
  /\ UNCHANGED <<tenant, docker, route, lock, op, open, rec, sweep, swept, leaked>>

\* checkTenantActive, for all operations but Stop and Delete; then acquireDeploySlot for those
\* that create containers. The deploy queue is shared with every other tenant, so it may be
\* full. An operation that is refused here returns, and Deploy marks the row failed first.
Admitted(w, k) ==
  IF tenant = "active" \/ k \in {"stop", "delete"}
    THEN {"lock"} \cup (IF k = "deploy" THEN {"reject"} ELSE {})
    ELSE IF k \in {"deploy", "rdeploy"} THEN {"reject"} ELSE {}

\* Worker w starts operation k on service s at step pc.
Goes(w, s, k, pc) == op' = [op EXCEPT ![w] = [Idle EXCEPT !.kind = k, !.svc = s, !.pc = pc]]

\* Restart sends a service that has no container down the Deploy path, where the tenant is
\* asked for once more.
Begin(w, k, s) ==
  LET noContainer == row[s].cid = NoCid /\ ~row[s].circuit
  IN /\ At(w, "idle")
     /\ Present(s)
     /\ \/ \E pc \in Admitted(w, k) : Goes(w, s, k, pc)
        \/ k = "restart" /\ tenant = "active" /\ noContainer /\ Goes(w, s, "rdeploy", "check")
     /\ UNCHANGED <<tenant, row, docker, route, lock, open, rec, sweep, swept, leaked>>

CheckAgain(w) ==
  /\ At(w, "check")
  /\ \/ \E pc \in Admitted(w, "rdeploy") : Goto(w, pc) /\ UNCHANGED lock
     \/ Return(w)
  /\ UNCHANGED <<tenant, row, docker, route, open, rec, sweep, swept, leaked>>

\* Deploy marks the row failed when it refuses to run.
Reject(w) ==
  /\ At(w, "reject")
  /\ row' = WithStatus(op[w].svc, "failed")
  /\ Return(w)
  /\ UNCHANGED <<tenant, docker, route, open, rec, sweep, swept, leaked>>

\* Mutant: Delete does not take the service lock.
LockFreeForDelete(w) == lock[op[w].svc] = Nobody \/ op[w].kind = "delete"

LockFree(w) == lock[op[w].svc] = Nobody

\* The lock is taken and the row is read under it.
Enter(w, pc) ==
  LET r == row[op[w].svc]
  IN /\ lock' = [lock EXCEPT ![op[w].svc] = w]
     /\ op' = [op EXCEPT ![w] = [op[w] EXCEPT !.pc = pc, !.cid = r.cid,
                          !.was = IF op[w].kind = "restart" THEN r.status ELSE op[w].was]]

\* lockService, and what the authoritative read of the row under it decides.
LockService(w) ==
  LET s == op[w].svc
      r == row[s]
      k == op[w].kind
      refuse == ~Present(s) \/ (k \in {"image", "restart", "start"} /\ r.circuit)
                            \/ (k \in {"restart", "start", "stop"} /\ r.cid = NoCid)
  IN /\ At(w, "lock")
     /\ LockFree(w)
     /\ \/ refuse /\ Return(w)
        \/ /\ ~refuse
           /\ \/ k \in {"deploy", "rdeploy"} /\ Enter(w, IF r.circuit THEN "reject" ELSE "mark")
              \/ k \in {"image", "restart"} /\ Enter(w, "mark")
              \/ k = "start" /\ Enter(w, "dstart")
              \/ k = "stop" /\ Enter(w, "dstop")
              \/ k \in {"delete", "reset"} /\ Enter(w, "remove")
     /\ UNCHANGED <<tenant, row, docker, route, open, rec, sweep, swept, leaked>>

-----------------------------------------------------------------------------
(* Deploy, DeployImage and Restart: the steps under the service lock. *)

Close(w) == open' = [open EXCEPT ![w] = FALSE]

\* Mutant: the error return marks the service but forgets the deployment row.
FailServiceOnly(w) ==
  /\ row' = WithStatus(op[w].svc, "failed")
  /\ UNCHANGED open
  /\ Return(w)

\* failDeployment, or Restart's error return: the row and the deployment row become failed.
FailDeployment(w) ==
  /\ row' = WithStatus(op[w].svc, "failed")
  /\ Close(w)
  /\ Return(w)

\* Mutant: Restart leaves the row as it found it while it works.
KeepStatus(w) == IF op[w].kind = "restart" THEN op[w].was ELSE "deploying"

MarkStatus(w) == IF op[w].kind = "restart" THEN "restarting" ELSE "deploying"

\* Deploy, DeployImage: markDeploying, only while the tenant is active. Restart: the
\* compare-and-swap that takes the row out of the reconciler's watch.
Mark(w) ==
  LET s == op[w].svc
      restarting == row[s].cid = op[w].cid /\ ~row[s].circuit
  IN /\ At(w, "mark")
     /\ \/ /\ DeployPath(w)
           /\ tenant = "active"
           /\ row' = WithStatus(s, MarkStatus(w))
           /\ open' = [open EXCEPT ![w] = TRUE]
           /\ Goto(w, IF op[w].kind = "image" THEN "teardown" ELSE "prep")
           /\ UNCHANGED lock
        \/ DeployPath(w) /\ tenant # "active" /\ Return(w) /\ UNCHANGED <<row, open>>
        \/ Faults /\ IsDeploy(w) /\ Return(w) /\ row' = WithStatus(s, "failed") /\ UNCHANGED open
        \/ /\ op[w].kind = "restart" /\ restarting
           /\ row' = WithStatus(s, MarkStatus(w))
           /\ open' = [open EXCEPT ![w] = TRUE]
           /\ Goto(w, "teardown")
           /\ UNCHANGED lock
        \/ op[w].kind = "restart" /\ ~restarting /\ Close(w) /\ Return(w) /\ UNCHANGED row
     /\ UNCHANGED <<tenant, docker, route, rec, sweep, swept, leaked>>

\* EnsureNetwork and the slow pull, then the row is read again for its container_id.
Prep(w) ==
  /\ At(w, "prep")
  /\ \/ /\ op' = [op EXCEPT ![w] = [op[w] EXCEPT !.pc = "teardown", !.cid = row[op[w].svc].cid]]
        /\ UNCHANGED <<row, open, lock>>
     \/ Faults /\ FailDeployment(w)
  /\ UNCHANGED <<tenant, docker, route, rec, sweep, swept, leaked>>

\* Stop and remove the old container: by id in a deploy, by id and by name in Restart.
\* A Restart that fails here gives the row its old status back if it is still its own.
Teardown(w) ==
  LET s == op[w].svc
      targets == IF op[w].kind = "restart" THEN Ids ELSE {op[w].cid}
      mine == Present(s) /\ row[s].cid = op[w].cid /\ row[s].status = "restarting"
  IN /\ At(w, "teardown")
     /\ \/ docker' = Without(s, targets) /\ Goto(w, "clear") /\ UNCHANGED <<row, open, lock>>
        \/ /\ Faults /\ op[w].cid # NoCid
           /\ docker' \in HalfRemoved(s, op[w].cid)
           /\ \/ DeployPath(w) /\ FailDeployment(w)
              \/ /\ op[w].kind = "restart"
                 /\ Close(w)
                 /\ Return(w)
                 /\ row' = IF mine THEN [row EXCEPT ![s].status = op[w].was] ELSE row
     /\ UNCHANGED <<tenant, route, rec, sweep, swept, leaked>>

\* The old container is gone: drop its id. A deploy does so by compare-and-swap, Restart
\* whatever the row says. The row is still there, as Delete needs the lock, so Restart's exit
\* for a deleted row is never taken.
Clear(w) ==
  LET s == op[w].svc
  IN /\ At(w, "clear")
     /\ row' = IF DeployPath(w) THEN CasClear(s, op[w].cid, row[s].status)
               ELSE IF Present(s)
                 THEN [row EXCEPT ![s] = [row[s] EXCEPT !.cid = NoCid, !.status = "restarting"]]
               ELSE row
     /\ op' = [op EXCEPT ![w] = [op[w] EXCEPT !.pc = "recheck", !.cid = NoCid, !.was = Idle.was]]
     /\ UNCHANGED <<tenant, docker, route, lock, open, rec, sweep, swept, leaked>>

\* The tenant is asked for again before a container is created. A deploy leaves the row of a
\* suspended tenant alone; Restart marks it failed. Loading env vars, the image update and
\* EnsureNetwork, which stand beside this check, may fail.
Recheck(w) ==
  /\ At(w, "recheck")
  /\ \/ tenant = "active" /\ Goto(w, "run") /\ UNCHANGED <<row, open, lock>>
     \/ tenant # "active" /\ DeployPath(w) /\ Close(w) /\ Return(w) /\ UNCHANGED row
     \/ tenant # "active" /\ op[w].kind = "restart" /\ FailDeployment(w)
     \/ Faults /\ FailDeployment(w)
  /\ UNCHANGED <<tenant, docker, route, rec, sweep, swept, leaked>>

\* RunContainer: the name must be free. A create that then fails is rolled back, or leaks the
\* half-made container when the rollback fails too. Restart drops the route on failure.
Run(w) ==
  LET s == op[w].svc
      dropped == IF op[w].kind = "restart" THEN {[route EXCEPT ![s] = FALSE]} ELSE {route}
  IN /\ At(w, "run")
     /\ \/ /\ Alive(s) = {}
           /\ \E c \in Fresh(s) :
                /\ \A d \in Fresh(s) : c <= d
                /\ \/ /\ docker' = [docker EXCEPT ![s][c] = "running"]
                      /\ op' = [op EXCEPT ![w] = [op[w] EXCEPT !.pc = "activate", !.new = c]]
                      /\ UNCHANGED <<row, open, lock, route, leaked>>
                   \/ /\ Faults
                      /\ docker' = [docker EXCEPT ![s][c] = "exited"]
                      /\ leaked' = [leaked EXCEPT ![s] = @ \cup {c}]
                      /\ FailDeployment(w)
                      /\ route' \in dropped
        \/ /\ Faults \/ Alive(s) # {} \/ Fresh(s) = {}
           /\ FailDeployment(w)
           /\ route' \in dropped
           /\ UNCHANGED <<docker, leaked>>
     /\ UNCHANGED <<tenant, rec, sweep, swept>>

\* Mutants: the final write does not look at the circuit, or at the tenant.
MayActivateOpenCircuit(s) == Present(s) /\ tenant = "active"
MayActivateSuspended(s) == Present(s) /\ ~row[s].circuit

MayActivate(s) == Present(s) /\ ~row[s].circuit /\ tenant = "active"

\* activateContainer: the final write is guarded by the circuit and by the tenant's status.
\* Attaching a database network, or the write itself, may fail.
Activate(w) ==
  LET s == op[w].svc
  IN /\ At(w, "activate")
     /\ \/ /\ MayActivate(s)
           /\ row' = [row EXCEPT ![s] = [row[s] EXCEPT !.status = "running", !.cid = op[w].new]]
           /\ Close(w)
           /\ Goto(w, "route")
        \/ /\ ~MayActivate(s)
           /\ op' = [op EXCEPT ![w] = [op[w] EXCEPT !.pc = "discard", !.interrupted = TRUE]]
           /\ UNCHANGED <<row, open>>
        \/ Faults /\ Goto(w, "discard") /\ UNCHANGED <<row, open>>
     /\ UNCHANGED <<tenant, docker, route, lock, rec, sweep, swept, leaked>>

\* discardContainer is best-effort. An interrupted operation leaves the row to whoever
\* changed it; any other failure marks it failed.
Discard(w) ==
  LET s == op[w].svc
      c == op[w].new
  IN /\ At(w, "discard")
     /\ \/ docker' = Without(s, {c}) /\ UNCHANGED leaked
        \/ /\ Faults
           /\ docker' \in HalfRemoved(s, c)
           /\ leaked' = [leaked EXCEPT ![s] = @ \cup {c}]
     /\ row' = IF op[w].interrupted THEN row ELSE WithStatus(s, "failed")
     /\ route' = IF op[w].kind = "restart" THEN [route EXCEPT ![s] = FALSE] ELSE route
     /\ Close(w)
     /\ Return(w)
     /\ UNCHANGED <<tenant, rec, sweep, swept>>

\* writeTraefikRoute, non-fatal; then the operation returns and releases its lock.
WriteRoute(w) ==
  /\ At(w, "route")
  /\ \/ route' = [route EXCEPT ![op[w].svc] = TRUE]
     \/ Faults /\ UNCHANGED route
  /\ Return(w)
  /\ UNCHANGED <<tenant, row, docker, open, rec, sweep, swept, leaked>>

-----------------------------------------------------------------------------
(* Start, Stop, Delete and ResetCircuitBreaker: the steps under the service lock. *)

\* StartContainer; a container that no longer exists is cleared from the row.
StartContainer(w) ==
  LET s == op[w].svc
      c == op[w].cid
  IN /\ At(w, "dstart")
     /\ \/ /\ Exists(s, c)
           /\ docker' = [docker EXCEPT ![s][c] = "running"]
           /\ Goto(w, "restore")
           /\ UNCHANGED <<row, lock>>
        \/ ~Exists(s, c) /\ row' = CasClear(s, c, "stopped") /\ Return(w) /\ UNCHANGED docker
        \/ Faults /\ Return(w) /\ UNCHANGED <<row, docker>>
     /\ UNCHANGED <<tenant, route, open, rec, sweep, swept, leaked>>

\* restoreStartedContainer: inspect, networks and route, or else stop it again.
RestoreStarted(w) ==
  LET s == op[w].svc
      c == op[w].cid
  IN /\ At(w, "restore")
     /\ \/ /\ Exists(s, c)
           /\ route' = [route EXCEPT ![s] = TRUE]
           /\ Goto(w, "startwrite")
           /\ UNCHANGED <<docker, lock>>
        \/ /\ Faults \/ ~Exists(s, c)
           /\ docker' \in HalfRemoved(s, c)
           /\ Return(w)
           /\ UNCHANGED route
     /\ UNCHANGED <<tenant, row, open, rec, sweep, swept, leaked>>

\* Start's last write is unconditional.
StartWrite(w) ==
  /\ At(w, "startwrite")
  /\ row' = WithStatus(op[w].svc, "running")
  /\ Return(w)
  /\ UNCHANGED <<tenant, docker, route, open, rec, sweep, swept, leaked>>

StopContainer(w) ==
  LET s == op[w].svc
      c == op[w].cid
  IN /\ At(w, "dstop")
     /\ \/ /\ Exists(s, c)
           /\ docker' = [docker EXCEPT ![s][c] = "exited"]
           /\ Goto(w, "stopwrite")
           /\ UNCHANGED <<row, lock>>
        \/ ~Exists(s, c) /\ row' = CasClear(s, c, "stopped") /\ Return(w) /\ UNCHANGED docker
        \/ Faults /\ Return(w) /\ UNCHANGED <<row, docker>>
     /\ UNCHANGED <<tenant, route, open, rec, sweep, swept, leaked>>

\* Mutant: Stop copies Docker's state into the row.
StopWriteDockerState(w) ==
  /\ At(w, "stopwrite")
  /\ row' = WithStatus(op[w].svc, "exited")
  /\ Return(w)
  /\ UNCHANGED <<tenant, docker, route, open, rec, sweep, swept, leaked>>

StopWrite(w) ==
  /\ At(w, "stopwrite")
  /\ row' = WithStatus(op[w].svc, "stopped")
  /\ Return(w)
  /\ UNCHANGED <<tenant, docker, route, open, rec, sweep, swept, leaked>>

\* Delete and ResetCircuitBreaker remove the container by id and by name and fail closed
\* unless it is confirmed gone; then the route goes, if it can be removed.
RemoveAll(w) ==
  LET s == op[w].svc
  IN /\ At(w, "remove")
     /\ \/ /\ docker' = Without(s, Ids)
           /\ Goto(w, "erase")
           /\ route' \in {[route EXCEPT ![s] = FALSE]} \cup (IF Faults THEN {route} ELSE {})
           /\ UNCHANGED lock
        \/ /\ Faults
           /\ docker' \in HalfRemoved(s, op[w].cid)
           /\ Return(w)
           /\ UNCHANGED route
     /\ UNCHANGED <<tenant, row, open, rec, sweep, swept, leaked>>

\* Delete drops the row; Reset closes the circuit and forgets the container.
Erase(w) ==
  LET s == op[w].svc
      st == IF op[w].kind = "delete" THEN "deleted" ELSE "stopped"
  IN /\ At(w, "erase")
     /\ row' = [row EXCEPT ![s] = [status |-> st, cid |-> NoCid, circuit |-> FALSE, crash |-> 0]]
     /\ Return(w)
     /\ UNCHANGED <<tenant, docker, route, open, rec, sweep, swept, leaked>>

-----------------------------------------------------------------------------
(* The reconciler: one goroutine, no lock in common with the operations. *)

UnchangedButRecRow == UNCHANGED <<tenant, docker, route, lock, op, open, sweep, swept, leaked>>

\* The steps after the crash is recorded use only the container id that was read.
RecGoto(pc) == rec' = [RecIdle EXCEPT !.pc = pc, !.svc = rec.svc, !.cid = rec.cid]

\* The row is still the one the reconciler read.
RowAsRead == row[rec.svc].status = rec.was /\ row[rec.svc].cid = rec.cid

\* The scan of watched rows.
RecWatch(s) ==
  /\ rec.pc = "idle"
  /\ row[s].status \in Watched /\ ~row[s].circuit /\ row[s].cid # NoCid
  /\ rec' = [pc |-> "inspect", svc |-> s, cid |-> row[s].cid, was |-> row[s].status,
             crash |-> row[s].crash, why |-> "none"]
  /\ UNCHANGED row /\ UnchangedButRecRow

\* reconcileService up to its first write: what InspectContainer shows decides whether this
\* tick counts crashes. Docker may have restarted the container since the last tick, a running
\* one may be unhealthy or still starting. A crashed row at the threshold retries the breaker
\* while its window lasts.
RecInspect ==
  LET state == docker[rec.svc][rec.cid]
      crash(why) == rec' = [rec EXCEPT !.pc = "record", !.why = why]
      down == rec.was = "running" /\ state \in {"gone", "exited"}
  IN /\ rec.pc = "inspect"
     /\ \/ down /\ crash("down")
        \/ state # "gone" /\ crash("restarts")
        \/ state = "running" /\ crash("unhealthy")
        \/ ~down /\ rec.was = "crashed" /\ rec.crash >= CrashThreshold /\ RecGoto("trip")
        \/ state = "running" /\ rec.was = "crashed" /\ rec' = [rec EXCEPT !.pc = "recover"]
        \/ ~down /\ rec' = RecIdle
        \/ Faults /\ rec' = RecIdle
     /\ UNCHANGED row /\ UnchangedButRecRow

\* The crash count a tick may arrive at: the window may have elapsed since the last crash, and
\* then counting starts over; restarts by Docker may count for several.
Counted ==
  LET base == {rec.crash, 0}
  IN IF rec.why = "restarts" THEN {b + k : b \in base, k \in 1..CrashThreshold}
     ELSE {b + 1 : b \in base}

\* Bound: a count past the threshold acts like the threshold.
Tally(n) == IF n >= CrashThreshold THEN CrashThreshold ELSE n

\* The crash is recorded by compare-and-swap on the status and container read.
RecRecord ==
  LET s == rec.svc
  IN /\ rec.pc = "record"
     /\ \/ /\ RowAsRead
           /\ \E n \in Counted :
                /\ row' = [row EXCEPT ![s] = [row[s] EXCEPT !.status = "crashed", !.crash = Tally(n)]]
                /\ \/ n >= CrashThreshold /\ RecGoto("trip")
                   \/ n < CrashThreshold /\ rec.why = "unhealthy" /\ RecGoto("restart")
                   \/ n < CrashThreshold /\ rec.why # "unhealthy" /\ rec' = RecIdle
        \/ ~RowAsRead /\ rec' = RecIdle /\ UNCHANGED row
     /\ UnchangedButRecRow

\* A crashed service whose container runs again.
RecRecover ==
  /\ rec.pc = "recover"
  /\ row' = IF RowAsRead THEN [row EXCEPT ![rec.svc].status = "running"] ELSE row
  /\ rec' = RecIdle
  /\ UnchangedButRecRow

\* tripBreaker: the container goes first, and only then the circuit opens.
RecTrip ==
  /\ rec.pc = "trip"
  /\ \/ docker' = Without(rec.svc, {rec.cid}) /\ RecGoto("open")
     \/ Faults /\ docker' \in HalfRemoved(rec.svc, rec.cid) /\ rec' = RecIdle
  /\ UNCHANGED <<tenant, row, route, lock, op, open, sweep, swept, leaked>>

RecOpen ==
  LET s == rec.svc
  IN /\ rec.pc = "open"
     /\ row' = IF row[s].status = "crashed" /\ row[s].cid = rec.cid
                 THEN [row EXCEPT ![s] = [row[s] EXCEPT !.circuit = TRUE, !.cid = NoCid]]
                 ELSE row
     /\ rec' = RecIdle
     /\ UnchangedButRecRow

\* restartUnhealthy: RestartContainer, then the row is read again and a service that was
\* stopped meanwhile gets its container stopped once more.
RecRestart ==
  /\ rec.pc = "restart"
  /\ \/ /\ Exists(rec.svc, rec.cid)
        /\ docker' = [docker EXCEPT ![rec.svc][rec.cid] = "running"]
        /\ RecGoto("again")
     \/ /\ Faults \/ ~Exists(rec.svc, rec.cid)
        /\ rec' = RecIdle
        /\ UNCHANGED docker
  /\ UNCHANGED <<tenant, row, route, lock, op, open, sweep, swept, leaked>>

RecAgain ==
  LET stoppedMeanwhile == row[rec.svc].cid = rec.cid /\ row[rec.svc].status \notin Watched
  IN /\ rec.pc = "again"
     /\ IF stoppedMeanwhile THEN RecGoto("undo") ELSE rec' = RecIdle
     /\ UNCHANGED row /\ UnchangedButRecRow

RecUndo ==
  /\ rec.pc = "undo"
  /\ docker' \in {[docker EXCEPT ![rec.svc][rec.cid] = IF @ = "running" THEN "exited" ELSE @]}
                   \cup (IF Faults THEN {docker} ELSE {})
  /\ rec' = RecIdle
  /\ UNCHANGED <<tenant, row, route, lock, op, open, sweep, swept, leaked>>

\* recoverCircuits: retry_at has elapsed.
RecoverCircuit(s) ==
  /\ rec.pc = "idle"
  /\ row[s].circuit
  /\ row' = [row EXCEPT ![s] = [row[s] EXCEPT !.circuit = FALSE, !.crash = 0, !.status = "stopped"]]
  /\ UNCHANGED rec /\ UnchangedButRecRow

\* Mutant: failStaleDeploys skips a row that has no container.
FailStaleDeployWithContainer(s) ==
  /\ rec.pc = "idle"
  /\ row[s].status = "deploying" /\ row[s].cid # NoCid
  /\ row' = [row EXCEPT ![s].status = "failed"]
  /\ UNCHANGED rec /\ UnchangedButRecRow

\* failStaleDeploys: the row has been deploying for ten minutes.
FailStaleDeploy(s) ==
  /\ rec.pc = "idle"
  /\ row[s].status = "deploying"
  /\ row' = [row EXCEPT ![s].status = "failed"]
  /\ UNCHANGED rec /\ UnchangedButRecRow

\* recoverStaleRestarts: ten minutes is well past Restart's two-minute budget, so the Restart
\* that wrote the row has returned or died.
RecoverStaleRestart(s) ==
  /\ rec.pc = "idle"
  /\ row[s].status = "restarting"
  /\ \A w \in Workers : lock[s] = w => op[w].kind # "restart"
  /\ row' = [row EXCEPT ![s].status = IF row[s].cid # NoCid THEN "running" ELSE "failed"]
  /\ UNCHANGED rec /\ UnchangedButRecRow

-----------------------------------------------------------------------------
(* Suspension and reactivation. *)

\* commitTenantSuspension, then StopAllForTenant in the background (bound: one at a time).
Suspend ==
  /\ tenant = "active" /\ sweep.pc = "idle"
  /\ tenant' = "suspended"
  /\ sweep' = [SweepIdle EXCEPT !.pc = "label"]
  /\ swept' = FALSE
  /\ UNCHANGED <<row, docker, route, lock, op, open, rec, leaked>>

\* handleTenantReactivate. The deploys of StartAllForTenant are workers' deploys.
Reactivate ==
  /\ tenant = "suspended"
  /\ tenant' = "active"
  /\ swept' = FALSE
  /\ UNCHANGED <<row, docker, route, lock, op, open, rec, sweep, leaked>>

\* The pass by label: remove whatever container of the tenant exists, best-effort.
SweepLabel ==
  /\ sweep.pc = "label"
  /\ \/ docker' = [s \in Services |-> Without(s, Ids)[s]]
     \/ Faults /\ UNCHANGED docker
  /\ sweep' = [sweep EXCEPT !.pc = "rows"]
  /\ UNCHANGED <<tenant, row, route, lock, op, open, rec, swept, leaked>>

\* The list of rows is read once.
SweepRows ==
  /\ sweep.pc = "rows"
  /\ sweep' = [sweep EXCEPT !.pc = "stop", !.todo = {s \in Services : Present(s)},
                             !.cid = [s \in Services |-> row[s].cid]]
  /\ UNCHANGED <<tenant, row, docker, route, lock, op, open, rec, swept, leaked>>

\* Each listed service in turn: remove the container listed for it, or just write stopped.
SweepStop(s) ==
  LET c == sweep.cid[s]
      next == [sweep EXCEPT !.todo = @ \ {s}]
  IN /\ sweep.pc = "stop"
     /\ s \in sweep.todo
     /\ \/ /\ c # NoCid
           /\ docker' = Without(s, {c})
           /\ sweep' = [next EXCEPT !.pc = "clear", !.svc = s]
           /\ UNCHANGED <<row, leaked>>
        \/ /\ c # NoCid /\ Faults
           /\ docker' \in HalfRemoved(s, c)
           /\ row' = WithStatus(s, "failed")
           /\ leaked' = [leaked EXCEPT ![s] = @ \cup {c}]
           /\ sweep' = next
        \/ c = NoCid /\ row' = WithStatus(s, "stopped") /\ sweep' = next /\ UNCHANGED <<docker, leaked>>
     /\ UNCHANGED <<tenant, route, lock, op, open, rec, swept>>

\* Mutant: the id is cleared whatever the row says by now.
SweepClearUnguarded ==
  /\ sweep.pc = "clear"
  /\ row' = [row EXCEPT ![sweep.svc].cid = NoCid, ![sweep.svc].status = "stopped"]
  /\ sweep' = [sweep EXCEPT !.pc = "stop", !.svc = "none"]
  /\ UNCHANGED <<tenant, docker, route, lock, op, open, rec, swept, leaked>>

\* The container is gone; its id is cleared by compare-and-swap.
SweepClear ==
  /\ sweep.pc = "clear"
  /\ row' = CasClear(sweep.svc, sweep.cid[sweep.svc], "stopped")
  /\ sweep' = [sweep EXCEPT !.pc = "stop", !.svc = "none"]
  /\ UNCHANGED <<tenant, docker, route, lock, op, open, rec, swept, leaked>>

SweepDone ==
  /\ sweep.pc = "stop" /\ sweep.todo = {}
  /\ sweep' = SweepIdle
  /\ swept' = (tenant = "suspended")
  /\ UNCHANGED <<tenant, row, docker, route, lock, op, open, rec, leaked>>

-----------------------------------------------------------------------------
(* What happens to the system. *)

\* A container's process ends and Docker does not bring it back.
ContainerExit(s, c) ==
  /\ docker[s][c] = "running"
  /\ docker' = [docker EXCEPT ![s][c] = "exited"]
  /\ UNCHANGED <<tenant, row, route, lock, op, open, rec, sweep, swept, leaked>>

\* The ah process dies and comes back: operations, locks, the reconciler's tick and a running
\* StopAllForTenant are lost; rows and containers stay. Nothing takes them up at startup.
Crash ==
  /\ op' = [w \in Workers |-> Idle]
  /\ lock' = [s \in Services |-> Nobody]
  /\ open' = [w \in Workers |-> FALSE]
  /\ rec' = RecIdle
  /\ sweep' = SweepIdle
  /\ leaked' = [s \in Services |->
                  leaked[s] \cup {op[w].new : w \in {v \in Workers :
                                                  op[v].svc = s /\ op[v].new # NoCid /\ row[s].cid # op[v].new}}]
  /\ UNCHANGED <<tenant, row, docker, route, swept>>

Operate(w) ==
  \/ CheckAgain(w) \/ Reject(w) \/ LockService(w)
  \/ Mark(w) \/ Prep(w) \/ Teardown(w) \/ Clear(w) \/ Recheck(w) \/ Run(w)
  \/ Activate(w) \/ Discard(w) \/ WriteRoute(w)
  \/ StartContainer(w) \/ RestoreStarted(w) \/ StartWrite(w)
  \/ StopContainer(w) \/ StopWrite(w) \/ RemoveAll(w) \/ Erase(w)

Reconcile ==
  \/ \E s \in Services : RecWatch(s)
  \/ RecInspect \/ RecRecord \/ RecRecover \/ RecTrip \/ RecOpen
  \/ RecRestart \/ RecAgain \/ RecUndo

RecoverStale ==
  \E s \in Services : RecoverCircuit(s) \/ FailStaleDeploy(s) \/ RecoverStaleRestart(s)

Sweep ==
  \/ SweepLabel \/ SweepRows \/ SweepClear \/ SweepDone
  \/ \E s \in Services : SweepStop(s)

Next ==
  \/ \E s \in Services : Create(s)
  \/ \E w \in Workers, k \in Kinds, s \in Services : Begin(w, k, s)
  \/ \E w \in Workers : Operate(w)
  \/ Reconcile \/ RecoverStale
  \/ Suspend \/ Reactivate \/ Sweep
  \/ \E s \in Services, c \in Ids : ContainerExit(s, c)
  \/ Crash

Spec == Init /\ [][Next]_vars

\* Goroutines are scheduled and Docker calls have deadlines; a contended sync.Mutex is handed
\* over in turn; every tick runs each of the recovery queries, and StopAllForTenant runs to
\* its end unless the process dies.
Fairness ==
  /\ \A w \in Workers : WF_vars(Operate(w)) /\ SF_vars(LockService(w))
  /\ WF_vars(Reconcile) /\ WF_vars(Sweep)
  /\ \A s \in Services :
       SF_vars(RecoverCircuit(s)) /\ SF_vars(FailStaleDeploy(s)) /\ SF_vars(RecoverStaleRestart(s))

FairSpec == Spec /\ Fairness

-----------------------------------------------------------------------------
(* Properties. *)

InFlight(s) == {op[w].new : w \in {v \in Workers : op[v].svc = s}} \ {NoCid}
Running(s) == {c \in Ids : docker[s][c] = "running"}
Quiescent == (\A w \in Workers : At(w, "idle")) /\ rec.pc = "idle" /\ sweep.pc = "idle"

ContainerStates == {"none", "running", "exited", "gone"}
RowType == [status : Statuses, cid : Cids, circuit : BOOLEAN, crash : 0..CrashThreshold]
OpType == [kind : AllKinds \cup {"rdeploy", "none"}, pc : Steps, svc : Services \cup {"none"},
           cid : Cids, was : Statuses, new : Cids, interrupted : BOOLEAN]
RecType == [pc : RecSteps, svc : Services \cup {"none"}, cid : Cids, was : Statuses,
            crash : 0..CrashThreshold, why : {"none", "down", "restarts", "unhealthy"}]
SweepType == [pc : {"idle", "label", "rows", "stop", "clear"}, todo : SUBSET Services,
              svc : Services \cup {"none"}, cid : [Services -> Cids]]

\* Every variable keeps its type: rows, containers, operations, tick and sweep are records of
\* the shapes the Go structs and tables have.
TypeOK ==
  /\ tenant \in {"active", "suspended"}
  /\ row \in [Services -> RowType]
  /\ docker \in [Services -> [Ids -> ContainerStates]]
  /\ route \in [Services -> BOOLEAN]
  /\ lock \in [Services -> Workers \cup {Nobody}]
  /\ op \in [Workers -> OpType]
  /\ open \in [Workers -> BOOLEAN]
  /\ rec \in RecType
  /\ sweep \in SweepType
  /\ swept \in BOOLEAN
  /\ leaked \in [Services -> SUBSET Ids]

\* A service whose circuit breaker is open has no container to come back to life: the breaker
\* removes it first, and a deploy that was under way when it opened does not install another.
CircuitOpenHasNoContainer == \A s \in Services : row[s].circuit => row[s].cid = NoCid

\* Every container Docker has for a service is the one the row names, or the one an operation
\* in flight will install or discard, or one whose removal was reported as failed. An
\* untracked container would serve traffic and use memory with nobody to stop it.
NoUntrackedContainer ==
  \A s \in Services : Alive(s) \subseteq ({row[s].cid} \cup InFlight(s) \cup leaked[s])

\* Once StopAllForTenant has finished for a suspended tenant nothing of the tenant runs, but
\* for what an operation in flight is about to discard: an operation that passed its tenant
\* check before the suspension cannot bring a container back after the sweep.
SuspendedHasNoRunningContainer ==
  swept /\ tenant = "suspended" =>
    \A s \in Services : Running(s) \subseteq InFlight(s) \cup leaked[s]

\* The deployment history row an operation opened is closed by the time it returns, on every
\* path out of it.
DeploymentRowClosed == \A w \in Workers : At(w, "idle") => ~open[w]

\* The comment in Restart (services.go, before the compare-and-swap): the reconciler does not
\* count the teardown of the old container as a crash. No crash is recorded for a service
\* between an operation's mark and its activation.
NoPhantomCrash ==
  [][\A s \in Services :
       row'[s].crash > row[s].crash =>
         \A w \in Workers : op[w].svc = s =>
           op[w].pc \notin {"prep", "teardown", "clear", "recheck", "run", "activate"}]_vars

\* A route file appears only for a service that exists: the route is written under the lock
\* that Delete takes, so a finishing deploy cannot resurrect the route of a deleted service.
NoRouteResurrection ==
  [][\A s \in Services : ~route[s] /\ route'[s] => Present(s)]_vars

\* Every operation returns: nobody waits for a service lock forever.
OperationsReturn == \A w \in Workers : ~At(w, "idle") ~> At(w, "idle")

\* A row does not stay in deploying or restarting, even if the process died in the middle of
\* the operation that put it there.
TransientStatusEnds ==
  \A s \in Services :
    row[s].status \in {"deploying", "restarting"} ~> row[s].status \notin {"deploying", "restarting"}

\* What the API documentation says of a suspension: it stops the tenant's services.
SuspensionStopsServices ==
  tenant = "suspended" ~> (tenant = "active" \/ \A s \in Services : Running(s) \subseteq leaked[s])

=============================================================================
