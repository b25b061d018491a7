----------------------------- MODULE Environments -----------------------------
(***************************************************************************)
(* environments.Manager, its warm pool, and what the reconciler, a         *)
(* suspension and GC do to dev environments: who owns a container and its  *)
(* workspace volume, and who may stop or remove them.                      *)
(*                                                                         *)
(* The environments of one tenant, and of kind "environment". A warm       *)
(* container and its volume go by the name of their pool entry, the own    *)
(* volume of an environment by the name of the environment. Previews,      *)
(* networks and templates do not decide who owns what and are left out.    *)
(***************************************************************************)
EXTENDS Naturals, FiniteSets

CONSTANTS
  Envs,      \* environments; an id is used once
  Entries,   \* warm-pool entries; an id is used once
  Warm,      \* the entries that are ready at first
  Spare,     \* containers that creates and starts make themselves (bound)
  Nothing,   \* no container, no volume, no environment
  PoolSize,  \* ready entries the refill aims at
  Quota,     \* tenant_quotas.max_environments
  Actors,    \* what runs beside the creates: goroutines and requests (bound)
  Faults     \* what may fail: calls of the refill, other calls, the process (bound)

ASSUME EnvironmentsAssumption ==
  /\ Envs \cap Entries = {} /\ Envs \cap Spare = {} /\ Entries \cap Spare = {}
  /\ Warm \subseteq Entries
  /\ Nothing \notin Envs \cup Entries \cup Spare
  /\ PoolSize \in Nat /\ Quota \in Nat
  /\ Actors \subseteq {"user", "reconciler", "suspension", "refill", "gc", "operator"}
  /\ Faults \subseteq {"refill", "call", "crash"}

Containers == Entries \cup Spare
Volumes == Entries \cup Envs
Statuses == {"absent", "creating", "running", "stopped", "failed", "deleted"}

VARIABLES
  tenant,   \* tenants.status
  env,      \* the environments table
  pool,     \* the warm_pool table: status by entry
  cont,     \* Docker: every container's state, name and volume
  vol,      \* Docker: whether a volume exists
  creator,  \* the goroutine in create(), by environment
  user,     \* the goroutine that holds the manager's mutex
  rec,      \* the reconciler, and the row it read; late (history): a Start has held the lease
            \* since the reconciler has decided to stop the container
  sweep,    \* StopAllForTenant, and the rows it listed
  fill,     \* the refill of the pool
  gc,       \* what the collector has found to be orphaned; late (of both, history): what an
            \* operator has pruned the container of since the pass listed it
  lost      \* containers that a failed call or a crash left behind

vars == <<tenant, env, pool, cont, vol, creator, user, rec, sweep, fill, gc, lost>>

Absent == [status |-> "absent", cid |-> Nothing, vol |-> Nothing, lease |-> "none", used |-> FALSE]
Idle == [pc |-> "idle", cid |-> Nothing, vol |-> Nothing]
UserIdle == [pc |-> "idle", env |-> Nothing, cid |-> Nothing, vol |-> Nothing, made |-> FALSE]
RecIdle == [pc |-> "idle", env |-> Nothing, cid |-> Nothing, late |-> FALSE]
SweepIdle == [pass |-> 0, pc |-> "idle", env |-> Nothing,
              todo |-> {}, cid |-> [e \in Envs |-> Nothing]]
FillIdle == [pc |-> "idle", entry |-> Nothing, was |-> "absent", late |-> FALSE]
GcIdle == [kind |-> "none", name |-> Nothing, late |-> FALSE]

Init ==
  /\ tenant = "active"
  /\ env = [e \in Envs |-> Absent]
  /\ pool = [p \in Entries |-> IF p \in Warm THEN "ready" ELSE "absent"]
  /\ cont = [c \in Containers |-> IF c \in Warm THEN [state |-> "running", name |-> c, vol |-> c]
                                  ELSE [state |-> "none", name |-> Nothing, vol |-> Nothing]]
  /\ vol = [v \in Volumes |-> v \in Warm]
  /\ creator = [e \in Envs |-> Idle]
  /\ user = UserIdle /\ rec = RecIdle /\ sweep = SweepIdle
  /\ fill = FillIdle /\ gc = GcIdle
  /\ lost = {}

-----------------------------------------------------------------------------
(* Docker and the tables, as the code uses them. *)

HasRow(e) == env[e].status \notin {"absent", "deleted"}
Exists(c) == c # Nothing /\ cont[c].state \in {"running", "exited"}
Up(c) == c # Nothing /\ cont[c].state = "running"
InUse(v) == \E c \in Containers : Exists(c) /\ cont[c].vol = v

\* Mutant: Docker calls a container that has been stopped "exited".
StoppedByName(c) == IF Up(c) THEN [cont EXCEPT ![c].state = "stopped"] ELSE cont

\* What Docker is like once container c, if there is one, is stopped, or removed.
Stopped(c) == IF Up(c) THEN [cont EXCEPT ![c].state = "exited"] ELSE cont

Removed(c) == IF Exists(c) THEN [cont EXCEPT ![c].state = "gone"] ELSE cont

\* Containers that have never been used; none are left when the bound is reached.
Unused == {c \in Spare : cont[c].state = "none"}

NameTaken(n) == \E c \in Containers : Exists(c) /\ cont[c].name = n

\* RunEnvironment: container c, named after n, on volume v, which Docker creates if it is missing.
Run(c, n, v) ==
  /\ ~NameTaken(n)
  /\ cont' = [cont EXCEPT ![c] = [state |-> "running", name |-> n, vol |-> v]]
  /\ vol' = [vol EXCEPT ![v] = TRUE]

\* StopContainer then RemoveContainer, errors ignored.
Discard(c) ==
  \/ cont' = Removed(c) /\ UNCHANGED lost
  \/ /\ "call" \in Faults /\ Exists(c)
     /\ cont' \in {cont, Stopped(c)}
     /\ lost' = lost \cup {c}

\* RemoveVolume, errors ignored. Docker refuses while a container mounts the volume.
DropVolume(v) ==
  \/ vol' = [w \in Volumes |-> vol[w] /\ (w # v \/ InUse(w))]
  \/ "call" \in Faults /\ UNCHANGED vol

\* DELETE FROM warm_pool WHERE container_id = c, which is no entry if c is a container of its own.
WithoutEntry(c) == [p \in Entries |-> IF p = c THEN "absent" ELSE pool[p]]

\* updateStatus: unconditional, but there may be no row to update.
WithStatus(e, status) == IF HasRow(e) THEN [env EXCEPT ![e].status = status] ELSE env

-----------------------------------------------------------------------------
(* The warm pool: refill prunes rows whose container is gone, then adds entries. *)

Ready == {p \in Entries : pool[p] = "ready"}

\* pruneStaleEntries reads all rows first; what happens to a row and its container before its
\* turn happens here before PruneInspect.
PruneRead(p) ==
  /\ "refill" \in Actors /\ fill = FillIdle
  /\ pool[p] # "absent"
  /\ fill' = [pc |-> "inspect", entry |-> p, was |-> pool[p], late |-> FALSE]
  /\ UNCHANGED <<tenant, env, pool, cont, vol, creator, user, rec, sweep, gc, lost>>

\* A container that is there, or cannot be inspected, keeps its row.
PruneInspect ==
  /\ fill.pc = "inspect"
  /\ \/ ~Exists(fill.entry) /\ fill' = [fill EXCEPT !.pc = "prune"]
     \/ (Exists(fill.entry) \/ "refill" \in Faults) /\ fill' = FillIdle
  /\ UNCHANGED <<tenant, env, pool, cont, vol, creator, user, rec, sweep, gc, lost>>

Prune ==
  /\ fill.pc = "prune"
  /\ pool' = [pool EXCEPT ![fill.entry] = "absent"]
  /\ fill' = IF fill.was = "ready" THEN [fill EXCEPT !.pc = "unvolume"] ELSE FillIdle
  /\ UNCHANGED <<tenant, env, cont, vol, creator, user, rec, sweep, gc, lost>>

PruneVolume ==
  /\ fill.pc = "unvolume"
  /\ DropVolume(fill.entry)
  /\ fill' = FillIdle
  /\ UNCHANGED <<tenant, env, pool, cont, creator, user, rec, sweep, gc, lost>>

FillStart(p) ==
  /\ "refill" \in Actors /\ fill = FillIdle
  /\ pool[p] = "absent" /\ cont[p].state = "none" /\ ~vol[p]
  /\ Cardinality(Ready) < PoolSize
  /\ vol' = [vol EXCEPT ![p] = TRUE]
  /\ fill' = [fill EXCEPT !.pc = "run", !.entry = p]
  /\ UNCHANGED <<tenant, env, pool, cont, creator, user, rec, sweep, gc, lost>>

FillRun ==
  LET p == fill.entry
  IN /\ fill.pc = "run"
     /\ \/ Run(p, p, p) /\ fill' = [fill EXCEPT !.pc = "insert"]
        \/ "refill" \in Faults /\ fill' = [fill EXCEPT !.pc = "unvolume"] /\ UNCHANGED <<cont, vol>>
     /\ UNCHANGED <<tenant, env, pool, creator, user, rec, sweep, gc, lost>>

\* The row is inserted; if that fails, the container and its volume go.
FillInsert ==
  LET p == fill.entry
  IN /\ fill.pc = "insert"
     /\ \/ /\ pool' = [pool EXCEPT ![p] = "ready"]
           /\ fill' = FillIdle
           /\ UNCHANGED <<cont, lost>>
        \/ /\ "refill" \in Faults /\ Discard(p)
           /\ fill' = [fill EXCEPT !.pc = "unvolume"]
           /\ UNCHANGED pool
     /\ UNCHANGED <<tenant, env, vol, creator, user, rec, sweep, gc>>

Refill ==
  \/ \E p \in Entries : PruneRead(p) \/ FillStart(p)
  \/ PruneInspect \/ Prune \/ PruneVolume \/ FillRun \/ FillInsert

-----------------------------------------------------------------------------
(* Create: a row, then a warm container or a cold start, then the commit. *)

At(e, pc) == creator[e].pc = pc
Goto(e, pc) == creator' = [creator EXCEPT ![e].pc = pc]

\* The request passes authentication; the row may be inserted any time later.
CreateBegin(e) ==
  /\ env[e] = Absent /\ At(e, "idle")
  /\ tenant = "active"
  /\ Goto(e, "insert")
  /\ UNCHANGED <<tenant, env, pool, cont, vol, user, rec, sweep, fill, gc, lost>>

\* The quota is part of the INSERT.
Insert(e) ==
  LET held == {d \in Envs : HasRow(d) /\ env[d].status # "failed"}
  IN /\ At(e, "insert")
     /\ IF Cardinality(held) < Quota
          THEN /\ env' = [env EXCEPT ![e] = [Absent EXCEPT !.status = "creating", !.vol = e]]
               /\ Goto(e, "acquire")
          ELSE /\ creator' = [creator EXCEPT ![e] = Idle]
               /\ UNCHANGED env
     /\ UNCHANGED <<tenant, pool, cont, vol, user, rec, sweep, fill, gc, lost>>

\* EnsureNetwork fails.
NoNetwork(e) ==
  /\ "call" \in Faults /\ At(e, "acquire")
  /\ Goto(e, "fail")
  /\ UNCHANGED <<tenant, env, pool, cont, vol, user, rec, sweep, fill, gc, lost>>

\* Mutant: an entry that another environment has claimed is claimed again.
ClaimableAny(p) == pool[p] # "absent"

Claimable(p) == pool[p] = "ready"

\* acquire, one transaction: any ready entry may be the oldest. Without one, or if the row is
\* no longer "creating" or the database fails, the create falls back to a cold start.
Acquire(e) ==
  LET mayClaim == env[e].status = "creating" /\ \E p \in Entries : Claimable(p)
  IN /\ At(e, "acquire")
     /\ \/ \E p \in Entries :
             /\ mayClaim /\ Claimable(p)
             /\ env' = [env EXCEPT ![e].cid = p, ![e].vol = p]
             /\ pool' = [pool EXCEPT ![p] = "claimed"]
             /\ creator' = [creator EXCEPT ![e] = [pc |-> "transfer", cid |-> p, vol |-> p]]
        \/ /\ ~mayClaim \/ "call" \in Faults
           /\ Goto(e, "volume")
           /\ UNCHANGED <<env, pool>>
     /\ UNCHANGED <<tenant, cont, vol, user, rec, sweep, fill, gc, lost>>

\* The warm container changes networks and name.
Transfer(e) ==
  /\ At(e, "transfer")
  /\ \/ /\ Exists(creator[e].cid) /\ ~NameTaken(e)
        /\ cont' = [cont EXCEPT ![creator[e].cid].name = e]
        /\ Goto(e, "commit")
     \/ /\ "call" \in Faults \/ ~Exists(creator[e].cid) \/ NameTaken(e)
        /\ Goto(e, "unclaim")
        /\ UNCHANGED cont
  /\ UNCHANGED <<tenant, env, pool, vol, user, rec, sweep, fill, gc, lost>>

\* A failed transfer: the container goes, then its volume and the two rows' share of it.
Unclaim(e) ==
  /\ At(e, "unclaim")
  /\ Discard(creator[e].cid)
  /\ Goto(e, "reset")
  /\ UNCHANGED <<tenant, env, pool, vol, user, rec, sweep, fill, gc>>

Reset(e) ==
  /\ At(e, "reset")
  /\ DropVolume(creator[e].vol)
  /\ pool' = WithoutEntry(creator[e].cid)
  /\ \/ /\ env' = IF HasRow(e) THEN [env EXCEPT ![e].cid = Nothing, ![e].vol = e] ELSE env
        /\ Goto(e, "volume")
     \/ "call" \in Faults /\ Goto(e, "fail") /\ UNCHANGED env
  /\ UNCHANGED <<tenant, cont, user, rec, sweep, fill, gc, lost>>

MakeVolume(e) ==
  /\ At(e, "volume")
  /\ \/ /\ vol' = [vol EXCEPT ![e] = TRUE]
        /\ creator' = [creator EXCEPT ![e] = [pc |-> "run", cid |-> Nothing, vol |-> e]]
     \/ "call" \in Faults /\ Goto(e, "fail") /\ UNCHANGED vol
  /\ UNCHANGED <<tenant, env, pool, cont, user, rec, sweep, fill, gc, lost>>

\* A failed cold start marks the row failed, then removes the volume.
RunCold(e) ==
  /\ At(e, "run")
  /\ \/ \E c \in Unused :
          /\ Run(c, e, e)
          /\ creator' = [creator EXCEPT ![e].pc = "commit", ![e].cid = c]
          /\ UNCHANGED env
     \/ /\ "call" \in Faults \/ Unused = {} \/ NameTaken(e)
        /\ env' = WithStatus(e, "failed")
        /\ Goto(e, "unvolume")
        /\ UNCHANGED <<cont, vol>>
  /\ UNCHANGED <<tenant, pool, user, rec, sweep, fill, gc, lost>>

RunFailed(e) ==
  /\ At(e, "unvolume")
  /\ DropVolume(e)
  /\ creator' = [creator EXCEPT ![e] = Idle]
  /\ UNCHANGED <<tenant, env, pool, cont, user, rec, sweep, fill, gc, lost>>

\* Mutant: the commit does not ask whether the tenant is still active.
MayCommitSuspended(e, from) == env[e].status = from

\* The guard of the UPDATEs that make a row "running".
MayCommit(e, from) == env[e].status = from /\ tenant = "active"

Committed(e, c) == [env EXCEPT ![e].status = "running", ![e].cid = c, ![e].lease = "live"]

\* used (history) says that the create of the environment has succeeded.
Created(e) == [Committed(e, creator[e].cid) EXCEPT ![e].used = TRUE]

\* One UPDATE. If it changes nothing, or fails, what was created is removed.
Commit(e) ==
  /\ At(e, "commit")
  /\ \/ /\ MayCommit(e, "creating")
        /\ env' = Created(e)
        /\ creator' = [creator EXCEPT ![e] = Idle]
     \/ /\ ~MayCommit(e, "creating")
        /\ Goto(e, "undo")
        /\ UNCHANGED env
     \/ /\ "call" \in Faults
        /\ Goto(e, "undoerror")
        /\ UNCHANGED env
  /\ UNCHANGED <<tenant, pool, cont, vol, user, rec, sweep, fill, gc, lost>>

\* removeCreatedEnvironment: the container, then its pool row and its volume.
UndoContainer(e) ==
  /\ At(e, "undo") \/ At(e, "undoerror")
  /\ Discard(creator[e].cid)
  /\ Goto(e, IF At(e, "undo") THEN "undostorage" ELSE "undoerrorstorage")
  /\ UNCHANGED <<tenant, env, pool, vol, user, rec, sweep, fill, gc>>

\* Mutant: the claimed entry goes without its volume's and container's last owner being gone.
UndoVolumeOnly(e) ==
  /\ At(e, "undostorage") \/ At(e, "undoerrorstorage")
  /\ DropVolume(creator[e].vol)
  /\ Goto(e, IF At(e, "undostorage") THEN "droprow" ELSE "fail")
  /\ UNCHANGED <<tenant, env, pool, cont, user, rec, sweep, fill, gc, lost>>

UndoStorage(e) ==
  /\ At(e, "undostorage") \/ At(e, "undoerrorstorage")
  /\ pool' = WithoutEntry(creator[e].cid)
  /\ DropVolume(creator[e].vol)
  /\ Goto(e, IF At(e, "undostorage") THEN "droprow" ELSE "fail")
  /\ UNCHANGED <<tenant, env, cont, user, rec, sweep, fill, gc, lost>>

\* A suspension has marked the row "stopped": it is stale and goes.
DropRow(e) ==
  /\ At(e, "droprow")
  /\ env' = IF env[e].status = "stopped" THEN [env EXCEPT ![e] = [Absent EXCEPT !.status = "deleted"]] ELSE env
  /\ Goto(e, "fail")
  /\ UNCHANGED <<tenant, pool, cont, vol, user, rec, sweep, fill, gc, lost>>

Fail(e) ==
  /\ At(e, "fail")
  /\ env' = WithStatus(e, "failed")
  /\ creator' = [creator EXCEPT ![e] = Idle]
  /\ UNCHANGED <<tenant, pool, cont, vol, user, rec, sweep, fill, gc, lost>>

Create(e) ==
  \/ Insert(e) \/ NoNetwork(e) \/ Acquire(e) \/ Transfer(e) \/ Unclaim(e) \/ Reset(e)
  \/ MakeVolume(e) \/ RunCold(e) \/ RunFailed(e) \/ Commit(e)
  \/ UndoContainer(e) \/ UndoStorage(e) \/ DropRow(e) \/ Fail(e)

-----------------------------------------------------------------------------
(* Start, Stop and Delete hold the manager's mutex, so one of them runs at a time and reads  *)
(* its row first. A request may be served after its tenant has been suspended.               *)

UserGoto(pc) == user' = [user EXCEPT !.pc = pc]

\* The mutex is taken, the row is read, and its status is checked.
UserBegin(e) ==
  LET takes(pc) == user' = [pc |-> pc, env |-> e, cid |-> env[e].cid, vol |-> env[e].vol, made |-> FALSE]
  IN /\ "user" \in Actors /\ user = UserIdle
     /\ \/ env[e].status = "stopped" /\ takes("hold")
        \/ env[e].status = "running" /\ takes("stop")
        \/ HasRow(e) /\ takes("remove")
     /\ UNCHANGED <<tenant, env, pool, cont, vol, creator, rec, sweep, fill, gc, lost>>

\* Mutant: the lease stays expired while the container is started.
NoHold == user.pc = "hold" /\ UserGoto("start") /\ UNCHANGED env

\* Start moves the lease forward before it starts the container.
Hold ==
  LET e == user.env
  IN /\ user.pc = "hold"
     /\ env' = IF env[e].status = "stopped" THEN [env EXCEPT ![e].lease = "live"] ELSE env
     /\ UserGoto("start")

StartHold ==
  /\ Hold
  /\ rec' = [rec EXCEPT !.late = @ \/ (rec.pc = "stop" /\ rec.env = user.env)]
  /\ UNCHANGED <<tenant, pool, cont, vol, creator, sweep, fill, gc, lost>>

\* The container is started, or made anew on its volume if Docker does not know it any more.
StartContainer ==
  LET c == user.cid
  IN /\ user.pc = "start"
     /\ \/ /\ Exists(c)
           /\ cont' = [cont EXCEPT ![c].state = "running"]
           /\ UserGoto("commit")
           /\ UNCHANGED vol
        \/ /\ c # Nothing /\ ~Exists(c) /\ user.vol # Nothing /\ vol[user.vol]
           /\ \E n \in Unused :
                /\ Run(n, user.env, user.vol)
                /\ user' = [user EXCEPT !.pc = "commit", !.cid = n, !.made = TRUE]
        \/ /\ "call" \in Faults \/ c = Nothing \/ (~Exists(c) /\ (~vol[user.vol] \/ NameTaken(user.env) \/ Unused = {}))
           /\ user' = UserIdle
           /\ UNCHANGED <<cont, vol>>
     /\ UNCHANGED <<tenant, env, pool, creator, rec, sweep, fill, gc, lost>>

\* One UPDATE; it fails, as the restoring of previews may before it, into the undo.
StartCommit ==
  LET e == user.env
  IN /\ user.pc = "commit"
     /\ \/ /\ MayCommit(e, "stopped")
           /\ env' = Committed(e, user.cid)
           /\ user' = UserIdle
        \/ /\ ~MayCommit(e, "stopped") \/ "call" \in Faults
           /\ UserGoto("undo")
           /\ UNCHANGED env
     /\ UNCHANGED <<tenant, pool, cont, vol, creator, rec, sweep, fill, gc, lost>>

\* The container is stopped, and removed if this Start has made it.
StartUndo ==
  /\ user.pc = "undo"
  /\ \/ user.made /\ Discard(user.cid)
     \/ ~user.made /\ cont' = Stopped(user.cid) /\ UNCHANGED lost
     \/ ~user.made /\ "call" \in Faults /\ lost' = lost \cup {user.cid} /\ UNCHANGED cont
  /\ user' = UserIdle
  /\ UNCHANGED <<tenant, env, pool, vol, creator, rec, sweep, fill, gc>>

StopContainer ==
  /\ user.pc = "stop"
  /\ \/ cont' = Stopped(user.cid) /\ UserGoto("write")
     \/ "call" \in Faults /\ user' = UserIdle /\ UNCHANGED cont
  /\ UNCHANGED <<tenant, env, pool, vol, creator, rec, sweep, fill, gc, lost>>

StopWrite ==
  /\ user.pc = "write"
  /\ env' = WithStatus(user.env, "stopped")
  /\ user' = UserIdle
  /\ UNCHANGED <<tenant, pool, cont, vol, creator, rec, sweep, fill, gc, lost>>

\* teardown: container, then pool row and volume, then the row. Failures are left to GC.
DeleteContainer ==
  /\ user.pc = "remove"
  /\ Discard(user.cid)
  /\ UserGoto("storage")
  /\ UNCHANGED <<tenant, env, pool, vol, creator, rec, sweep, fill, gc>>

DeleteStorage ==
  /\ user.pc = "storage"
  /\ pool' = WithoutEntry(user.cid)
  /\ DropVolume(user.vol)
  /\ UserGoto("erase")
  /\ UNCHANGED <<tenant, env, cont, creator, rec, sweep, fill, gc, lost>>

DeleteRow ==
  /\ user.pc = "erase"
  /\ env' = [env EXCEPT ![user.env] = [Absent EXCEPT !.status = "deleted"]]
  /\ user' = UserIdle
  /\ UNCHANGED <<tenant, pool, cont, vol, creator, rec, sweep, fill, gc, lost>>

\* ExtendLease takes no lock: its check and its UPDATE both ask for "running".
ExtendLease(e) ==
  /\ "user" \in Actors
  /\ env[e].status = "running" /\ env[e].lease # "live"
  /\ env' = [env EXCEPT ![e].lease = "live"]
  /\ UNCHANGED <<tenant, pool, cont, vol, creator, user, rec, sweep, fill, gc, lost>>

User ==
  \/ StartHold \/ StartContainer \/ StartCommit \/ StartUndo \/ StopContainer \/ StopWrite
  \/ DeleteContainer \/ DeleteStorage \/ DeleteRow

-----------------------------------------------------------------------------
(* The reconciler. *)

UnchangedButRec == UNCHANGED <<tenant, pool, vol, creator, user, sweep, fill, gc, lost>>

\* A row is read for one of three passes: an environment whose container may be gone, a
\* stopped one whose lease has expired and whose container may run, and one that runs out.
RecRead(e) ==
  LET reads(pc) == rec' = [pc |-> pc, env |-> e, cid |-> env[e].cid, late |-> FALSE]
  IN /\ "reconciler" \in Actors /\ rec = RecIdle
     /\ \/ env[e].status = "running" /\ env[e].cid # Nothing /\ reads("watch")
        \/ /\ env[e].status = "stopped" /\ env[e].lease = "expired" /\ Exists(env[e].cid)
           /\ reads("inspect")
        \/ env[e].status = "running" /\ env[e].lease = "expired" /\ reads("claim")
     /\ UNCHANGED <<env, cont>>
     /\ UnchangedButRec

\* reconcileEnvironments: a container that is gone or has exited; a failing inspect changes nothing.
RecWatch ==
  /\ rec.pc = "watch"
  /\ \/ ~Up(rec.cid) /\ rec' = [rec EXCEPT !.pc = "mark"]
     \/ (Up(rec.cid) \/ "call" \in Faults) /\ rec' = RecIdle
  /\ UNCHANGED <<env, cont>>
  /\ UnchangedButRec

RecMark ==
  LET e == rec.env
  IN /\ rec.pc = "mark"
     /\ env' = IF env[e].status = "running" /\ env[e].cid = rec.cid THEN WithStatus(e, "stopped") ELSE env
     /\ rec' = RecIdle
     /\ UNCHANGED cont
     /\ UnchangedButRec

RecInspect ==
  /\ rec.pc = "inspect"
  /\ \/ Up(rec.cid) /\ rec' = [rec EXCEPT !.pc = "recheck"]
     \/ (~Up(rec.cid) \/ "call" \in Faults) /\ rec' = RecIdle
  /\ UNCHANGED <<env, cont>>
  /\ UnchangedButRec

\* The row is asked for again, by its container.
RecRecheck ==
  LET still == \E e \in Envs : env[e].cid = rec.cid /\ env[e].status = "stopped" /\ env[e].lease = "expired"
  IN /\ rec.pc = "recheck"
     /\ rec' = IF still THEN [rec EXCEPT !.pc = "stop"] ELSE RecIdle
     /\ UNCHANGED <<env, cont>>
     /\ UnchangedButRec

\* The claim repeats what the listing asked for.
MayClaim(e) == env[e].status = "running" /\ env[e].cid = rec.cid /\ env[e].lease = "expired"

RecClaim ==
  LET e == rec.env
  IN /\ rec.pc = "claim"
     /\ IF MayClaim(e)
          THEN env' = WithStatus(e, "stopped") /\ rec' = [rec EXCEPT !.pc = "stop"]
          ELSE rec' = RecIdle /\ UNCHANGED env
     /\ UNCHANGED cont
     /\ UnchangedButRec

\* A failed stop is tried again on later ticks.
RecStop ==
  /\ rec.pc = "stop"
  /\ cont' = Stopped(rec.cid) \/ ("call" \in Faults /\ UNCHANGED cont)
  /\ rec' = RecIdle
  /\ UNCHANGED env
  /\ UnchangedButRec

\* failStaleEnvCreates: a create that takes longer than staleEnvCreateAge, or is no more.
RecFailStale(e) ==
  /\ "reconciler" \in Actors
  /\ env[e].status = "creating"
  /\ env' = WithStatus(e, "failed")
  /\ UNCHANGED <<rec, cont>>
  /\ UnchangedButRec

Reconcile ==
  \/ \E e \in Envs : RecRead(e) \/ RecFailStale(e)
  \/ RecWatch \/ RecMark \/ RecInspect \/ RecRecheck \/ RecClaim \/ RecStop

-----------------------------------------------------------------------------
(* Suspension: StopAllForTenant runs first and last among stopTenantWorkloads. *)

Suspend ==
  /\ "suspension" \in Actors
  /\ tenant = "active" /\ sweep.pc = "idle"
  /\ tenant' = "suspended"
  /\ sweep' = [SweepIdle EXCEPT !.pass = 1, !.pc = "list"]
  /\ UNCHANGED <<env, pool, cont, vol, creator, user, rec, fill, gc, lost>>

Reactivate ==
  /\ tenant = "suspended"
  /\ tenant' = "active"
  /\ sweep' = IF sweep.pc = "idle" THEN SweepIdle ELSE sweep
  /\ UNCHANGED <<env, pool, cont, vol, creator, user, rec, fill, gc, lost>>

UnchangedButSweep == UNCHANGED <<tenant, pool, vol, creator, user, rec, fill, gc>>

SweepList ==
  /\ sweep.pc = "list"
  /\ sweep' = [sweep EXCEPT !.pc = "stop",
                 !.todo = {e \in Envs : env[e].status \in {"running", "creating"}},
                 !.cid = [e \in Envs |-> env[e].cid]]
  /\ UNCHANGED <<env, cont, lost>>
  /\ UnchangedButSweep

\* A container that fails to stop keeps its row as it is.
SweepStop(e) ==
  /\ sweep.pc = "stop" /\ e \in sweep.todo
  /\ \/ /\ cont' = Stopped(sweep.cid[e])
        /\ sweep' = [sweep EXCEPT !.pc = "write", !.env = e, !.todo = @ \ {e}]
        /\ UNCHANGED lost
     \/ /\ "call" \in Faults /\ sweep.cid[e] # Nothing
        /\ sweep' = [sweep EXCEPT !.todo = @ \ {e}]
        /\ lost' = lost \cup {sweep.cid[e]}
        /\ UNCHANGED cont
  /\ UNCHANGED env
  /\ UnchangedButSweep

\* The row is marked whatever its status is by now.
SweepWrite ==
  /\ sweep.pc = "write"
  /\ env' = WithStatus(sweep.env, "stopped")
  /\ sweep' = [sweep EXCEPT !.pc = "stop", !.env = Nothing]
  /\ UNCHANGED <<cont, lost>>
  /\ UnchangedButSweep

\* Pass 3 says that the two passes of the present suspension are done.
SweepNext ==
  /\ sweep.pc = "stop" /\ sweep.todo = {}
  /\ sweep' = IF sweep.pass = 1 THEN [SweepIdle EXCEPT !.pass = 2, !.pc = "list"]
              ELSE [SweepIdle EXCEPT !.pass = IF tenant = "suspended" THEN 3 ELSE 0]
  /\ UNCHANGED <<env, cont, lost>>
  /\ UnchangedButSweep

Sweep == SweepList \/ (\E e \in Envs : SweepStop(e)) \/ SweepWrite \/ SweepNext

-----------------------------------------------------------------------------
(* Garbage collection: what no row owns is listed, then removed. *)

\* The containers of operations that are not over.
InFlight == {creator[e].cid : e \in Envs} \cup {user.cid, fill.entry}

Owned(c) == (\E e \in Envs : HasRow(e) /\ env[e].cid = c) \/ (c \in Entries /\ pool[c] # "absent")

\* Mutant: a pool volume is looked for in warm_pool only.
OwnedByPool(v) ==
  \/ v \in Envs /\ \E e \in Envs : HasRow(e) /\ env[e].vol = v
  \/ v \in Entries /\ pool[v] # "absent"

OwnedVolume(v) == (\E e \in Envs : HasRow(e) /\ env[e].vol = v) \/ (v \in Entries /\ pool[v] # "absent")

\* minResourceAge: a container is old enough once the operation that made it is over.
GcContainer(c) ==
  /\ "gc" \in Actors /\ gc = GcIdle
  /\ Exists(c) /\ ~Owned(c) /\ c \notin InFlight
  /\ gc' = [GcIdle EXCEPT !.kind = "container", !.name = c]
  /\ UNCHANGED <<tenant, env, pool, cont, vol, creator, user, rec, sweep, fill, lost>>

\* Volumes have no minimum age.
GcVolume(v) ==
  /\ "gc" \in Actors /\ gc = GcIdle
  /\ vol[v] /\ ~OwnedVolume(v)
  /\ gc' = [GcIdle EXCEPT !.kind = "volume", !.name = v]
  /\ UNCHANGED <<tenant, env, pool, cont, vol, creator, user, rec, sweep, fill, lost>>

\* RemoveVolumeSafe fails on a volume in use.
GcRemove ==
  /\ gc # GcIdle
  /\ \/ gc.kind = "container" /\ cont' = Removed(gc.name) /\ UNCHANGED vol
     \/ gc.kind = "volume" /\ ~InUse(gc.name) /\ vol' = [vol EXCEPT ![gc.name] = FALSE] /\ UNCHANGED cont
     \/ ("call" \in Faults \/ gc.kind = "volume") /\ UNCHANGED <<cont, vol>>
  /\ gc' = GcIdle
  /\ UNCHANGED <<tenant, env, pool, creator, user, rec, sweep, fill, lost>>

Collect == (\E c \in Containers : GcContainer(c)) \/ (\E v \in Volumes : GcVolume(v)) \/ GcRemove

-----------------------------------------------------------------------------
(* What happens outside. *)

\* A Start is over before the 300 seconds or more that it has held the lease for.
LeaseExpires(e) ==
  /\ env[e].lease = "live" /\ ~(user.env = e /\ user.pc \in {"start", "commit"})
  /\ env' = [env EXCEPT ![e].lease = "expired"]
  /\ UNCHANGED <<tenant, pool, cont, vol, creator, user, rec, sweep, fill, gc, lost>>

\* A container ends for good, or an operator stops it.
Exit(c) ==
  /\ "operator" \in Actors
  /\ Up(c) /\ cont' = Stopped(c)
  /\ UNCHANGED <<tenant, env, pool, vol, creator, user, rec, sweep, fill, gc, lost>>

\* "docker container prune".
DockerPrune(c) ==
  /\ "operator" \in Actors
  /\ Exists(c) /\ ~Up(c)
  /\ cont' = Removed(c)
  /\ fill' = [fill EXCEPT !.late = @ \/ fill.entry = c]
  /\ gc' = [gc EXCEPT !.late = @ \/ (gc.kind = "volume" /\ gc.name = cont[c].vol)]
  /\ UNCHANGED <<tenant, env, pool, vol, creator, user, rec, sweep, lost>>

\* The process restarts: every goroutine is gone, with what it knew.
Crash ==
  /\ "crash" \in Faults
  /\ creator' = [e \in Envs |-> Idle]
  /\ user' = UserIdle /\ rec' = RecIdle /\ fill' = FillIdle /\ gc' = GcIdle
  /\ sweep' = IF sweep.pc = "idle" THEN sweep ELSE SweepIdle
  /\ lost' = lost \cup {c \in InFlight \ {Nothing} : Exists(c)}
  /\ UNCHANGED <<tenant, env, pool, cont, vol>>

Next ==
  \/ \E e \in Envs : CreateBegin(e) \/ Create(e) \/ LeaseExpires(e)
  \/ \E e \in Envs : UserBegin(e) \/ ExtendLease(e)
  \/ User \/ Reconcile \/ Refill \/ Collect
  \/ Suspend \/ Reactivate \/ Sweep
  \/ \E c \in Containers : Exit(c) \/ DockerPrune(c)
  \/ Crash

Spec == Init /\ [][Next]_vars

-----------------------------------------------------------------------------
(* Properties. *)

\* Rows, containers, volumes and goroutines keep their types.
TypeOK ==
  /\ tenant \in {"active", "suspended"}
  /\ env \in [Envs -> [status : Statuses, cid : Containers \cup {Nothing},
                       vol : Volumes \cup {Nothing}, lease : {"none", "live", "expired"}, used : BOOLEAN]]
  /\ pool \in [Entries -> {"absent", "ready", "claimed"}]
  /\ cont \in [Containers -> [state : {"none", "running", "exited", "gone"},
                              name : Volumes \cup {Nothing}, vol : Volumes \cup {Nothing}]]
  /\ vol \in [Volumes -> BOOLEAN]
  /\ \A e \in Envs : creator[e].cid \in Containers \cup {Nothing}
  /\ user.env \in Envs \cup {Nothing} /\ user.cid \in Containers \cup {Nothing}
  /\ rec.env \in Envs \cup {Nothing} /\ rec.cid \in Containers \cup {Nothing}
  /\ sweep.todo \subseteq Envs /\ sweep.pass \in 0 .. 3
  /\ lost \subseteq Containers

\* pool.go, acquire: a warm container is claimed once. No container or workspace has two owners,
\* whatever claims, fallbacks, crashes and deletions happen at once.
OneOwner ==
  /\ \A e, d \in Envs :
       e # d => (env[e].cid # Nothing => env[e].cid # env[d].cid)
                /\ (env[e].vol # Nothing => env[e].vol # env[d].vol)
  /\ \A e \in Envs : env[e].cid \in Entries => pool[env[e].cid] # "ready"

\* The containers that GC cannot collect and nothing else will: the pool row keeps them alive.
Hidden(p) == pool[p] = "claimed" /\ Exists(p) /\ ~\E e \in Envs : HasRow(e) /\ env[e].cid = p

\* Whatever fails, crashes or is suspended, a claimed container keeps its environment's row until
\* its pool row is gone, so that GC collects what could not be removed. The exception is a
\* Delete that has read the row before the create had claimed the container.
ClaimedStaysOwned ==
  [][\A p \in Entries : ~Hidden(p) /\ Hidden(p)' => user.pc = "erase" /\ user.cid = Nothing]_vars

\* teardown leaves "any leftovers to GC", and acquire says that a claimed container always has an
\* owning row: once its create is over, no container is hidden from GC for ever.
LeftoversReachGc ==
  \A p \in Entries : Hidden(p) => \E e \in Envs : creator[e].cid = p

\* create and Start promise it: a suspension that races with them leaves nothing running. Once
\* both passes are done no row of the tenant is "running" with a container, or becomes so, unless
\* that container could not be stopped.
SuspendedNotRunning ==
  tenant = "suspended" /\ sweep.pass = 3 =>
    \A e \in Envs : env[e].status = "running" => env[e].cid \in lost \cup {Nothing}

\* The workspace of an environment whose create has succeeded goes.
WorkspaceGoes(e) ==
  LET v == env[e].vol
  IN env[e].status \in {"running", "stopped"} /\ env[e].used /\ vol[v] /\ ~vol'[v]

ItsDelete(e) == user.env = e /\ user.pc \in {"storage", "erase"}

\* pool.go, pruneStaleEntries: a claimed entry's volume belongs to its environment. Once the create
\* of an environment has succeeded, its workspace is removed by its Delete only, while creates,
\* refill, GC, suspensions and starts act on the same volumes: Docker keeps the volume of a
\* container, and the rows keep that of one that is gone. There is one exception: refill and GC go
\* by what they listed, and free a volume that has been claimed and has lost its container to an
\* operator since.
WorkspaceKept ==
  [][\A e \in Envs : WorkspaceGoes(e) =>
       ItsDelete(e) \/ (fill.late /\ fill' = FillIdle) \/ (gc.late /\ gc' = GcIdle)]_vars

\* reconciler.go, expireLeases: "a concurrent renewal wins cleanly and is never followed by a stop".
\* The reconciler stops no container whose environment has a live lease, whatever Start, renewal,
\* expiry and suspension do, with one exception: a Start that begins after the reconciler has
\* decided is followed by that stop. (The row of a create that has failed is not asked about: a
\* suspension may bring it back, and its Start does not hold it.)
RenewalWins ==
  [][rec.pc = "stop" /\ cont' # cont /\ rec' = RecIdle =>
       rec.late \/ ~(env[rec.env].used /\ env[rec.env].lease = "live")]_vars

=============================================================================
