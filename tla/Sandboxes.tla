------------------------------- MODULE Sandboxes -------------------------------
(***************************************************************************)
(* A tenant's disposable sandboxes: the create they share with dev         *)
(* environments, DELETE, ExtendSandbox, the reaper and its disk watchdog,  *)
(* the deletion of egress sandboxes at startup, and what the reconciler    *)
(* and a suspension of the tenant do to their rows.                        *)
(*                                                                         *)
(* Time is two fields of a row.  lease: lease_expires_at is not set, is to *)
(* come, or has lapsed; with a clock that does not go back it stays        *)
(* lapsed, as ExtendSandbox refuses it.  old: updated_at is further back   *)
(* than the age the reader of the row's status compares it with.           *)
(***************************************************************************)
EXTENDS Naturals

CONSTANTS
  Sandboxes,     \* the ids of the sandboxes ever created
  MaxSuspensions,\* bound: suspensions of the tenant
  MaxCrashes,    \* bound: crashes of ah
  MaxFaults,     \* bound: Docker calls that fail
  EgressOff      \* whether ah comes back from a crash with sandbox egress disabled

SandboxesAssumption ==
  /\ "none" \notin Sandboxes
  /\ MaxSuspensions \in Nat /\ MaxCrashes \in Nat /\ MaxFaults \in Nat

VARIABLES
  active,    \* tenants.status = 'active'
  row,       \* the environments row of each sandbox
  cont,      \* Docker: its container is running, exited or missing
  vol,       \* Docker: whether its workspace volume exists
  creator,   \* where create is for the sandbox
  deleter,   \* DELETE of a sandbox, one call per sandbox
  reaper,    \* the goroutine of RunSandboxReaper, and ah's startup before it
  expirer,   \* the reconciler's expireLeases and, history, the sandboxes it has marked stopped
             \* and not stopped yet
  sweep,     \* StopAllForTenant, which a suspension runs twice: whether it runs again, and,
             \* history, whose row it marked stopped before it had seen the container
  left,      \* history: sandboxes that a best-effort cleanup or a crash may have left
  faults, suspensions, crashes   \* bounds

world == <<cont, vol, left, faults>>
callVars == <<creator, deleter, reaper, expirer, sweep>>
vars == <<active, row, world, callVars, suspensions, crashes>>

None == "none"
NoRow == [status |-> "none", known |-> FALSE, lease |-> "none", old |-> FALSE, egress |-> FALSE]
IdleExpirer == [pc |-> "idle", s |-> None, unstopped |-> {}]
IdleReaper == [pc |-> "next", todo |-> {}, s |-> None]
NoSweep == [pc |-> "idle", todo |-> {}, again |-> FALSE, missed |-> {}]

Statuses == {"creating", "running", "stopped", "failed", "deleting"}
TeardownSteps == {"get", "container", "volume", "row"}

TypeOK ==
  /\ active \in BOOLEAN
  /\ row \in [Sandboxes -> [status : Statuses \cup {"none"}, known : BOOLEAN,
                            lease : {"none", "live", "lapsed"}, old : BOOLEAN, egress : BOOLEAN]]
  /\ cont \in [Sandboxes -> {"none", "running", "exited"}]
  /\ vol \in [Sandboxes -> BOOLEAN]
  /\ creator \in [Sandboxes -> {"new", "acquire", "transfer", "unclaim", "reset", "image", "run",
                              "volume", "commit", "undo", "undovol", "drop", "mark",
                              "undoerr", "undoerrvol", "fail", "done"}]
  /\ deleter \in [Sandboxes -> {"idle"} \cup TeardownSteps]
  /\ reaper \in [pc : {"boot", "next", "watch"} \cup TeardownSteps,
                 todo : SUBSET Sandboxes, s : Sandboxes \cup {None}]
  /\ expirer \in [pc : {"idle", "stop"}, s : Sandboxes \cup {None}, unstopped : SUBSET Sandboxes]
  /\ sweep \in [pc : {"idle", "select", "next"}, todo : SUBSET [s : Sandboxes, known : BOOLEAN],
                again : BOOLEAN, missed : SUBSET Sandboxes]
  /\ left \subseteq Sandboxes

Init ==
  /\ active = TRUE
  /\ row = [s \in Sandboxes |-> NoRow]
  /\ cont = [s \in Sandboxes |-> "none"]
  /\ vol = [s \in Sandboxes |-> FALSE]
  /\ creator = [s \in Sandboxes |-> "new"]
  /\ deleter = [s \in Sandboxes |-> "idle"]
  /\ reaper = IdleReaper
  /\ expirer = IdleExpirer
  /\ sweep = NoSweep
  /\ left = {}
  /\ faults = 0 /\ suspensions = 0 /\ crashes = 0

-----------------------------------------------------------------------------

Is(s, status) == row[s].status = status
Write(s, status) ==
  row' = [row EXCEPT ![s] = IF Is(s, "none") THEN @ ELSE [@ EXCEPT !.status = status, !.old = FALSE]]

Fault == faults < MaxFaults /\ faults' = faults + 1

Goto(s, pc) == creator' = [creator EXCEPT ![s] = pc]
Step(s, from) == creator[s] = from /\ UNCHANGED <<active, deleter, reaper, expirer, sweep, suspensions, crashes>>

\* The insert counts the tenant's and the host's sandboxes; a refused one never existed.
Insert(s) ==
  /\ Step(s, "new") /\ active
  /\ \E egress \in BOOLEAN :
       /\ egress => ~EgressOff \/ crashes = 0
       /\ row' = [row EXCEPT ![s] = [NoRow EXCEPT !.status = "creating", !.egress = egress]]
  /\ Goto(s, "acquire")
  /\ UNCHANGED world

\* The tenant's network, whose failure writes 'failed' over anything, and the warm pool, which
\* gives its container and its volume to a row that is still creating.
Acquire(s) ==
  /\ Step(s, "acquire")
  /\ \/ /\ Is(s, "creating") /\ ~row[s].egress
        /\ row' = [row EXCEPT ![s].known = TRUE]
        /\ cont' = [cont EXCEPT ![s] = "running"]
        /\ vol' = [vol EXCEPT ![s] = TRUE]
        /\ Goto(s, "transfer") /\ UNCHANGED <<left, faults>>
     \/ Goto(s, "image") /\ UNCHANGED <<row, world>>
     \/ /\ ~row[s].egress /\ Fault
        /\ Write(s, "failed") /\ Goto(s, "done")
        /\ UNCHANGED <<cont, vol, left>>

\* The warm container's networks and name; a deletion may have removed it.
Transfer(s) ==
  /\ Step(s, "transfer")
  /\ \/ cont[s] # "none" /\ Goto(s, "commit") /\ faults' = faults
     \/ cont[s] = "none" /\ Goto(s, "unclaim") /\ faults' = faults
     \/ Fault /\ Goto(s, "unclaim")
  /\ UNCHANGED <<row, cont, vol, left>>

\* Best effort; what it leaves of the pool is no longer the sandbox's.
Unclaim(s) ==
  /\ Step(s, "unclaim")
  /\ cont' = [cont EXCEPT ![s] = "none"]
  /\ vol' = [vol EXCEPT ![s] = FALSE]
  /\ \/ UNCHANGED <<left, faults>>
     \/ Fault /\ left' = left \cup {s}
  /\ Goto(s, "reset") /\ row' = row

\* The row forgets the warm container, and create starts cold; whoever has read its id or its
\* volume's name before finds nothing there from now on.
Reset(s) ==
  /\ creator[s] = "reset"
  /\ \/ /\ row' = [row EXCEPT ![s].known = FALSE]
        /\ Goto(s, "image") /\ faults' = faults
        /\ deleter' = [deleter EXCEPT ![s] = IF @ \in {"container", "volume"} THEN "row" ELSE @]
        /\ reaper' = IF reaper.s = s /\ reaper.pc \in {"container", "volume"}
                     THEN [reaper EXCEPT !.pc = "row"] ELSE reaper
        /\ sweep' = [sweep EXCEPT !.todo = {[s |-> e.s, known |-> e.known /\ e.s # s] : e \in @}]
     \/ /\ Fault
        /\ Write(s, "failed") /\ Goto(s, "done")
        /\ UNCHANGED <<deleter, reaper, sweep>>
  /\ UNCHANGED <<active, cont, vol, left, expirer, suspensions, crashes>>

\* prepareSandboxImage and the volume; a failure writes 'failed' over anything.
Prepare(s) ==
  /\ Step(s, "image")
  /\ \/ /\ vol' = [vol EXCEPT ![s] = TRUE]
        /\ Goto(s, "run") /\ UNCHANGED <<row, cont, left, faults>>
     \/ /\ Fault
        /\ Write(s, "failed") /\ Goto(s, "done")
        /\ UNCHANGED <<cont, vol, left>>

\* RunEnvironment; Docker makes a volume that is missing.
RunEnvironment(s) ==
  /\ Step(s, "run")
  /\ \/ /\ cont' = [cont EXCEPT ![s] = "running"]
        /\ vol' = [vol EXCEPT ![s] = TRUE]
        /\ Goto(s, "commit") /\ UNCHANGED <<row, left, faults>>
     \/ /\ Fault
        /\ Write(s, "failed") /\ Goto(s, "volume")
        /\ UNCHANGED <<cont, vol, left>>

\* Only a 'creating' row of an active tenant becomes running.  Its lease counts from the
\* insert: a slow pull may have used it up, and updated_at goes back with it.
Commit(s) ==
  /\ Step(s, "commit")
  /\ \/ /\ Is(s, "creating") /\ active
        /\ \E late \in BOOLEAN :
             row' = [row EXCEPT ![s] = [@ EXCEPT !.status = "running", !.known = TRUE, !.old = late,
                                                 !.lease = IF late THEN "lapsed" ELSE "live"]]
        /\ Goto(s, "done") /\ faults' = faults
     \/ /\ ~(Is(s, "creating") /\ active)
        /\ Goto(s, "undo") /\ UNCHANGED <<row, faults>>
     \/ /\ Fault
        /\ Goto(s, "undoerr") /\ row' = row
  /\ UNCHANGED <<cont, vol, left>>

\* removeCreatedEnvironment, best effort.
UndoContainer(s) ==
  /\ \/ Step(s, "undo") /\ Goto(s, "undovol")
     \/ Step(s, "undoerr") /\ Goto(s, "undoerrvol")
  /\ \/ cont' = [cont EXCEPT ![s] = "none"] /\ UNCHANGED <<left, faults>>
     \/ Fault /\ left' = left \cup {s} /\ UNCHANGED cont
  /\ UNCHANGED <<row, vol>>

UndoVolume(s) ==
  /\ \/ Step(s, "undovol") /\ Goto(s, "drop")
     \/ Step(s, "undoerrvol") /\ Goto(s, "fail")
     \/ Step(s, "volume") /\ Goto(s, "done")
  /\ \/ /\ cont[s] = "none"
        /\ vol' = [vol EXCEPT ![s] = FALSE] /\ UNCHANGED <<left, faults>>
     \/ /\ cont[s] # "none" \/ Fault
        /\ left' = left \cup {s} /\ vol' = vol
        /\ cont[s] # "none" => faults' = faults
  /\ UNCHANGED <<row, cont>>

\* A row the suspension marked stopped is deleted; one still creating has failed.
Drop(s) ==
  /\ Step(s, "drop")
  /\ row' = [row EXCEPT ![s] = IF Is(s, "stopped") THEN NoRow ELSE @]
  /\ Goto(s, "mark")
  /\ UNCHANGED world

\* After an error of the final write, 'failed' goes over anything.
MarkFailed(s) ==
  /\ Step(s, "mark") \/ Step(s, "fail")
  /\ IF creator[s] = "fail" \/ Is(s, "creating") THEN Write(s, "failed") ELSE row' = row
  /\ Goto(s, "done")
  /\ UNCHANGED world

CreateSandbox(s) ==
  \/ Insert(s) \/ Acquire(s) \/ Transfer(s) \/ Unclaim(s) \/ Reset(s)
  \/ Prepare(s) \/ RunEnvironment(s) \/ Commit(s)
  \/ UndoContainer(s) \/ UndoVolume(s) \/ Drop(s) \/ MarkFailed(s)

-----------------------------------------------------------------------------
(* The strict teardown, by "DELETE" or by the "reaper"; "idle" ends it. *)

At(who, s, pc) == IF who = "DELETE" THEN deleter[s] = pc ELSE reaper.s = s /\ reaper.pc = pc

MoveDeleter(s, pc) == deleter' = [deleter EXCEPT ![s] = pc]

\* The reaper goes on to the next sandbox of its list.
MoveReaper(pc) ==
  reaper' = IF pc = "idle" THEN [reaper EXCEPT !.pc = "next", !.s = None]
                           ELSE [reaper EXCEPT !.pc = pc]

Move(who, s, pc) == IF who = "DELETE" THEN MoveDeleter(s, pc) ELSE MoveReaper(pc)

\* teardownSandbox reads the row; one that is gone ends it.
Get(who, s) ==
  /\ At(who, s, "get")
  /\ Move(who, s, IF Is(s, "none") THEN "idle" ELSE "container")
  /\ UNCHANGED <<row, world>>

\* By its id, or by its name when create has not recorded it: both are the same container.
RemoveContainer(who, s) ==
  /\ At(who, s, "container")
  /\ \/ cont' = [cont EXCEPT ![s] = "none"] /\ Move(who, s, "volume") /\ faults' = faults
     \/ cont[s] # "none" /\ Fault /\ Move(who, s, "idle") /\ cont' = cont
  /\ UNCHANGED <<row, vol, left>>

\* Mutant: the error of the volume's removal is dropped, and the row goes too.
RemoveVolumeAnyway(who, s) ==
  /\ At(who, s, "volume")
  /\ \/ cont[s] = "none" /\ vol' = [vol EXCEPT ![s] = FALSE] /\ Move(who, s, "row") /\ faults' = faults
     \/ cont[s] # "none" /\ Move(who, s, "idle") /\ UNCHANGED <<vol, faults>>
     \/ vol[s] /\ Fault /\ Move(who, s, "row") /\ vol' = vol
  /\ UNCHANGED <<row, cont, left>>

\* Docker refuses the volume of a container that has been made meanwhile.
RemoveVolume(who, s) ==
  /\ At(who, s, "volume")
  /\ \/ cont[s] = "none" /\ vol' = [vol EXCEPT ![s] = FALSE] /\ Move(who, s, "row") /\ faults' = faults
     \/ cont[s] # "none" /\ Move(who, s, "idle") /\ UNCHANGED <<vol, faults>>
     \/ vol[s] /\ Fault /\ Move(who, s, "idle") /\ vol' = vol
  /\ UNCHANGED <<row, cont, left>>

DeleteRow(who, s) ==
  /\ At(who, s, "row")
  /\ row' = [row EXCEPT ![s] = NoRow]
  /\ Move(who, s, "idle")
  /\ UNCHANGED world

Teardown(who, s) == Get(who, s) \/ RemoveContainer(who, s) \/ RemoveVolume(who, s) \/ DeleteRow(who, s)

-----------------------------------------------------------------------------
(* DELETE and extend. *)

\* The claim of DELETE asks for nothing but the row.
ClaimDelete(s) ==
  /\ active /\ deleter[s] = "idle" /\ ~Is(s, "none")
  /\ Write(s, "deleting")
  /\ MoveDeleter(s, "get")
  /\ UNCHANGED <<active, world, creator, reaper, expirer, sweep, suspensions, crashes>>

DeleteStep(s) ==
  /\ Teardown("DELETE", s)
  /\ UNCHANGED <<active, creator, reaper, expirer, sweep, suspensions, crashes>>

\* One guarded statement.  The end of an exec writes updated_at of any row.
ExtendSandbox(s) ==
  /\ active /\ Is(s, "running") /\ row[s].lease = "live" /\ row[s].old
  /\ row' = [row EXCEPT ![s].old = FALSE]
  /\ UNCHANGED <<active, world, callVars, suspensions, crashes>>

-----------------------------------------------------------------------------
(* The reaper, its watchdog, and the startup. *)

\* Mutant: a deletion that was interrupted is not taken up again.
ReapableOnce(s) ==
  \/ row[s].status \in {"running", "stopped"} /\ row[s].lease = "lapsed"
  \/ row[s].status \in {"stopped", "failed"} /\ row[s].old

Reapable(s) ==
  \/ row[s].status \in {"running", "stopped"} /\ row[s].lease = "lapsed"
  \/ row[s].status \in {"stopped", "failed", "deleting"} /\ row[s].old

OthersOfReaper == UNCHANGED <<active, creator, deleter, expirer, sweep, suspensions, crashes>>

SelectToReap ==
  /\ reaper.pc = "next" /\ reaper.todo = {} /\ \E s \in Sandboxes : Reapable(s)
  /\ reaper' = [reaper EXCEPT !.todo = {s \in Sandboxes : Reapable(s)}]
  /\ OthersOfReaper /\ UNCHANGED <<row, world>>

\* The claim re-checks the predicate of the selection.
ClaimToReap(s) ==
  /\ reaper.pc = "next" /\ s \in reaper.todo
  /\ IF Reapable(s)
     THEN /\ Write(s, "deleting")
          /\ reaper' = [reaper EXCEPT !.pc = "get", !.todo = @ \ {s}, !.s = s]
     ELSE /\ reaper' = [reaper EXCEPT !.todo = @ \ {s}]
          /\ row' = row
  /\ OthersOfReaper /\ UNCHANGED world

ReapStep ==
  /\ \E s \in Sandboxes : Teardown("reaper", s)
  /\ OthersOfReaper

\* DeleteSandboxesForDiskPressure: the disk may be full at any tick, and the largest running
\* sandbox any of them.
WatchDisk(s) ==
  /\ reaper.pc = "next" /\ reaper.todo = {} /\ Is(s, "running")
  /\ reaper' = [reaper EXCEPT !.pc = "watch", !.s = s]
  /\ OthersOfReaper /\ UNCHANGED <<row, world>>

ClaimForPressure(s) ==
  /\ reaper.pc = "watch" /\ reaper.s = s
  /\ IF Is(s, "running")
     THEN Write(s, "deleting") /\ MoveReaper("get")
     ELSE reaper' = IdleReaper /\ row' = row
  /\ OthersOfReaper /\ UNCHANGED world

ToDeleteAtStart(s) == EgressOff /\ ~Is(s, "none") /\ row[s].egress

\* DeleteEgressSandboxesIfDisabled, before anything else runs.
StartUp ==
  /\ reaper.pc = "boot"
  /\ reaper' = [IdleReaper EXCEPT !.pc = "next", !.todo = {s \in Sandboxes : ToDeleteAtStart(s)}]
  /\ row' = [s \in Sandboxes |-> IF ToDeleteAtStart(s)
                                 THEN [row[s] EXCEPT !.status = "deleting", !.old = TRUE]
                                 ELSE row[s]]
  /\ OthersOfReaper /\ UNCHANGED world

Reaper ==
  \/ SelectToReap \/ ReapStep \/ StartUp
  \/ \E s \in Sandboxes : ClaimToReap(s) \/ WatchDisk(s) \/ ClaimForPressure(s)

-----------------------------------------------------------------------------
(* The reconciler and the suspension, which treat sandboxes as environments. *)

\* reconcileEnvironments: a running row whose container is not there.
ReconcileGone(s) ==
  /\ Is(s, "running") /\ cont[s] # "running"
  /\ Write(s, "stopped")
  /\ UNCHANGED <<active, world, callVars, suspensions, crashes>>

\* failStaleEnvCreates.
FailStaleCreate(s) ==
  /\ Is(s, "creating") /\ row[s].old
  /\ Write(s, "failed")
  /\ UNCHANGED <<active, world, callVars, suspensions, crashes>>

\* expireLeases marks a running row whose lease has lapsed and stops the container after it; a
\* stop that failed, or that a crash cut off, is made up for by a later tick.
OthersOfExpirer == UNCHANGED <<active, vol, left, creator, deleter, reaper, sweep, suspensions, crashes>>

ExpireClaim(s) ==
  /\ expirer.pc = "idle" /\ Is(s, "running") /\ row[s].lease = "lapsed"
  /\ Write(s, "stopped")
  /\ expirer' = [pc |-> "stop", s |-> s, unstopped |-> expirer.unstopped \cup {s}]
  /\ OthersOfExpirer /\ UNCHANGED <<cont, faults>>

ExpireRetry(s) ==
  /\ expirer.pc = "idle" /\ Is(s, "stopped") /\ row[s].known /\ row[s].lease = "lapsed"
  /\ cont[s] = "running"
  /\ expirer' = [expirer EXCEPT !.pc = "stop", !.s = s]
  /\ OthersOfExpirer /\ UNCHANGED <<row, cont, faults>>

ExpireStop(s) ==
  /\ expirer.pc = "stop" /\ expirer.s = s
  /\ \/ /\ cont' = [cont EXCEPT ![s] = IF @ = "running" THEN "exited" ELSE @]
        /\ expirer' = [pc |-> "idle", s |-> None, unstopped |-> expirer.unstopped \ {s}]
        /\ faults' = faults
     \/ /\ Fault
        /\ expirer' = [expirer EXCEPT !.pc = "idle", !.s = None]
        /\ cont' = cont
  /\ OthersOfExpirer /\ row' = row

OthersOfSweep == UNCHANGED <<creator, deleter, reaper, expirer, crashes>>

\* Bound: the sweep of one suspension has ended before the next suspension.
Suspend ==
  /\ active /\ suspensions < MaxSuspensions /\ sweep.pc = "idle"
  /\ active' = FALSE /\ suspensions' = suspensions + 1
  /\ sweep' = [sweep EXCEPT !.pc = "select"]
  /\ OthersOfSweep /\ UNCHANGED <<row, world>>

SweepSelect ==
  /\ \/ sweep.pc = "select"
     \/ sweep.pc = "next" /\ sweep.todo = {} /\ sweep.again
  /\ sweep' = [sweep EXCEPT
       !.pc = "next", !.again = sweep.pc = "select",
       !.todo = {[s |-> s, known |-> row[s].known] :
                   s \in {b \in Sandboxes : row[b].status \in {"creating", "running"}}}]
  /\ OthersOfSweep /\ UNCHANGED <<active, row, world, suspensions>>

\* The container that a sweep neither saw nor stops.
Overlooked(e) == {s \in {e.s} : ~e.known /\ creator[s] = "done" /\ cont[s] = "running"}

\* Stop the container, if the row had one, and mark the row stopped whatever it is by now: after
\* a reactivation that may be a sandbox that has been committed since.
SweepStop(e) ==
  /\ sweep.pc = "next"
  /\ \/ /\ cont' = [cont EXCEPT ![e.s] = IF e.known /\ @ = "running" THEN "exited" ELSE @]
        /\ Write(e.s, "stopped") /\ UNCHANGED <<left, faults>>
        /\ sweep' = [sweep EXCEPT !.todo = @ \ {e}, !.missed = @ \cup Overlooked(e)]
     \/ /\ e.known /\ Fault
        /\ left' = left \cup {e.s} /\ UNCHANGED <<row, cont>>
        /\ sweep' = [sweep EXCEPT !.todo = @ \ {e}]
  /\ OthersOfSweep /\ UNCHANGED <<active, vol, suspensions>>

SweepEnd ==
  /\ sweep.pc = "next" /\ sweep.todo = {} /\ ~sweep.again
  /\ sweep' = [sweep EXCEPT !.pc = "idle"]
  /\ OthersOfSweep /\ UNCHANGED <<active, row, world, suspensions>>

Reactivate ==
  /\ ~active /\ active' = TRUE
  /\ OthersOfSweep /\ UNCHANGED <<row, world, sweep, suspensions>>

StopAllForTenant == SweepSelect \/ SweepEnd \/ \E e \in sweep.todo : SweepStop(e)

-----------------------------------------------------------------------------
(* Time, Docker and crashes. *)

Age(s) ==
  /\ ~Is(s, "none") /\ ~row[s].old
  /\ row' = [row EXCEPT ![s].old = TRUE]
  /\ UNCHANGED <<active, world, callVars, suspensions, crashes>>

Lapse(s) ==
  /\ row[s].lease = "live"
  /\ row' = [row EXCEPT ![s].lease = "lapsed"]
  /\ UNCHANGED <<active, world, callVars, suspensions, crashes>>

Exit(s) ==
  /\ cont[s] = "running"
  /\ cont' = [cont EXCEPT ![s] = "exited"]
  /\ UNCHANGED <<active, row, vol, left, faults, callVars, suspensions, crashes>>

Crash ==
  /\ crashes < MaxCrashes
  /\ crashes' = crashes + 1
  /\ creator' = [s \in Sandboxes |-> IF creator[s] = "new" THEN "new" ELSE "done"]
  /\ deleter' = [s \in Sandboxes |-> "idle"]
  /\ reaper' = [IdleReaper EXCEPT !.pc = "boot"]
  /\ expirer' = [IdleExpirer EXCEPT !.unstopped = expirer.unstopped]
  /\ sweep' = [NoSweep EXCEPT !.missed = sweep.missed]
  /\ left' = left \cup {s \in Sandboxes : \/ creator[s] \notin {"new", "done"}
                                          \/ sweep.pc # "idle"}
  /\ UNCHANGED <<active, row, cont, vol, faults, suspensions>>

Booting == reaper.pc = "boot"

Next ==
  \/ ~Booting /\ \E s \in Sandboxes :
       \/ CreateSandbox(s) \/ ClaimDelete(s) \/ DeleteStep(s) \/ ExtendSandbox(s)
       \/ ReconcileGone(s) \/ FailStaleCreate(s) 
       \/ ExpireClaim(s) \/ ExpireRetry(s) \/ ExpireStop(s)
  \/ Reaper
  \/ ~Booting /\ (Suspend \/ StopAllForTenant \/ Reactivate)
  \/ Crash
  \/ \E s \in Sandboxes : Age(s) \/ Lapse(s) \/ Exit(s)

\* Goroutines run on, the reaper and the reconciler tick, and time passes.
Fairness ==
  /\ \A s \in Sandboxes :
       /\ WF_vars(~Booting /\ CreateSandbox(s)) /\ WF_vars(~Booting /\ DeleteStep(s))
       /\ WF_vars(Age(s)) /\ WF_vars(~Booting /\ FailStaleCreate(s))
  /\ WF_vars(Reaper)

Spec == Init /\ [][Next]_vars /\ Fairness

-----------------------------------------------------------------------------
(* Properties. *)

\* Strict teardown: once a sandbox has no row and its create has returned, neither a
\* container nor a volume is left, whoever deleted it and however often; except what a
\* best-effort cleanup or a crash left for GC.
RowGoneNothingLeft ==
  \A s \in Sandboxes :
    Is(s, "none") /\ creator[s] = "done" /\ (cont[s] # "none" \/ vol[s]) => s \in left

\* Once a suspension has swept, no sandbox of the tenant runs, except one that is being deleted,
\* where the sweep or a cleanup failed, and where a row says "stopped" too early, which the
\* suspension does not list: a sweep that a reactivation had overtaken wrote it over a sandbox that
\* was committed meanwhile, or the expiry of the lease wrote it and has not stopped it yet.
SuspendedSandboxesStopped ==
  \A s \in Sandboxes :
    ~active /\ sweep.pc = "idle" /\ creator[s] = "done" /\ cont[s] = "running"
      => s \in left \cup sweep.missed \cup expirer.unstopped \/ Is(s, "deleting")

\* What either way to end a sandbox promises: the deletion and the suspension.
SandboxesCleared == RowGoneNothingLeft /\ SuspendedSandboxesStopped

\* A sandbox whose deletion was asked for, or whose lease has run out, is torn down in the
\* end, however its create, its DELETE, the reaper, the reconciler and a suspension overlap,
\* whatever they write over its status, and after any finite number of failures and crashes.
SandboxesEnd == \A s \in Sandboxes : Is(s, "deleting") \/ row[s].lease = "lapsed" ~> Is(s, "none")

=============================================================================
