-------------------------------- MODULE Kanbans --------------------------------
(***************************************************************************)
(* kanbans.Manager for one tenant, which has at most one board: Create     *)
(* with its background provisioning, the in-place restart of a failed      *)
(* board, Delete, what a suspension and a reactivation do to the board,    *)
(* GC, and a crash of ah followed by ReconcileStale.                       *)
(*                                                                         *)
(* Every Create has an id to give to the board it makes, so a board is     *)
(* named by its Create.  A port taken by another tenant's board is a       *)
(* refused insert or update.                                               *)
(***************************************************************************)
EXTENDS Naturals

CONSTANTS
  Creates,         \* calls of Create, and the ids they generate
  MaxRuns,         \* bound: containers created for one board
  MaxSuspensions,  \* bound: suspensions of the tenant
  MaxCrashes,      \* bound: crashes of ah
  Faults           \* whether Docker calls and database writes may fail

VARIABLES
  active,     \* tenants.status = 'active'
  row,        \* the tenant's row of kanbans; token says whether credentials are stored
  cont,       \* Docker: the id of the container that has the board's name, or 0
  runs,       \* Docker: ids given out
  vol,        \* Docker: the board's volume, whether Vikunja has its admin, and user data
  create,     \* Create and the goroutine it leaves behind
  deleter, stopper, starter,  \* Delete, StopForTenant, StartForTenant
  suspensions, crashes,       \* bounds
  leaked,     \* history: boards whose container a failed removal or a crash left behind
  missed      \* history: boards whose status hides a container

dockerVars == <<cont, runs, vol, leaked>>
boundVars == <<suspensions, crashes>>
callVars == <<create, deleter, stopper, starter>>
vars == <<active, row, dockerVars, callVars, boundVars, missed>>

None == "none"
NoRow == [id |-> None, status |-> "none", cid |-> 0, token |-> FALSE]
Idle == [pc |-> "idle", b |-> None, cid |-> 0, was |-> "none"]

Statuses == {"provisioning", "ready", "stopped", "failed"}

TypeOK ==
  /\ active \in BOOLEAN
  /\ row \in [id : Creates \cup {None}, status : Statuses \cup {"none"},
              cid : 0..MaxRuns, token : BOOLEAN]
  /\ cont \in [Creates -> 0..MaxRuns]
  /\ runs \in [Creates -> 0..MaxRuns]
  /\ vol \in [Creates -> {"none", "empty", "admin", "data"}]
  /\ \A c \in Creates : create[c].b \in Creates /\ create[c].cid \in 0..MaxRuns
  /\ \A call \in {deleter, stopper, starter} :
       call.b \in Creates \cup {None} /\ call.cid \in 0..MaxRuns
  /\ leaked \cup missed \subseteq Creates

Init ==
  /\ active = TRUE
  /\ row = NoRow
  /\ cont = [b \in Creates |-> 0]
  /\ runs = [b \in Creates |-> 0]
  /\ vol = [b \in Creates |-> "none"]
  /\ create = [c \in Creates |-> [pc |-> "new", b |-> c, cid |-> 0, setup |-> FALSE]]
  /\ deleter = Idle /\ stopper = Idle /\ starter = Idle
  /\ suspensions = 0 /\ crashes = 0
  /\ leaked = {} /\ missed = {}

-----------------------------------------------------------------------------
(* The table and Docker. *)

\* UPDATE kanbans SET status = s WHERE id = b; a port taken meanwhile refuses a failed row.
UpdateStatus(b, s) ==
  \/ row' = IF row.id = b THEN [row EXCEPT !.status = s] ELSE row
  \/ (Faults \/ (row.status = "failed" /\ s # "failed")) /\ row' = row

\* Stop and remove container c of board b, best effort.
RemoveContainer(b, c) ==
  \/ /\ cont' = [cont EXCEPT ![b] = IF @ = c THEN 0 ELSE @]
     /\ leaked' = leaked
  \/ /\ Faults /\ c # 0 /\ cont[b] = c
     /\ leaked' = leaked \cup {b}
     /\ cont' = cont

\* Docker refuses to remove a volume that is mounted.
RemoveVolume(b) ==
  \/ cont[b] = 0 /\ vol' = [vol EXCEPT ![b] = "none"]
  \/ (cont[b] # 0 \/ Faults) /\ vol' = vol

RunDatabase(b) ==
  /\ cont[b] = 0 /\ runs[b] < MaxRuns
  /\ runs' = [runs EXCEPT ![b] = @ + 1]
  /\ cont' = [cont EXCEPT ![b] = runs[b] + 1]
  /\ vol' = [vol EXCEPT ![b] = IF @ = "none" THEN "empty" ELSE @]
  /\ leaked' = leaked

\* It fails: the name is taken, or a fault, after which the removal of the half-started
\* container may fail too.
RunFails(b) ==
  \/ (Faults \/ cont[b] # 0 \/ runs[b] = MaxRuns) /\ UNCHANGED dockerVars
  \/ /\ Faults /\ cont[b] = 0 /\ runs[b] < MaxRuns
     /\ runs' = [runs EXCEPT ![b] = @ + 1]
     /\ cont' = [cont EXCEPT ![b] = runs[b] + 1]
     /\ vol' = [vol EXCEPT ![b] = IF @ = "none" THEN "empty" ELSE @]
     /\ leaked' = leaked \cup {b}

-----------------------------------------------------------------------------
(* Create: the tenant's row, or its failed one, and the new board. *)

At(c, pc) == create[c].pc = pc
Goto(c, pc) == create' = [create EXCEPT ![c].pc = pc]

CountRows(c) ==
  /\ At(c, "new") /\ active
  /\ Goto(c, IF row.status \in Statuses \ {"failed"} THEN "done" ELSE "find")
  /\ UNCHANGED <<active, row, dockerVars, deleter, stopper, starter, boundVars, missed>>

\* Mutant: every failed board counts as one that was never set up.
FindFailedForgetful(c) ==
  /\ At(c, "find")
  /\ IF row.status = "failed"
     THEN create' = [create EXCEPT ![c] = [pc |-> "clear", b |-> row.id, cid |-> row.cid,
                                           setup |-> FALSE]]
     ELSE Goto(c, "insert")
  /\ UNCHANGED <<active, row, dockerVars, deleter, stopper, starter, boundVars, missed>>

FindFailed(c) ==
  /\ At(c, "find")
  /\ IF row.status = "failed"
     THEN create' = [create EXCEPT ![c] = [pc |-> "clear", b |-> row.id, cid |-> row.cid,
                                           setup |-> row.token]]
     ELSE Goto(c, "insert")
  /\ UNCHANGED <<active, row, dockerVars, deleter, stopper, starter, boundVars, missed>>

\* A board that completed setup is restarted on its volume, another one is replaced.
ClearContainer(c) ==
  /\ At(c, "clear")
  /\ RemoveContainer(create[c].b, create[c].cid)
  /\ Goto(c, IF create[c].setup THEN "reserve" ELSE "dropvol")
  /\ UNCHANGED <<active, row, runs, vol, deleter, stopper, starter, boundVars, missed>>

ReplaceVolume(c) ==
  /\ At(c, "dropvol")
  /\ RemoveVolume(create[c].b)
  /\ Goto(c, "droprow")
  /\ UNCHANGED <<active, row, cont, runs, leaked, deleter, stopper, starter, boundVars, missed>>

ReplaceRow(c) ==
  /\ At(c, "droprow")
  /\ \/ /\ row' = IF row.id = create[c].b THEN NoRow ELSE row
        /\ create' = [create EXCEPT ![c].pc = "insert", ![c].b = c, ![c].cid = 0]
     \/ Faults /\ Goto(c, "done") /\ row' = row
  /\ UNCHANGED <<active, dockerVars, deleter, stopper, starter, boundVars, missed>>

\* tenant_id is unique; five ports taken end the call as well.
Insert(c) ==
  /\ At(c, "insert")
  /\ \/ /\ row.id = None
        /\ row' = [id |-> c, status |-> "provisioning", cid |-> 0, token |-> FALSE]
        /\ Goto(c, "volume")
     \/ (row.id # None \/ Faults) /\ Goto(c, "done") /\ row' = row
  /\ UNCHANGED <<active, dockerVars, deleter, stopper, starter, boundVars, missed>>

CreateVolume(c) ==
  /\ At(c, "volume")
  /\ \/ /\ vol' = [vol EXCEPT ![c] = IF @ = "none" THEN "empty" ELSE @]
        /\ Goto(c, "run") /\ row' = row
     \/ Faults /\ UpdateStatus(c, "failed") /\ Goto(c, "done") /\ vol' = vol
  /\ UNCHANGED <<active, cont, runs, leaked, deleter, stopper, starter, boundVars, missed>>

\* create[c].cid stays 0 when nothing was made, so the cleanup removes only the volume.
RunContainer(c) ==
  /\ At(c, "run")
  /\ \/ /\ RunDatabase(c)
        /\ create' = [create EXCEPT ![c].pc = "record", ![c].cid = runs[c] + 1]
     \/ RunFails(c) /\ Goto(c, "fail")
  /\ UNCHANGED <<active, row, deleter, stopper, starter, boundVars, missed>>

\* The record of the container's id, guarded by 'provisioning'.
Record(c, b, stored, changed, gone, error) ==
  \/ /\ row.id = b /\ row.status = "provisioning"
     /\ row' = [row EXCEPT !.cid = create[c].cid]
     /\ Goto(c, stored)
  \/ row.id = b /\ row.status # "provisioning" /\ Goto(c, changed) /\ row' = row
  \/ row.id # b /\ Goto(c, gone) /\ row' = row
  \/ Faults /\ Goto(c, error) /\ row' = row

RecordContainer(c) ==
  /\ At(c, "record")
  /\ Record(c, c, "health", "undo", "rmcont", "fail")
  /\ UNCHANGED <<active, dockerVars, deleter, stopper, starter, boundVars, missed>>

\* Stopped during provisioning: the container goes, and the never set up board fails.
UndoContainer(c) ==
  /\ At(c, "undo")
  /\ RemoveContainer(c, create[c].cid)
  /\ Goto(c, "unready")
  /\ UNCHANGED <<active, row, runs, vol, deleter, stopper, starter, boundVars, missed>>

FailNeverSetUp(c) ==
  /\ At(c, "unready")
  /\ \/ row' = IF row.id = c /\ row.status = "stopped" /\ ~row.token
               THEN [row EXCEPT !.status = "failed"] ELSE row
     \/ Faults /\ row' = row
  /\ Goto(c, "done")
  /\ UNCHANGED <<active, dockerVars, deleter, stopper, starter, boundVars, missed>>

-----------------------------------------------------------------------------
(* provision, in the background. *)

WaitForHTTP(c) ==
  /\ At(c, "health")
  /\ \/ cont[c] # 0 /\ Goto(c, "setup")
     \/ Goto(c, "fail")
  /\ UNCHANGED <<active, row, dockerVars, deleter, stopper, starter, boundVars, missed>>

\* Registering the admin fails when the volume has one; a later call may fail after it.
SetupVikunja(c) ==
  /\ At(c, "setup")
  /\ \/ /\ cont[c] # 0 /\ vol[c] = "empty"
        /\ vol' = [vol EXCEPT ![c] = "admin"]
        /\ Goto(c, "token") \/ Goto(c, "fail")
     \/ Goto(c, "fail") /\ vol' = vol
  /\ UNCHANGED <<active, row, cont, runs, leaked, deleter, stopper, starter, boundVars, missed>>

StoreToken(c) ==
  /\ At(c, "token")
  /\ \/ row' = (IF row.id = c THEN [row EXCEPT !.token = TRUE] ELSE row) /\ Goto(c, "cas")
     \/ Faults /\ Goto(c, "fail") /\ row' = row
  /\ UNCHANGED <<active, dockerVars, deleter, stopper, starter, boundVars, missed>>

\* casReady(provisioning -> ready), which reports an error as a changed row.
CasReady(c, b, changed) ==
  \/ /\ row.id = b /\ row.status = "provisioning"
     /\ row' = [row EXCEPT !.status = "ready"]
     /\ missed' = IF active THEN missed ELSE missed \cup {b}
     /\ Goto(c, "done")
  \/ /\ row.id # b \/ row.status # "provisioning" \/ Faults
     /\ Goto(c, changed)
     /\ UNCHANGED <<row, missed>>

MarkReady(c) ==
  /\ At(c, "cas")
  /\ CasReady(c, c, "exists")
  /\ UNCHANGED <<active, dockerVars, deleter, stopper, starter, boundVars>>

\* A changed board keeps its volume; one that is gone, or cannot be read, loses it.
RowExists(c) ==
  /\ At(c, "exists")
  /\ \/ row.id = c /\ Goto(c, "keep")
     \/ (row.id # c \/ Faults) /\ Goto(c, "rmcont")
  /\ UNCHANGED <<active, row, dockerVars, deleter, stopper, starter, boundVars, missed>>

KeepVolume(c) ==
  /\ At(c, "keep")
  /\ RemoveContainer(create[c].b, create[c].cid)
  /\ Goto(c, "done")
  /\ UNCHANGED <<active, row, runs, vol, deleter, stopper, starter, boundVars, missed>>

\* Every failure of the provisioning: 'failed', and the cleanup.
FailBoard(c) ==
  /\ At(c, "fail")
  /\ UpdateStatus(c, "failed")
  /\ Goto(c, "rmcont")
  /\ UNCHANGED <<active, dockerVars, deleter, stopper, starter, boundVars, missed>>

CleanupContainer(c) ==
  /\ At(c, "rmcont")
  /\ RemoveContainer(c, create[c].cid)
  /\ Goto(c, "rmvol")
  /\ UNCHANGED <<active, row, runs, vol, deleter, stopper, starter, boundVars, missed>>

CleanupVolume(c) ==
  /\ At(c, "rmvol")
  /\ RemoveVolume(c)
  /\ Goto(c, "done")
  /\ UNCHANGED <<active, row, cont, runs, leaked, deleter, stopper, starter, boundVars, missed>>

-----------------------------------------------------------------------------
(* restartFailedInPlace: the failed board gets a new container on its volume. *)

\* UPDATE ... SET status = 'provisioning' WHERE status = 'failed': one caller wins.
Reserve(c) ==
  /\ At(c, "reserve")
  /\ \/ /\ row.id = create[c].b /\ row.status = "failed"
        /\ row' = [row EXCEPT !.status = "provisioning", !.cid = 0]
        /\ Goto(c, "rerun")
     \/ /\ row.id # create[c].b \/ row.status # "failed" \/ Faults
        /\ Goto(c, "done") /\ row' = row
  /\ UNCHANGED <<active, dockerVars, deleter, stopper, starter, boundVars, missed>>

RerunContainer(c) ==
  LET b == create[c].b IN
  /\ At(c, "rerun")
  /\ \/ /\ RunDatabase(b)
        /\ create' = [create EXCEPT ![c].pc = "rerecord", ![c].cid = runs[b] + 1]
     \/ RunFails(b) /\ Goto(c, "refail")
  /\ UNCHANGED <<active, row, deleter, stopper, starter, boundVars, missed>>

RerecordContainer(c) ==
  /\ At(c, "rerecord")
  /\ Record(c, create[c].b, "rehealth", "keep", "keep", "rermcont")
  /\ UNCHANGED <<active, dockerVars, deleter, stopper, starter, boundVars, missed>>

RewaitForHTTP(c) ==
  /\ At(c, "rehealth")
  /\ \/ cont[create[c].b] # 0 /\ Goto(c, "recas")
     \/ Goto(c, "rermcont")
  /\ UNCHANGED <<active, row, dockerVars, deleter, stopper, starter, boundVars, missed>>

RemarkReady(c) ==
  /\ At(c, "recas")
  /\ CasReady(c, create[c].b, "keep")
  /\ UNCHANGED <<active, dockerVars, deleter, stopper, starter, boundVars>>

RemoveRestarted(c) ==
  /\ At(c, "rermcont")
  /\ RemoveContainer(create[c].b, create[c].cid)
  /\ Goto(c, "refail")
  /\ UNCHANGED <<active, row, runs, vol, deleter, stopper, starter, boundVars, missed>>

\* failProvisioning: only while the row is still provisioning.
FailProvisioning(c) ==
  /\ At(c, "refail")
  /\ \/ row' = IF row.id = create[c].b /\ row.status = "provisioning"
               THEN [row EXCEPT !.status = "failed"] ELSE row
     \/ Faults /\ row' = row
  /\ Goto(c, "done")
  /\ UNCHANGED <<active, dockerVars, deleter, stopper, starter, boundVars, missed>>

Create(c) ==
  \/ CountRows(c) \/ FindFailed(c) \/ ClearContainer(c) \/ ReplaceVolume(c) \/ ReplaceRow(c)
  \/ Insert(c) \/ CreateVolume(c) \/ RunContainer(c) \/ RecordContainer(c)
  \/ UndoContainer(c) \/ FailNeverSetUp(c)

Provision(c) ==
  \/ WaitForHTTP(c) \/ SetupVikunja(c) \/ StoreToken(c) \/ MarkReady(c) \/ RowExists(c)
  \/ KeepVolume(c) \/ FailBoard(c) \/ CleanupContainer(c) \/ CleanupVolume(c)

RestartFailedInPlace(c) ==
  \/ Reserve(c) \/ RerunContainer(c) \/ RerecordContainer(c) \/ RewaitForHTTP(c)
  \/ RemarkReady(c) \/ RemoveRestarted(c) \/ FailProvisioning(c)

-----------------------------------------------------------------------------
(* Delete. *)

DeleteRead ==
  /\ active /\ deleter.pc = "idle" /\ row.id # None
  /\ deleter' = [Idle EXCEPT !.pc = "rmcont", !.b = row.id, !.cid = row.cid]
  /\ UNCHANGED <<active, row, dockerVars, create, stopper, starter, boundVars, missed>>

\* A container or a volume that cannot be removed keeps the record.
DeleteContainer ==
  /\ deleter.pc = "rmcont"
  /\ \/ /\ cont' = [cont EXCEPT ![deleter.b] = IF @ = deleter.cid THEN 0 ELSE @]
        /\ deleter' = [deleter EXCEPT !.pc = "rmvol"]
     \/ /\ Faults /\ deleter.cid # 0 /\ cont[deleter.b] = deleter.cid
        /\ deleter' = Idle /\ cont' = cont
  /\ UNCHANGED <<active, row, runs, vol, leaked, create, stopper, starter, boundVars, missed>>

DeleteVolume ==
  /\ deleter.pc = "rmvol"
  /\ \/ /\ cont[deleter.b] = 0
        /\ vol' = [vol EXCEPT ![deleter.b] = "none"]
        /\ deleter' = [deleter EXCEPT !.pc = "delrow"]
     \/ (cont[deleter.b] # 0 \/ Faults) /\ deleter' = Idle /\ vol' = vol
  /\ UNCHANGED <<active, row, cont, runs, leaked, create, stopper, starter, boundVars, missed>>

DeleteRow ==
  /\ deleter.pc = "delrow"
  /\ row' = IF row.id = deleter.b THEN NoRow ELSE row
  /\ deleter' = Idle
  /\ UNCHANGED <<active, dockerVars, create, stopper, starter, boundVars, missed>>

Delete == DeleteRead \/ DeleteContainer \/ DeleteVolume \/ DeleteRow

-----------------------------------------------------------------------------
(* Suspension and reactivation. *)

Suspend ==
  /\ active /\ suspensions < MaxSuspensions /\ stopper.pc = "idle"
  /\ active' = FALSE
  /\ suspensions' = suspensions + 1
  /\ stopper' = [Idle EXCEPT !.pc = "read"]
  /\ UNCHANGED <<row, dockerVars, create, deleter, starter, crashes, missed>>

\* StopForTenant reads the row,
StopRead ==
  /\ stopper.pc = "read"
  /\ stopper' = IF row.id = None THEN Idle
                ELSE [pc |-> "remove", b |-> row.id, cid |-> row.cid, was |-> row.status]
  /\ UNCHANGED <<active, row, dockerVars, create, deleter, starter, boundVars, missed>>

\* removes the container it names,
StopContainer ==
  /\ stopper.pc = "remove"
  /\ RemoveContainer(stopper.b, stopper.cid)
  /\ stopper' = [stopper EXCEPT !.pc = "write"]
  /\ UNCHANGED <<active, row, runs, vol, create, deleter, starter, boundVars, missed>>

\* and marks the row stopped whatever it is by now; a row read as failed stays so.
StopWrite ==
  /\ stopper.pc = "write"
  /\ IF stopper.was = "failed"
     THEN row' = IF row.id = stopper.b THEN [row EXCEPT !.cid = 0] ELSE row
     ELSE UpdateStatus(stopper.b, "stopped")
  /\ missed' = IF cont[stopper.b] = 0 THEN missed \ {stopper.b} ELSE missed \cup {stopper.b}
  /\ stopper' = Idle
  /\ UNCHANGED <<active, dockerVars, create, deleter, starter, boundVars>>

StopForTenant == StopRead \/ StopContainer \/ StopWrite

Reactivate ==
  /\ ~active /\ starter.pc = "idle"
  /\ active' = TRUE
  /\ starter' = [Idle EXCEPT !.pc = "read"]
  /\ UNCHANGED <<row, dockerVars, create, deleter, stopper, boundVars, missed>>

\* StartForTenant takes a stopped row,
StartRead ==
  /\ starter.pc = "read"
  /\ starter' = IF row.status = "stopped" THEN [Idle EXCEPT !.pc = "check", !.b = row.id] ELSE Idle
  /\ UNCHANGED <<active, row, dockerVars, create, deleter, stopper, boundVars, missed>>

\* checks the tenant,
StartCheck ==
  /\ starter.pc = "check"
  /\ starter' = IF active THEN [starter EXCEPT !.pc = "run"] ELSE Idle
  /\ UNCHANGED <<active, row, dockerVars, create, deleter, stopper, boundVars, missed>>

StartRun ==
  /\ starter.pc = "run"
  /\ \/ /\ RunDatabase(starter.b)
        /\ starter' = [starter EXCEPT !.pc = "record", !.cid = runs[starter.b] + 1]
     \/ RunFails(starter.b) /\ starter' = [starter EXCEPT !.pc = "fail"]
  /\ UNCHANGED <<active, row, create, deleter, stopper, boundVars, missed>>

\* records the container without looking at the result,
StartRecord ==
  /\ starter.pc = "record"
  /\ row' = IF row.id = starter.b THEN [row EXCEPT !.cid = starter.cid] ELSE row
  /\ starter' = [starter EXCEPT !.pc = "health"]
  /\ UNCHANGED <<active, dockerVars, create, deleter, stopper, boundVars, missed>>

StartHealth ==
  /\ starter.pc = "health"
  /\ \/ cont[starter.b] # 0 /\ starter' = [starter EXCEPT !.pc = "recheck"]
     \/ starter' = [starter EXCEPT !.pc = "fail"]
  /\ UNCHANGED <<active, row, dockerVars, create, deleter, stopper, boundVars, missed>>

\* marks a failed start 'failed' and then removes its container, if it made one,
StartFail ==
  /\ starter.pc = "fail"
  /\ UpdateStatus(starter.b, "failed")
  /\ starter' = IF starter.cid = 0 THEN Idle ELSE [starter EXCEPT !.pc = "rmcont"]
  /\ UNCHANGED <<active, dockerVars, create, deleter, stopper, boundVars, missed>>

StartRemove ==
  /\ starter.pc = "rmcont"
  /\ RemoveContainer(starter.b, starter.cid)
  /\ starter' = Idle
  /\ UNCHANGED <<active, row, runs, vol, create, deleter, stopper, boundVars, missed>>

\* checks the tenant again,
StartRecheck ==
  /\ starter.pc = "recheck"
  /\ starter' = [starter EXCEPT !.pc = IF active THEN "ready" ELSE "undo"]
  /\ UNCHANGED <<active, row, dockerVars, create, deleter, stopper, boundVars, missed>>

\* for a suspended one removes the container, and then marks the row stopped,
StartUndo ==
  /\ starter.pc = "undo"
  /\ RemoveContainer(starter.b, starter.cid)
  /\ starter' = [starter EXCEPT !.pc = "stopped"]
  /\ UNCHANGED <<active, row, runs, vol, create, deleter, stopper, boundVars, missed>>

StartStopped ==
  /\ starter.pc = "stopped"
  /\ UpdateStatus(starter.b, "stopped")
  /\ starter' = Idle
  /\ UNCHANGED <<active, dockerVars, create, deleter, stopper, boundVars, missed>>

\* and marks the row ready.
StartReady ==
  /\ starter.pc = "ready"
  /\ UpdateStatus(starter.b, "ready")
  /\ missed' = IF active /\ row.id = starter.b THEN missed ELSE missed \cup {starter.b}
  /\ starter' = Idle
  /\ UNCHANGED <<active, dockerVars, create, deleter, stopper, boundVars>>

StartForTenant ==
  \/ StartRead \/ StartCheck \/ StartRun \/ StartRecord \/ StartHealth \/ StartFail
  \/ StartRemove \/ StartRecheck \/ StartUndo \/ StartStopped \/ StartReady

-----------------------------------------------------------------------------
(* The tenant, GC, and crashes. *)

\* The tenant needs the stored credentials to put anything on its board.
UseBoard ==
  /\ active /\ row.status = "ready" /\ row.token
  /\ cont[row.id] # 0 /\ vol[row.id] = "admin"
  /\ vol' = [vol EXCEPT ![row.id] = "data"]
  /\ UNCHANGED <<active, row, cont, runs, leaked, callVars, boundVars, missed>>

\* A container a call has made and not settled yet is younger than minResourceAge.
Young(b) ==
  \/ \E c \in Creates : create[c].b = b /\ create[c].cid = cont[b] /\ create[c].pc # "done"
  \/ starter.b = b /\ starter.cid = cont[b]

CollectContainer(b) ==
  /\ cont[b] # 0 /\ ~(row.id = b /\ row.cid = cont[b]) /\ ~Young(b)
  /\ RemoveContainer(b, cont[b])
  /\ UNCHANGED <<active, row, runs, vol, callVars, boundVars, missed>>

CollectVolume(b) ==
  /\ vol[b] # "none" /\ row.id # b /\ cont[b] = 0
  /\ vol' = [vol EXCEPT ![b] = "none"]
  /\ UNCHANGED <<active, row, cont, runs, leaked, callVars, boundVars, missed>>

\* ReconcileStale of the next ah: a provisioning row loses container and volume.
ReconcileStale ==
  IF row.status = "provisioning"
  THEN LET b == row.id
           left == IF cont[b] = row.cid THEN 0 ELSE cont[b]
       IN  /\ row' = [row EXCEPT !.status = "failed"]
           /\ cont' = [cont EXCEPT ![b] = left]
           /\ vol' = [vol EXCEPT ![b] = IF left = 0 THEN "none" ELSE @]
  ELSE UNCHANGED <<row, cont, vol>>

Crash ==
  /\ crashes < MaxCrashes
  /\ crashes' = crashes + 1
  /\ ReconcileStale
  /\ create' = [c \in Creates |-> IF At(c, "new") THEN create[c]
                                  ELSE [create[c] EXCEPT !.pc = "done"]]
  /\ deleter' = Idle /\ stopper' = Idle /\ starter' = Idle
  /\ leaked' = leaked \cup {b \in Creates : cont[b] # 0 /\ (Young(b) \/ stopper.pc # "idle")}
  /\ UNCHANGED <<active, runs, suspensions, missed>>

Next ==
  \/ \E c \in Creates : Create(c) \/ Provision(c) \/ RestartFailedInPlace(c)
  \/ Delete \/ Suspend \/ StopForTenant \/ Reactivate \/ StartForTenant
  \/ UseBoard \/ (\E b \in Creates : CollectContainer(b) \/ CollectVolume(b))
  \/ Crash

Spec == Init /\ [][Next]_vars

-----------------------------------------------------------------------------
(* Properties. *)

\* A board the tenant has used loses its volume only to Delete, or once its row is gone:
\* "a board that was once ready may hold user data, so keep that volume".
BoardDataKept ==
  [][\A b \in Creates : vol[b] = "data" /\ vol'[b] # "data" =>
       \/ deleter.pc = "rmvol" /\ deleter.b = b
       \/ row.id # b]_vars

\* The same, but for a crash: neither a failed restart in place, nor a failed start, nor
\* the Create that replaces a failed board, nor GC takes the volume of a used board.  (A
\* reactivation can start a board whose own Create has still to clean it up.)
KeepsDataWhileUp ==
  \A b \in Creates : vol[b] = "data" /\ vol'[b] # "data" =>
    \/ deleter.pc = "rmvol" /\ deleter.b = b
    \/ row.id # b
    \/ create[b].pc = "rmvol"
    \/ crashes' # crashes

\* Once a suspension has swept, the board's container still runs only because its removal
\* failed, or because a status was written for a container nobody had seen.
SuspendedBoardNotRunning ==
  LET b == row.id IN
  /\ b # None /\ ~active /\ stopper.pc = "idle" /\ cont[b] # 0
  /\ starter.b # b /\ deleter.pc = "idle"
  /\ \A c \in Creates : create[c].b = b => create[c].pc \in {"new", "done"}
  => b \in leaked \cup missed

=============================================================================
