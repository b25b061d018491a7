-------------------------- MODULE EnvironmentsProofs --------------------------
(***************************************************************************)
(* Facts about environments.Manager for any number of environments, pool   *)
(* entries and containers, any quota, and whatever acts and fails: the     *)
(* types, that nothing has two owners, that a claimed container keeps its  *)
(* row, and that a suspension leaves nothing running.                      *)
(***************************************************************************)
EXTENDS Environments, TLAPS

-----------------------------------------------------------------------------
(* Type correctness. *)

EnvType == [status : Statuses, cid : Containers \cup {Nothing}, vol : Volumes \cup {Nothing},
            lease : {"none", "live", "expired"}, used : BOOLEAN]

PoolType == {"absent", "ready", "claimed"}

ContType == [state : {"none", "running", "exited", "gone"},
             name : Volumes \cup {Nothing}, vol : Volumes \cup {Nothing}]

CreatorType ==
  [pc : {"idle", "insert", "acquire", "transfer", "unclaim", "reset", "volume", "run", "unvolume", "commit",
         "undo", "undostorage", "undoerror", "undoerrorstorage", "droprow", "fail"},
   cid : Containers \cup {Nothing}, vol : Volumes \cup {Nothing}]

UserType ==
  [pc : {"idle", "hold", "start", "commit", "undo", "stop", "write", "remove", "storage", "erase"},
   env : Envs \cup {Nothing}, cid : Containers \cup {Nothing}, vol : Volumes \cup {Nothing}, made : BOOLEAN]

RecType == [pc : {"idle", "watch", "mark", "inspect", "recheck", "claim", "stop"},
            env : Envs \cup {Nothing}, cid : Containers \cup {Nothing}, late : BOOLEAN]

SweepType == [pass : 0 .. 3, pc : {"idle", "list", "stop", "write"}, env : Envs \cup {Nothing},
              todo : SUBSET Envs, cid : [Envs -> Containers \cup {Nothing}]]

FillType == [pc : {"idle", "inspect", "prune", "unvolume", "run", "insert"},
             entry : Entries \cup {Nothing}, was : PoolType, late : BOOLEAN]

GcType == [kind : {"none", "container", "volume"}, name : Containers \cup Volumes \cup {Nothing},
           late : BOOLEAN]

\* TypeOK, with the goroutines' types in full.
Typed ==
  /\ tenant \in {"active", "suspended"}
  /\ env \in [Envs -> EnvType]
  /\ pool \in [Entries -> PoolType]
  /\ cont \in [Containers -> ContType]
  /\ vol \in [Volumes -> BOOLEAN]
  /\ creator \in [Envs -> CreatorType]
  /\ user \in UserType
  /\ rec \in RecType
  /\ sweep \in SweepType
  /\ fill \in FillType
  /\ gc \in GcType
  /\ lost \subseteq Containers

Deleted == [Absent EXCEPT !.status = "deleted"]

Undoing == {"undo", "undostorage", "undoerror", "undoerrorstorage"}

\* What the goroutine in create(), if any, and the row of environment e have in common.
CreatorFits(e) ==
  /\ At(e, "idle") => creator[e] = Idle
  /\ At(e, "insert") \/ At(e, "acquire") => creator[e].cid = Nothing
  /\ creator[e].pc \in {"transfer", "unclaim", "reset"} =>
       creator[e].cid \in Entries /\ creator[e].vol = creator[e].cid
  /\ At(e, "run") => creator[e].vol = e
  /\ creator[e].pc \in {"commit"} \cup Undoing =>
       /\ creator[e].cid \in Containers /\ creator[e].vol \in Volumes
       /\ creator[e].cid \in Entries \/ creator[e].vol \in Entries => creator[e].cid = creator[e].vol
  /\ At(e, "insert") => env[e] = Absent
  /\ env[e].status = "absent" => env[e] = Absent /\ (At(e, "idle") \/ At(e, "insert"))
  /\ env[e].status = "deleted" => env[e] = Deleted

\* The others know what they work on.
UserFits ==
  /\ user.pc = "idle" => user = UserIdle
  /\ user.pc # "idle" => user.env \in Envs /\ env[user.env].status # "absent"
  /\ user.pc \in {"commit", "undo"} => user.cid \in Containers
  /\ user.pc \notin {"commit", "undo"} => ~user.made

OthersFit ==
  /\ rec.pc = "idle" => rec = RecIdle
  /\ rec.pc # "idle" => rec.env \in Envs
  /\ sweep.pc = "write" => sweep.env \in Envs
  /\ fill.pc = "idle" => fill = FillIdle
  /\ fill.pc # "idle" => fill.entry \in Entries
  /\ gc.kind = "none" => gc = GcIdle
  /\ gc.kind = "container" => gc.name \in Containers
  /\ gc.kind = "volume" => gc.name \in Volumes

Fits == (\A e \in Envs : CreatorFits(e)) /\ UserFits /\ OthersFit

Shape == Typed /\ Fits

\* The commit changes one row.
LEMMA CommittedRow ==
  ASSUME Typed, NEW e \in Envs
  PROVE  /\ \A c : Committed(e, c) = [env EXCEPT ![e] = [env[e] EXCEPT !.status = "running", !.cid = c, !.lease = "live"]]
         /\ Created(e) = [env EXCEPT ![e] = [env[e] EXCEPT !.status = "running", !.cid = creator[e].cid,
                                                           !.lease = "live", !.used = TRUE]]
  <1>1. ASSUME NEW c
        PROVE  Committed(e, c) = [env EXCEPT ![e] = [env[e] EXCEPT !.status = "running", !.cid = c, !.lease = "live"]]
    BY DEF Typed, Committed, EnvType
  <1>2. Created(e) = [env EXCEPT ![e] = [env[e] EXCEPT !.status = "running", !.cid = creator[e].cid,
                                                       !.lease = "live", !.used = TRUE]]
    BY DEF Typed, Created, Committed, EnvType
  <1> QED BY <1>1, <1>2

\* What the code does to rows, entries and Docker keeps their types.
LEMMA TablesTyped ==
  ASSUME Typed, NEW e \in Envs
  PROVE  /\ \A status \in Statuses : WithStatus(e, status) \in [Envs -> EnvType]
         /\ \A c \in Containers \cup {Nothing} : Committed(e, c) \in [Envs -> EnvType]
         /\ Created(e) \in [Envs -> EnvType]
         /\ \A c \in Containers \cup {Nothing} : WithoutEntry(c) \in [Entries -> PoolType]
         /\ [env EXCEPT ![e] = [Absent EXCEPT !.status = "deleted"]] \in [Envs -> EnvType]
  <1>1. \A status \in Statuses : WithStatus(e, status) \in [Envs -> EnvType]
    BY DEF Typed, WithStatus, EnvType
  <1>2. \A c \in Containers \cup {Nothing} : Committed(e, c) \in [Envs -> EnvType]
    <2> SUFFICES ASSUME NEW c \in Containers \cup {Nothing}
                 PROVE  Committed(e, c) \in [Envs -> EnvType]
      OBVIOUS
    <2>1. [env[e] EXCEPT !.status = "running", !.cid = c, !.lease = "live"] \in EnvType
      BY DEF Typed, EnvType, Statuses
    <2>2. Committed(e, c) = [env EXCEPT ![e] = [env[e] EXCEPT !.status = "running", !.cid = c, !.lease = "live"]]
      BY CommittedRow
    <2> QED BY <2>1, <2>2 DEF Typed
  <1>5. Created(e) \in [Envs -> EnvType]
    <2>1. creator[e].cid \in Containers \cup {Nothing}
      BY DEF Typed, CreatorType
    <2>2. [env[e] EXCEPT !.status = "running", !.cid = creator[e].cid, !.lease = "live", !.used = TRUE] \in EnvType
      BY <2>1 DEF Typed, EnvType, Statuses
    <2> QED BY <2>2, CommittedRow DEF Typed
  <1>3. \A c \in Containers \cup {Nothing} : WithoutEntry(c) \in [Entries -> PoolType]
    BY DEF Typed, WithoutEntry, PoolType
  <1>4. [Absent EXCEPT !.status = "deleted"] \in EnvType
    BY DEF Absent, EnvType, Statuses
  <1> QED BY <1>1, <1>2, <1>3, <1>4, <1>5 DEF Typed

\* Stopping, removing and dropping, failed or not, keep Docker's types.
LEMMA DockerTyped ==
  ASSUME Typed, NEW c
  PROVE  /\ Stopped(c) \in [Containers -> ContType]
         /\ Removed(c) \in [Containers -> ContType]
         /\ Discard(c) /\ c \in Containers \cup {Nothing} =>
              cont' \in [Containers -> ContType] /\ lost' \subseteq Containers
         /\ DropVolume(c) => vol' \in [Volumes -> BOOLEAN]
  <1>1. Stopped(c) \in [Containers -> ContType]
    BY DEF Typed, Stopped, Up, ContType
  <1>2. Removed(c) \in [Containers -> ContType]
    BY DEF Typed, Removed, Exists, ContType
  <1>3. Discard(c) /\ c \in Containers \cup {Nothing} => cont' \in [Containers -> ContType] /\ lost' \subseteq Containers
    BY <1>1, <1>2 DEF Typed, Discard, Exists
  <1>4. DropVolume(c) => vol' \in [Volumes -> BOOLEAN]
    BY DEF Typed, DropVolume
  <1> QED BY <1>1, <1>2, <1>3, <1>4

\* So does running a new container.
LEMMA RunTyped ==
  ASSUME Typed, NEW c \in Containers, NEW n \in Volumes, NEW v \in Volumes, Run(c, n, v)
  PROVE  cont' \in [Containers -> ContType] /\ vol' \in [Volumes -> BOOLEAN]
  BY DEF Typed, Run, ContType

\* A goroutine in create() that goes on is one.
LEMMA GotoTyped ==
  ASSUME Typed, NEW e \in Envs, NEW pc, Goto(e, pc),
         pc \in {"insert", "acquire", "transfer", "unclaim", "reset", "volume", "run", "unvolume", "commit", "undo",
                 "undostorage", "undoerror", "undoerrorstorage", "droprow", "fail"}
  PROVE  creator' \in [Envs -> CreatorType]
  BY DEF Typed, Goto, CreatorType

\* The steps of a create keep the types.
LEMMA CreateTyped ==
  ASSUME Shape, NEW e \in Envs, CreateBegin(e) \/ Create(e)
  PROVE  Typed'
  <1>0. Typed /\ CreatorFits(e) /\ e \in Volumes /\ Idle \in CreatorType /\ creator \in [Envs -> CreatorType]
        /\ env \in [Envs -> EnvType]
    BY DEF Shape, Fits, Volumes, Idle, CreatorType, Typed
  <1>1. CASE CreateBegin(e)
    BY <1>0, <1>1, GotoTyped DEF CreateBegin, Typed
  <1>2. CASE Insert(e)
    <2>1. [Absent EXCEPT !.status = "creating", !.vol = e] \in EnvType
      BY <1>0 DEF EnvType, Absent, Statuses
    <2>2. creator' \in [Envs -> CreatorType]
      BY <1>0, <1>2, GotoTyped DEF Insert
    <2>3. env' \in [Envs -> EnvType]
      BY <1>0, <1>2, <2>1 DEF Insert
    <2> QED BY <1>0, <1>2, <2>2, <2>3 DEF Insert, Typed
  <1>3. CASE NoNetwork(e)
    BY <1>0, <1>3, GotoTyped DEF NoNetwork, Typed
  <1>4. CASE Acquire(e)
    <2>1. CASE Goto(e, "volume") /\ UNCHANGED <<env, pool>>
      BY <1>0, <1>4, <2>1, GotoTyped DEF Acquire, Typed
    <2>2. ASSUME NEW p \in Entries, env' = [env EXCEPT ![e].cid = p, ![e].vol = p], pool' = [pool EXCEPT ![p] = "claimed"],
                 creator' = [creator EXCEPT ![e] = [pc |-> "transfer", cid |-> p, vol |-> p]]
          PROVE  Typed'
      <3>1. env' \in [Envs -> EnvType]
        BY <1>0, <2>2 DEF EnvType, Containers, Volumes
      <3>2. creator' \in [Envs -> CreatorType]
        BY <1>0, <2>2 DEF CreatorType, Containers, Volumes
      <3>3. pool' \in [Entries -> PoolType]
        BY <1>0, <2>2 DEF Typed, PoolType
      <3> QED BY <1>0, <1>4, <3>1, <3>2, <3>3 DEF Acquire, Typed
    <2> QED BY <1>4, <2>1, <2>2 DEF Acquire
  <1>5. CASE Transfer(e)
    <2>1. creator' \in [Envs -> CreatorType]
      BY <1>0, <1>5, GotoTyped DEF Transfer
    <2>2. cont' \in [Containers -> ContType]
      BY <1>0, <1>5 DEF Transfer, Typed, ContType
    <2> QED BY <1>0, <1>5, <2>1, <2>2 DEF Transfer, Typed
  <1>6. CASE Unclaim(e) \/ UndoContainer(e)
    <2>1. creator' \in [Envs -> CreatorType]
      BY <1>0, <1>6, GotoTyped DEF Unclaim, UndoContainer
    <2>2. creator[e].cid \in Containers \cup {Nothing} /\ Discard(creator[e].cid)
      BY <1>0, <1>6 DEF Unclaim, UndoContainer, CreatorType
    <2>3. cont' \in [Containers -> ContType] /\ lost' \subseteq Containers
      BY <1>0, <2>2, DockerTyped
    <2> QED BY <1>0, <1>6, <2>1, <2>3 DEF Unclaim, UndoContainer, Typed
  <1>7. CASE Reset(e)
    <2>1. creator' \in [Envs -> CreatorType]
      BY <1>0, <1>7, GotoTyped DEF Reset
    <2>2. vol' \in [Volumes -> BOOLEAN]
      BY <1>0, <1>7, DockerTyped DEF Reset
    <2>3. pool' \in [Entries -> PoolType]
      BY <1>0, <1>7, TablesTyped DEF Reset, CreatorType
    <2>4. env' \in [Envs -> EnvType]
      BY <1>0, <1>7 DEF Reset, EnvType
    <2> QED BY <1>0, <1>7, <2>1, <2>2, <2>3, <2>4 DEF Reset, Typed
  <1>8. CASE MakeVolume(e)
    <2>1. creator' \in [Envs -> CreatorType]
      BY <1>0, <1>8, GotoTyped DEF MakeVolume, CreatorType
    <2>2. vol' \in [Volumes -> BOOLEAN]
      BY <1>0, <1>8 DEF MakeVolume, Typed
    <2> QED BY <1>0, <1>8, <2>1, <2>2 DEF MakeVolume, Typed
  <1>9. CASE RunCold(e)
    <2>1. ASSUME NEW c \in Unused, Run(c, e, e), creator' = [creator EXCEPT ![e].pc = "commit", ![e].cid = c], UNCHANGED env
          PROVE  Typed'
      <3>1. creator' \in [Envs -> CreatorType]
        BY <1>0, <2>1 DEF CreatorType, Unused, Containers
      <3>2. cont' \in [Containers -> ContType] /\ vol' \in [Volumes -> BOOLEAN]
        BY <1>0, <2>1, RunTyped DEF Unused, Containers
      <3> QED BY <1>0, <1>9, <2>1, <3>1, <3>2 DEF RunCold, Typed
    <2>2. CASE env' = WithStatus(e, "failed") /\ Goto(e, "unvolume") /\ UNCHANGED <<cont, vol>>
      <3>1. env' \in [Envs -> EnvType]
        BY <1>0, <2>2, TablesTyped DEF Statuses
      <3> QED BY <1>0, <1>9, <2>2, <3>1, GotoTyped DEF RunCold, Typed
    <2> QED BY <1>9, <2>1, <2>2 DEF RunCold
  <1>10. CASE RunFailed(e)
    BY <1>0, <1>10, DockerTyped DEF RunFailed, Typed
  <1>11. CASE Commit(e)
    <2>1. creator' \in [Envs -> CreatorType]
      BY <1>0, <1>11, GotoTyped DEF Commit
    <2>2. env' \in [Envs -> EnvType]
      BY <1>0, <1>11, TablesTyped DEF Commit, CreatorType
    <2> QED BY <1>0, <1>11, <2>1, <2>2 DEF Commit, Typed
  <1>12. CASE UndoStorage(e)
    <2>1. creator' \in [Envs -> CreatorType]
      BY <1>0, <1>12, GotoTyped DEF UndoStorage
    <2>2. pool' \in [Entries -> PoolType] /\ vol' \in [Volumes -> BOOLEAN]
      BY <1>0, <1>12, TablesTyped, DockerTyped DEF UndoStorage, CreatorType
    <2> QED BY <1>0, <1>12, <2>1, <2>2 DEF UndoStorage, Typed
  <1>13. CASE DropRow(e)
    BY <1>0, <1>13, GotoTyped, TablesTyped DEF DropRow, Typed
  <1>14. CASE Fail(e)
    <2>1. env' \in [Envs -> EnvType]
      BY <1>0, <1>14, TablesTyped DEF Fail, Statuses
    <2> QED BY <1>0, <1>14, <2>1 DEF Fail, Typed
  <1> QED BY <1>1, <1>2, <1>3, <1>4, <1>5, <1>6, <1>7, <1>8, <1>9, <1>10, <1>11, <1>12, <1>13, <1>14 DEF Create

\* So do those of the requests that hold the mutex, and the extension of a lease.
LEMMA UserTyped ==
  ASSUME Shape, User \/ \E e \in Envs : UserBegin(e) \/ ExtendLease(e) \/ LeaseExpires(e)
  PROVE  Typed'
  <1>0. Typed /\ UserFits /\ user \in UserType /\ UserIdle \in UserType /\ env \in [Envs -> EnvType]
    BY DEF Shape, Fits, Typed, UserIdle, UserType
  <1>1. ASSUME NEW e \in Envs, UserBegin(e)
        PROVE  Typed'
    <2>1. env[e].cid \in Containers \cup {Nothing} /\ env[e].vol \in Volumes \cup {Nothing}
      BY <1>0 DEF EnvType
    <2>2. \A pc \in {"hold", "stop", "remove"} :
            [pc |-> pc, env |-> e, cid |-> env[e].cid, vol |-> env[e].vol, made |-> FALSE] \in UserType
      BY <2>1 DEF UserType
    <2>3. user' \in UserType
      BY <1>1, <2>2 DEF UserBegin
    <2> QED BY <1>0, <1>1, <2>3 DEF UserBegin, Typed
  <1>2. ASSUME NEW e \in Envs, ExtendLease(e) \/ LeaseExpires(e)
        PROVE  Typed'
    <2>1. env' \in [Envs -> EnvType]
      BY <1>0, <1>2 DEF ExtendLease, LeaseExpires, EnvType
    <2> QED BY <1>0, <1>2, <2>1 DEF ExtendLease, LeaseExpires, Typed
  <1>3. \A pc \in {"start", "commit", "undo", "write", "storage", "erase"} : UserGoto(pc) => user' \in UserType
    BY <1>0 DEF UserGoto, UserType
  <1>4. CASE StartHold
    <2>1. env' \in [Envs -> EnvType]
      BY <1>0, <1>4 DEF StartHold, Hold, EnvType
    <2>2. rec' \in RecType
      BY <1>0, <1>4 DEF StartHold, Typed, RecType
    <2> QED BY <1>0, <1>3, <1>4, <2>1, <2>2 DEF StartHold, Hold, Typed
  <1>5. CASE StartContainer
    <2>1. CASE UserGoto("commit") /\ cont' = [cont EXCEPT ![user.cid].state = "running"] /\ UNCHANGED vol
      <3>1. cont' \in [Containers -> ContType]
        BY <1>0, <2>1 DEF Typed, ContType
      <3> QED BY <1>0, <1>3, <1>5, <2>1, <3>1 DEF StartContainer, Typed
    <2>2. ASSUME NEW n \in Unused, user.vol # Nothing, Run(n, user.env, user.vol),
                 user' = [user EXCEPT !.pc = "commit", !.cid = n, !.made = TRUE]
          PROVE  Typed'
      <3>1. user' \in UserType /\ n \in Containers /\ user.env \in Volumes /\ user.vol \in Volumes
        BY <1>0, <1>5, <2>2 DEF UserType, Unused, Containers, Volumes, StartContainer, UserFits
      <3>2. cont' \in [Containers -> ContType] /\ vol' \in [Volumes -> BOOLEAN]
        BY <1>0, <2>2, <3>1, RunTyped
      <3> QED BY <1>0, <1>5, <3>1, <3>2 DEF StartContainer, Typed
    <2>3. CASE user' = UserIdle /\ UNCHANGED <<cont, vol>>
      BY <1>0, <1>5, <2>3 DEF StartContainer, Typed
    <2> QED BY <1>5, <2>1, <2>2, <2>3 DEF StartContainer
  <1>6. CASE StartCommit
    <2>1. env' \in [Envs -> EnvType]
      BY <1>0, <1>6, TablesTyped DEF StartCommit, UserFits
    <2> QED BY <1>0, <1>3, <1>6, <2>1 DEF StartCommit, Typed
  <1>7. CASE StartUndo \/ DeleteContainer
    <2>1. user.cid \in Containers \cup {Nothing} /\ (StartUndo => user.cid \in Containers)
      BY <1>0 DEF UserType, UserFits, StartUndo
    <2>2. cont' \in [Containers -> ContType] /\ lost' \subseteq Containers
      BY <1>0, <1>7, <2>1, DockerTyped DEF StartUndo, DeleteContainer, Typed
    <2> QED BY <1>0, <1>3, <1>7, <2>2 DEF StartUndo, DeleteContainer, Typed
  <1>8. CASE StopContainer
    BY <1>0, <1>3, <1>8, DockerTyped DEF StopContainer, Typed
  <1>9. CASE StopWrite \/ DeleteRow
    <2>1. PICK e \in Envs : e = user.env
      BY <1>0, <1>9 DEF StopWrite, DeleteRow, UserFits
    <2>2. WithStatus(e, "stopped") \in [Envs -> EnvType]
          /\ [env EXCEPT ![e] = [Absent EXCEPT !.status = "deleted"]] \in [Envs -> EnvType]
      BY <1>0, TablesTyped DEF Statuses
    <2>3. env' \in [Envs -> EnvType]
      BY <1>9, <2>1, <2>2 DEF StopWrite, DeleteRow
    <2> QED BY <1>0, <1>9, <2>3 DEF StopWrite, DeleteRow, Typed
  <1>10. CASE DeleteStorage
    <2>1. pool' \in [Entries -> PoolType] /\ vol' \in [Volumes -> BOOLEAN]
      <3>1. user.env \in Envs /\ user.cid \in Containers \cup {Nothing}
        BY <1>0, <1>10 DEF DeleteStorage, UserFits, UserType
      <3> QED BY <1>0, <1>10, <3>1, TablesTyped, DockerTyped DEF DeleteStorage
    <2> QED BY <1>0, <1>3, <1>10, <2>1 DEF DeleteStorage, Typed
  <1> QED BY <1>1, <1>2, <1>4, <1>5, <1>6, <1>7, <1>8, <1>9, <1>10 DEF User

\* And those of the reconciler and of a suspension.
LEMMA ReconcileTyped ==
  ASSUME Shape, Reconcile
  PROVE  Typed'
  <1>0. Typed /\ OthersFit /\ rec \in RecType /\ RecIdle \in RecType /\ env \in [Envs -> EnvType]
    BY DEF Shape, Fits, Typed, RecIdle, RecType
  <1>1. ASSUME NEW e \in Envs, RecRead(e)
        PROVE  Typed'
    <2>1. \A pc \in {"watch", "inspect", "claim"} : [pc |-> pc, env |-> e, cid |-> env[e].cid, late |-> FALSE] \in RecType
      BY <1>0 DEF RecType, EnvType
    <2>2. rec' \in RecType
      BY <1>1, <2>1 DEF RecRead
    <2> QED BY <1>1, <1>0, <2>2 DEF RecRead, UnchangedButRec, Typed
  <1>2. ASSUME NEW e \in Envs, RecFailStale(e)
        PROVE  Typed'
    <2>1. env' \in [Envs -> EnvType]
      BY <1>0, <1>2, TablesTyped DEF RecFailStale, Statuses
    <2> QED BY <1>0, <1>2, <2>1 DEF RecFailStale, UnchangedButRec, Typed
  <1>3. CASE RecWatch \/ RecInspect \/ RecRecheck
    <2>1. rec' \in RecType
      BY <1>0, <1>3 DEF RecWatch, RecInspect, RecRecheck, RecType
    <2> QED BY <1>0, <1>3, <2>1 DEF RecWatch, RecInspect, RecRecheck, UnchangedButRec, Typed
  <1>4. CASE RecMark \/ RecClaim
    <2>1. rec' \in RecType
      BY <1>0, <1>4 DEF RecMark, RecClaim, RecType
    <2>2. env' \in [Envs -> EnvType]
      BY <1>0, <1>4, TablesTyped DEF RecMark, RecClaim, OthersFit, Statuses
    <2> QED BY <1>0, <1>4, <2>1, <2>2 DEF RecMark, RecClaim, UnchangedButRec, Typed
  <1>5. CASE RecStop
    BY <1>0, <1>5, DockerTyped DEF RecStop, UnchangedButRec, Typed
  <1> QED BY <1>1, <1>2, <1>3, <1>4, <1>5 DEF Reconcile

\* The steps of a suspension and of its sweep keep the types.
LEMMA SweepTyped ==
  ASSUME Shape, Suspend \/ Reactivate \/ Sweep
  PROVE  Typed'
  <1>0. Typed /\ OthersFit /\ sweep \in SweepType /\ env \in [Envs -> EnvType]
    BY DEF Shape, Fits, Typed
  <1>1. \A pass \in 0 .. 3, pc \in {"idle", "list"} : [SweepIdle EXCEPT !.pass = pass, !.pc = pc] \in SweepType
    BY DEF SweepIdle, SweepType
  <1>2. \A pass \in 0 .. 3 : SweepIdle \in SweepType /\ [SweepIdle EXCEPT !.pass = pass] \in SweepType
    BY DEF SweepIdle, SweepType
  <1>3. CASE Suspend \/ Reactivate
    <2>1. sweep' \in SweepType
      BY <1>0, <1>1, <1>2, <1>3 DEF Suspend, Reactivate
    <2> QED BY <1>0, <1>3, <2>1 DEF Suspend, Reactivate, Typed
  <1>4. CASE SweepList
    <2>1. sweep' \in SweepType
      BY <1>0, <1>4 DEF SweepList, SweepType, EnvType
    <2> QED BY <1>0, <1>4, <2>1 DEF SweepList, UnchangedButSweep, Typed
  <1>5. ASSUME NEW e \in Envs, SweepStop(e)
        PROVE  Typed'
    <2>1. sweep' \in SweepType
      BY <1>0, <1>5 DEF SweepStop, SweepType
    <2>2. cont' \in [Containers -> ContType] /\ lost' \subseteq Containers
      <3>1. sweep.cid[e] \in Containers \cup {Nothing}
        BY <1>0 DEF SweepType
      <3> QED BY <1>0, <1>5, <3>1, DockerTyped DEF SweepStop, Typed
    <2> QED BY <1>0, <1>5, <2>1, <2>2 DEF SweepStop, UnchangedButSweep, Typed
  <1>6. CASE SweepWrite
    <2>1. sweep' \in SweepType /\ env' \in [Envs -> EnvType]
      BY <1>0, <1>6, TablesTyped DEF SweepWrite, SweepType, OthersFit, Statuses
    <2> QED BY <1>0, <1>6, <2>1 DEF SweepWrite, UnchangedButSweep, Typed
  <1>7. CASE SweepNext
    <2>1. sweep' \in SweepType
      BY <1>1, <1>2, <1>7 DEF SweepNext
    <2> QED BY <1>0, <1>7, <2>1 DEF SweepNext, UnchangedButSweep, Typed
  <1> QED BY <1>3, <1>4, <1>5, <1>6, <1>7 DEF Sweep

\* And those of the refill, the collector, Docker and a crash.
LEMMA RestTyped ==
  ASSUME Shape, Refill \/ Collect \/ Crash \/ \E c \in Containers : Exit(c) \/ DockerPrune(c)
  PROVE  Typed'
  <1>0. Typed /\ OthersFit /\ fill \in FillType /\ FillIdle \in FillType /\ GcIdle \in GcType
    BY DEF Shape, Fits, Typed, FillIdle, FillType, GcIdle, GcType, PoolType
  <1>1. ASSUME NEW p \in Entries, PruneRead(p)
        PROVE  Typed'
    <2>1. fill' \in FillType
      BY <1>0, <1>1 DEF PruneRead, FillType, Typed
    <2> QED BY <1>0, <1>1, <2>1 DEF PruneRead, Typed
  <1>2. ASSUME NEW p \in Entries, FillStart(p)
        PROVE  Typed'
    <2>1. fill' \in FillType /\ vol' \in [Volumes -> BOOLEAN]
      BY <1>0, <1>2 DEF FillStart, FillType, Typed
    <2> QED BY <1>0, <1>2, <2>1 DEF FillStart, Typed
  <1>3. \A pc \in {"prune", "unvolume", "insert"} : [fill EXCEPT !.pc = pc] \in FillType
    BY <1>0 DEF FillType
  <1>4. CASE PruneInspect \/ Prune \/ PruneVolume
    <2>1. fill' \in FillType
      BY <1>0, <1>3, <1>4 DEF PruneInspect, Prune, PruneVolume
    <2>2. pool' \in [Entries -> PoolType] /\ vol' \in [Volumes -> BOOLEAN]
      BY <1>0, <1>4, DockerTyped DEF PruneInspect, Prune, PruneVolume, Typed, PoolType
    <2> QED BY <1>0, <1>4, <2>1, <2>2 DEF PruneInspect, Prune, PruneVolume, Typed
  <1>5. CASE FillRun
    <2>1. fill' \in FillType
      BY <1>3, <1>5 DEF FillRun
    <2>2. fill.entry \in Containers /\ fill.entry \in Volumes
      BY <1>0, <1>5 DEF FillRun, OthersFit, Containers, Volumes
    <2>3. cont' \in [Containers -> ContType] /\ vol' \in [Volumes -> BOOLEAN]
      BY <1>0, <1>5, <2>2, RunTyped DEF FillRun, Typed
    <2> QED BY <1>0, <1>5, <2>1, <2>3 DEF FillRun, Typed
  <1>6. CASE FillInsert
    <2>1. fill' \in FillType
      BY <1>0, <1>3, <1>6 DEF FillInsert
    <2>2. fill.entry \in Containers
      BY <1>0, <1>6 DEF FillInsert, OthersFit, Containers
    <2>3. cont' \in [Containers -> ContType] /\ lost' \subseteq Containers /\ pool' \in [Entries -> PoolType]
      BY <1>0, <1>6, <2>2, DockerTyped DEF FillInsert, Typed, PoolType
    <2> QED BY <1>0, <1>6, <2>1, <2>3 DEF FillInsert, Typed
  <1>7. CASE Collect
    <2>1. gc' \in GcType
      BY <1>0, <1>7 DEF Collect, GcContainer, GcVolume, GcRemove, GcType
    <2>2. cont' \in [Containers -> ContType] /\ vol' \in [Volumes -> BOOLEAN]
      BY <1>0, <1>7, DockerTyped DEF Collect, GcContainer, GcVolume, GcRemove, Typed
    <2> QED BY <1>0, <1>7, <2>1, <2>2 DEF Collect, GcContainer, GcVolume, GcRemove, Typed
  <1>8. ASSUME NEW c \in Containers, Exit(c) \/ DockerPrune(c)
        PROVE  Typed'
    <2>1. fill' \in FillType /\ gc' \in GcType
      BY <1>0, <1>8 DEF Exit, DockerPrune, Typed, FillType, GcType
    <2> QED BY <1>0, <1>8, <2>1, DockerTyped DEF Exit, DockerPrune, Typed
  <1>9. CASE Crash
    <2>1. creator' \in [Envs -> CreatorType] /\ user' \in UserType /\ rec' \in RecType /\ fill' \in FillType /\ gc' \in GcType
      BY <1>0, <1>9 DEF Crash, Idle, CreatorType, UserIdle, UserType, RecIdle, RecType
    <2>2. sweep' \in SweepType
      BY <1>0, <1>9 DEF Crash, Typed, SweepIdle, SweepType
    <2>3. lost' \subseteq Containers
      <3>1. InFlight \subseteq Containers \cup {Nothing}
        BY <1>0 DEF InFlight, Typed, CreatorType, UserType, FillType, Containers
      <3> QED BY <1>0, <1>9, <3>1 DEF Crash, Typed
    <2> QED BY <1>0, <1>9, <2>1, <2>2, <2>3 DEF Crash, Typed
  <1> QED BY <1>1, <1>2, <1>4, <1>5, <1>6, <1>7, <1>8, <1>9 DEF Refill

\* Every step keeps the types.
LEMMA StepTyped == Shape /\ [Next]_vars => Typed'
  <1>1. Shape /\ UNCHANGED vars => Typed'
    BY DEF Shape, Typed, vars
  <1> QED BY <1>1, CreateTyped, UserTyped, ReconcileTyped, SweepTyped, RestTyped DEF Next

-----------------------------------------------------------------------------
(* What the goroutines and the rows have in common. *)

\* What a step does to the row of an environment when its create does nothing: it stays, or it is deleted.
RowKept(e) ==
  \/ env'[e] = env[e]
  \/ HasRow(e) /\ HasRow(e)' /\ env'[e].vol = env[e].vol
  \/ env[e].status # "absent" /\ env'[e] = Deleted

\* A create that stays where it is, or is over, fits its row if that stays or is deleted.
LEMMA CreatorRests ==
  ASSUME Shape, NEW e \in Envs, creator'[e] = creator[e] \/ creator'[e] = Idle, RowKept(e)
  PROVE  CreatorFits(e)'
  <1>0. CreatorFits(e)
    BY DEF Shape, Fits
  <1>1. /\ creator'[e].pc = "insert" => env'[e] = Absent
        /\ env'[e].status = "absent" => env'[e] = Absent /\ creator'[e].pc \in {"idle", "insert"}
        /\ env'[e].status = "deleted" => env'[e] = Deleted
    BY <1>0 DEF CreatorFits, RowKept, HasRow, At, Idle, Absent, Deleted
  <1>2. CASE creator'[e] = creator[e]
    BY <1>0, <1>1, <1>2 DEF CreatorFits, At
  <1>3. CASE creator'[e] = Idle
    BY <1>1, <1>3 DEF CreatorFits, At, Idle, Undoing
  <1> QED BY <1>2, <1>3

\* A create that is about to end has done with its row.
LEMMA CreatorEnds ==
  ASSUME NEW e \in Envs, CreatorFits(e), ~At(e, "idle"), ~At(e, "insert"),
         creator'[e].pc \in {"unvolume", "fail"}, RowKept(e)
  PROVE  CreatorFits(e)'
  <1>1. env'[e].status # "absent" /\ (env'[e].status = "deleted" => env'[e] = Deleted)
    BY DEF CreatorFits, RowKept, HasRow, Deleted, Absent
  <1> QED BY <1>1 DEF CreatorFits, At, Undoing

\* The row and the goroutine of another environment do not change.
LEMMA CreateElsewhere ==
  ASSUME Shape, NEW e \in Envs, CreateBegin(e) \/ Create(e), NEW d \in Envs, d # e
  PROVE  env'[d] = env[d] /\ creator'[d] = creator[d]
  <1>0. env \in [Envs -> EnvType] /\ creator \in [Envs -> CreatorType]
    BY DEF Shape, Typed
  <1>1. \A pc : Goto(e, pc) => creator'[d] = creator[d]
    BY <1>0 DEF Goto
  <1>2. \A status, c : WithStatus(e, status)[d] = env[d] /\ Committed(e, c)[d] = env[d] /\ Created(e)[d] = env[d]
    BY <1>0 DEF WithStatus, Committed, Created
  <1>3. CASE CreateBegin(e) \/ NoNetwork(e) \/ Transfer(e) \/ Unclaim(e) \/ UndoContainer(e) \/ UndoStorage(e)
    BY <1>0, <1>1, <1>3 DEF CreateBegin, NoNetwork, Transfer, Unclaim, UndoContainer, UndoStorage
  <1>4. CASE Insert(e)
    BY <1>0, <1>1, <1>4 DEF Insert
  <1>5. CASE Acquire(e)
    BY <1>0, <1>1, <1>5 DEF Acquire
  <1>6. CASE Reset(e) \/ MakeVolume(e)
    BY <1>0, <1>1, <1>6 DEF Reset, MakeVolume
  <1>7. CASE RunCold(e) \/ RunFailed(e)
    BY <1>0, <1>1, <1>2, <1>7 DEF RunCold, RunFailed
  <1>8. CASE Commit(e) \/ DropRow(e) \/ Fail(e)
    BY <1>0, <1>1, <1>2, <1>8 DEF Commit, DropRow, Fail
  <1> QED BY <1>3, <1>4, <1>5, <1>6, <1>7, <1>8 DEF Create, CreateBegin

\* A create and its row fit after each of its steps.
LEMMA CreateFits ==
  ASSUME Shape, NEW e \in Envs, CreateBegin(e) \/ Create(e)
  PROVE  CreatorFits(e)'
  <1>0. /\ env[e] \in EnvType /\ creator[e] \in CreatorType /\ CreatorFits(e)
        /\ env \in [Envs -> EnvType] /\ creator \in [Envs -> CreatorType]
        /\ e \in Volumes /\ e \notin Containers /\ e # Nothing /\ Nothing \notin Containers
    BY EnvironmentsAssumption DEF Shape, Fits, Typed, Containers, Volumes
  <1>1. \A pc : Goto(e, pc) =>
          creator'[e].pc = pc /\ creator'[e].cid = creator[e].cid /\ creator'[e].vol = creator[e].vol
    BY <1>0 DEF Goto, CreatorType
  <1>2. \A status \in Statuses \ {"absent", "deleted"} :
          env' = WithStatus(e, status) => RowKept(e) /\ (env[e].status = "absent" <=> env'[e].status = "absent")
    BY <1>0 DEF WithStatus, RowKept, HasRow, EnvType
  <1>3. CASE CreateBegin(e)
    BY <1>0, <1>1, <1>3 DEF CreateBegin, CreatorFits, At, Idle, Absent, Undoing, CreatorType
  <1>4. CASE Insert(e)
    <2>1. CASE env' = [env EXCEPT ![e] = [Absent EXCEPT !.status = "creating", !.vol = e]] /\ Goto(e, "acquire")
      <3>1. env'[e].status = "creating" /\ creator'[e].pc = "acquire" /\ creator'[e].cid = Nothing
        BY <1>0, <1>1, <1>4, <2>1 DEF Insert, CreatorFits, Absent
      <3> QED BY <3>1 DEF CreatorFits, At, Undoing
    <2>2. CASE creator' = [creator EXCEPT ![e] = Idle] /\ UNCHANGED env
      <3>1. RowKept(e) /\ creator'[e] = Idle
        BY <1>0, <2>2 DEF RowKept
      <3> QED BY <3>1, CreatorRests
    <2> QED BY <1>4, <2>1, <2>2 DEF Insert
  <1>5. CASE NoNetwork(e) \/ Transfer(e) \/ Unclaim(e) \/ UndoContainer(e) \/ UndoStorage(e) \/ MakeVolume(e)
    BY <1>0, <1>1, <1>5 DEF NoNetwork, Transfer, Unclaim, UndoContainer, UndoStorage, MakeVolume,
       CreatorFits, At, Idle, Undoing, CreatorType, Containers, Volumes
  <1>6. CASE Acquire(e)
    <2>1. CASE Goto(e, "volume") /\ UNCHANGED env
      BY <1>0, <1>1, <1>6, <2>1 DEF Acquire, CreatorFits, At, Idle, Undoing, CreatorType
    <2>2. ASSUME NEW p \in Entries, env[e].status = "creating", env' = [env EXCEPT ![e].cid = p, ![e].vol = p],
                 creator' = [creator EXCEPT ![e] = [pc |-> "transfer", cid |-> p, vol |-> p]]
          PROVE  CreatorFits(e)'
      BY <1>0, <2>2 DEF CreatorFits, At, Idle, Undoing, EnvType
    <2> QED BY <1>6, <2>1, <2>2 DEF Acquire
  <1>7. CASE Reset(e)
    <2>1. env'[e].status = env[e].status /\ (env'[e] = env[e] \/ HasRow(e))
      BY <1>0, <1>7 DEF Reset, HasRow, EnvType
    <2> QED BY <1>0, <1>1, <1>7, <2>1 DEF Reset, CreatorFits, At, Idle, Undoing, HasRow, CreatorType
  <1>8. CASE RunCold(e)
    <2>1. ASSUME NEW c \in Unused, creator' = [creator EXCEPT ![e].pc = "commit", ![e].cid = c], UNCHANGED env, At(e, "run")
          PROVE  CreatorFits(e)'
      <3>1. /\ creator'[e].pc = "commit" /\ creator'[e].cid = c /\ creator'[e].vol = e
            /\ c \in Containers /\ c \notin Entries /\ e \notin Entries
        BY <1>0, <2>1, EnvironmentsAssumption DEF Unused, CreatorFits, CreatorType, At, Containers
      <3> QED BY <1>0, <2>1, <3>1 DEF CreatorFits, At, Undoing
    <2>2. CASE env' = WithStatus(e, "failed") /\ Goto(e, "unvolume")
      <3>1. RowKept(e)
        BY <1>2, <2>2 DEF Statuses
      <3> QED BY <1>0, <1>1, <1>8, <2>2, <3>1, CreatorEnds DEF RunCold, At
    <2> QED BY <1>8, <2>1, <2>2 DEF RunCold
  <1>9. CASE RunFailed(e) \/ Fail(e)
    <2>1. RowKept(e) /\ creator'[e] = Idle
      BY <1>0, <1>2, <1>9 DEF RunFailed, Fail, RowKept, Statuses
    <2> QED BY <2>1, CreatorRests
  <1>10. CASE Commit(e)
    <2>1. CASE env' = Created(e) /\ creator' = [creator EXCEPT ![e] = Idle] /\ MayCommit(e, "creating")
      <3>1. RowKept(e) /\ creator'[e] = Idle
        <4>1. env' = [env EXCEPT ![e] = [env[e] EXCEPT !.status = "running", !.cid = creator[e].cid,
                                                       !.lease = "live", !.used = TRUE]]
          BY <2>1, CommittedRow DEF Shape
        <4>2. env'[e].status = "running" /\ env'[e].vol = env[e].vol
          BY <1>0, <4>1 DEF EnvType
        <4> QED BY <1>0, <2>1, <4>2 DEF RowKept, HasRow, MayCommit
      <3> QED BY <3>1, CreatorRests
    <2>2. CASE UNCHANGED env /\ (Goto(e, "undo") \/ Goto(e, "undoerror"))
      BY <1>0, <1>1, <1>10, <2>2 DEF Commit, CreatorFits, At, Idle, Undoing, CreatorType
    <2> QED BY <1>10, <2>1, <2>2 DEF Commit
  <1>11. CASE DropRow(e)
    <2>1. RowKept(e)
      BY <1>0, <1>11 DEF DropRow, RowKept, Deleted
    <2> QED BY <1>0, <1>1, <1>11, <2>1, CreatorEnds DEF DropRow, At
  <1> QED BY <1>3, <1>4, <1>5, <1>6, <1>7, <1>8, <1>9, <1>10, <1>11 DEF Create

\* The requests, the reconciler and a suspension leave the creates alone and keep the rows.
Request == User \/ \E e \in Envs : UserBegin(e) \/ ExtendLease(e) \/ LeaseExpires(e)

Elsewhere ==
  \/ Reconcile \/ Refill \/ Collect \/ Suspend \/ Reactivate \/ Sweep \/ Crash
  \/ \E c \in Containers : Exit(c) \/ DockerPrune(c)

\* Start, Stop, Delete and the lease keep the volume that a row names, or delete the row.
LEMMA RequestKeepsRows ==
  ASSUME Shape, Request, NEW e \in Envs
  PROVE  RowKept(e) /\ creator' = creator
  <1>0. /\ env \in [Envs -> EnvType] /\ UserFits
    BY DEF Shape, Fits, Typed
  <1>1. ASSUME NEW d \in Envs, UserBegin(d) \/ ExtendLease(d) \/ LeaseExpires(d)
        PROVE  RowKept(e) /\ creator' = creator
    <2>1. CASE UserBegin(d)
      BY <2>1 DEF UserBegin, RowKept
    <2>2. CASE ExtendLease(d)
      BY <1>0, <2>2 DEF ExtendLease, RowKept, HasRow, EnvType
    <2>3. CASE LeaseExpires(d)
      <3>1. env[d].status \notin {"absent", "deleted"}
        BY <1>0, <2>3 DEF LeaseExpires, Shape, Fits, CreatorFits, Absent, Deleted
      <3> QED BY <1>0, <2>3, <3>1 DEF LeaseExpires, RowKept, HasRow, EnvType
    <2> QED BY <1>1, <2>1, <2>2, <2>3
  <1>2. CASE StartHold
    BY <1>0, <1>2 DEF StartHold, Hold, RowKept, HasRow, EnvType
  <1>3. CASE StartContainer \/ StartUndo \/ StopContainer \/ DeleteContainer \/ DeleteStorage
    BY <1>3 DEF StartContainer, StartUndo, StopContainer, DeleteContainer, DeleteStorage, RowKept
  <1>4. CASE StartCommit
    <2>1. CASE UNCHANGED env
      BY <1>4, <2>1 DEF StartCommit, RowKept
    <2>2. CASE MayCommit(user.env, "stopped") /\ env' = Committed(user.env, user.cid)
      <3>1. PICK d \in Envs : d = user.env
        BY <1>0, <1>4 DEF StartCommit, UserFits
      <3>2. env' = [env EXCEPT ![d] = [env[d] EXCEPT !.status = "running", !.cid = user.cid,
                                                     !.lease = "live"]]
        BY <2>2, <3>1, CommittedRow DEF Shape
      <3>3. CASE e # d
        BY <1>0, <1>4, <3>2, <3>3 DEF RowKept, StartCommit
      <3>4. CASE e = d
        <4>1. env'[e].status = "running" /\ env'[e].vol = env[e].vol
          BY <1>0, <3>2, <3>4 DEF EnvType
        <4> QED BY <1>4, <2>2, <3>1, <3>4, <4>1 DEF RowKept, HasRow, MayCommit, StartCommit
      <3> QED BY <3>3, <3>4
    <2> QED BY <1>4, <2>1, <2>2 DEF StartCommit
  <1>5. CASE StopWrite
    BY <1>0, <1>5 DEF StopWrite, WithStatus, RowKept, HasRow, EnvType
  <1>6. CASE DeleteRow
    BY <1>0, <1>6 DEF DeleteRow, UserFits, RowKept, Absent, Deleted
  <1> QED BY <1>1, <1>2, <1>3, <1>4, <1>5, <1>6 DEF Request, User

\* Nobody else deletes a row or gives it another container or volume.
LEMMA ElsewhereKeepsRows ==
  ASSUME Shape, Elsewhere, NEW e \in Envs
  PROVE  /\ env'[e] = env[e] \/ (HasRow(e) /\ HasRow(e)' /\ env'[e].cid = env[e].cid /\ env'[e].vol = env[e].vol)
         /\ creator'[e] = creator[e] \/ creator'[e] = Idle
  <1>0. env \in [Envs -> EnvType]
    BY DEF Shape, Fits, Typed
  <1>1. \A d \in Envs, status \in {"failed", "stopped"} :
          env' = WithStatus(d, status) =>
            env'[e] = env[e] \/ (HasRow(e) /\ HasRow(e)' /\ env'[e].cid = env[e].cid /\ env'[e].vol = env[e].vol)
    BY <1>0 DEF WithStatus, HasRow, EnvType
  <1>2. CASE Reconcile
    <2>1. Reconcile => \/ UNCHANGED env
                       \/ \E d \in Envs, status \in {"failed", "stopped"} : env' = WithStatus(d, status)
      BY DEF Reconcile, RecRead, RecFailStale, RecWatch, RecMark, RecInspect, RecRecheck, RecClaim, RecStop,
             Shape, Fits, OthersFit
    <2>2. creator' = creator
      BY <1>2 DEF Reconcile, RecRead, RecFailStale, RecWatch, RecMark, RecInspect, RecRecheck, RecClaim, RecStop,
                  UnchangedButRec
    <2> QED BY <1>1, <1>2, <2>1, <2>2
  <1>3. CASE Suspend \/ Reactivate \/ Sweep
    <2>1. \/ UNCHANGED env
          \/ \E d \in Envs, status \in {"failed", "stopped"} : env' = WithStatus(d, status)
      BY <1>3 DEF Suspend, Reactivate, Sweep, SweepList, SweepStop, SweepWrite, SweepNext, Shape, Fits, OthersFit
    <2>2. creator' = creator
      BY <1>3 DEF Suspend, Reactivate, Sweep, SweepList, SweepStop, SweepWrite, SweepNext, UnchangedButSweep
    <2> QED BY <1>1, <2>1, <2>2
  <1>4. CASE Refill \/ Collect \/ \E c \in Containers : Exit(c) \/ DockerPrune(c)
    BY <1>4 DEF Refill, PruneRead, PruneInspect, Prune, PruneVolume, FillStart, FillRun, FillInsert,
                Collect, GcContainer, GcVolume, GcRemove, Exit, DockerPrune
  <1>5. CASE Crash
    BY <1>5 DEF Crash
  <1> QED BY <1>2, <1>3, <1>4, <1>5 DEF Elsewhere

\* A step is one of a create, of a request, or of the rest.
LEMMA NextSplits == Next <=> \/ \E e \in Envs : CreateBegin(e) \/ Create(e)
                             \/ Request \/ Elsewhere
  BY DEF Next, Request, Elsewhere

\* Row and goroutine of every create fit after a step as before.
LEMMA CreatorsFit ==
  ASSUME Shape, Next, NEW e \in Envs
  PROVE  CreatorFits(e)' /\ (env[e].status # "absent" => env'[e].status # "absent")
  <1>1. ASSUME NEW d \in Envs, CreateBegin(d) \/ Create(d)
        PROVE  CreatorFits(e)'
    <2>1. CASE d = e
      BY <1>1, <2>1, CreateFits
    <2>2. CASE d # e
      BY <1>1, <2>2, CreateElsewhere, CreatorRests DEF RowKept
    <2> QED BY <2>1, <2>2
  <1>2. Request => CreatorFits(e)'
    BY RequestKeepsRows, CreatorRests
  <1>3. Elsewhere => CreatorFits(e)'
    BY ElsewhereKeepsRows, CreatorRests DEF RowKept
  <1>4. CreatorFits(e)'
    BY <1>1, <1>2, <1>3, NextSplits
  <1>5. ASSUME env[e].status # "absent", env'[e] = Absent
        PROVE  FALSE
    <2>1. ~Request /\ ~Elsewhere
      BY <1>5, RequestKeepsRows, ElsewhereKeepsRows DEF RowKept, HasRow, Absent, Deleted
    <2>2. PICK d \in Envs : CreateBegin(d) \/ Create(d)
      BY <2>1, NextSplits
    <2>3. d = e
      BY <1>5, <2>2, CreateElsewhere DEF Absent
    <2>4. env \in [Envs -> EnvType]
      BY DEF Shape, Typed
    <2>5. CASE env' = [env EXCEPT ![e] = [Absent EXCEPT !.status = "creating", !.vol = e]]
      BY <1>5, <2>4, <2>5 DEF Absent
    <2>6. CASE env' = [env EXCEPT ![e] = [Absent EXCEPT !.status = "deleted"]]
      BY <1>5, <2>4, <2>6 DEF Absent
    <2>7. CASE env'[e].status \in {env[e].status, "running", "failed"}
      BY <1>5, <2>7 DEF Absent
    <2>8. \/ env' = [env EXCEPT ![e] = [Absent EXCEPT !.status = "creating", !.vol = e]]
          \/ env' = [env EXCEPT ![e] = [Absent EXCEPT !.status = "deleted"]]
          \/ env'[e].status \in {env[e].status, "running", "failed"}
      <3>1. /\ Insert(e) => UNCHANGED env \/ env' = [env EXCEPT ![e] = [Absent EXCEPT !.status = "creating", !.vol = e]]
            /\ DropRow(e) => UNCHANGED env \/ env' = [env EXCEPT ![e] = [Absent EXCEPT !.status = "deleted"]]
        BY DEF Insert, DropRow
      <3>2. Acquire(e) \/ Reset(e) => env'[e].status = env[e].status
        <4>1. Acquire(e) => env'[e].status = env[e].status
          <5>1. Acquire(e) => UNCHANGED env \/ \E p \in Entries : env' = [env EXCEPT ![e].cid = p, ![e].vol = p]
            BY DEF Acquire
          <5> QED BY <2>4, <5>1 DEF EnvType
        <4>2. Reset(e) => env'[e].status = env[e].status
          BY <2>4 DEF Reset, EnvType
        <4> QED BY <4>1, <4>2
      <3>3. RunCold(e) \/ Fail(e) \/ Commit(e) => env'[e].status \in {env[e].status, "running", "failed"}
        <4>1. env' = WithStatus(e, "failed") => env'[e].status \in {env[e].status, "failed"}
          BY <2>4 DEF WithStatus, EnvType
        <4>2. env' = Created(e) => env'[e].status = "running"
          <5> SUFFICES ASSUME env' = Created(e) PROVE env'[e].status = "running"
            OBVIOUS
          <5>1. env' = [env EXCEPT ![e] = [env[e] EXCEPT !.status = "running", !.cid = creator[e].cid,
                                                         !.lease = "live", !.used = TRUE]]
            BY CommittedRow DEF Shape
          <5> QED BY <2>4, <5>1 DEF EnvType
        <4> QED BY <4>1, <4>2 DEF RunCold, Fail, Commit
      <3>4. CASE UNCHANGED env
        BY <3>4
      <3> QED BY <2>2, <2>3, <3>1, <3>2, <3>3, <3>4 DEF Create, CreateBegin, NoNetwork, Transfer, Unclaim,
                 MakeVolume, RunFailed, UndoContainer, UndoStorage
    <2> QED BY <2>5, <2>6, <2>7, <2>8
  <1> QED BY <1>4, <1>5 DEF CreatorFits

\* The request that holds the mutex works on an environment after a step as before.
LEMMA UserFitsStep ==
  ASSUME Shape, Next
  PROVE  UserFits'
  <1>0. UserFits /\ user \in UserType /\ Nothing \notin Containers
    BY EnvironmentsAssumption DEF Shape, Fits, Typed, Containers
  <1>1. user.pc # "idle" => user.env \in Envs /\ env'[user.env].status # "absent"
    BY <1>0, CreatorsFit DEF UserFits
  <1>2. CASE user' = user
    BY <1>0, <1>1, <1>2 DEF UserFits
  <1>3. CASE user' = UserIdle
    BY <1>3 DEF UserFits, UserIdle
  <1>4. ASSUME NEW e \in Envs, UserBegin(e)
        PROVE  UserFits'
    <2>1. HasRow(e) /\ env' = env /\ user'.env = e /\ user'.pc \in {"hold", "stop", "remove"} /\ ~user'.made
      BY <1>4 DEF UserBegin, HasRow
    <2> QED BY <2>1 DEF UserFits, HasRow
  <1>5. User => \/ user' = UserIdle
                \/ user.pc # "idle" /\ \E pc \in {"start", "write", "storage", "erase"} : UserGoto(pc) /\ ~user.made
                \/ user.pc = "start" /\ UserGoto("commit") /\ user.cid \in Containers
                \/ user.pc = "commit" /\ UserGoto("undo")
                \/ \E n \in Unused : user.pc = "start" /\ user' = [user EXCEPT !.pc = "commit", !.cid = n, !.made = TRUE]
    <2>1. CASE StartContainer
      BY <1>0, <2>1 DEF StartContainer, Exists, UserType
    <2>2. CASE ~StartContainer
      BY <1>0, <2>2 DEF User, StartHold, Hold, StartCommit, StartUndo, StopContainer, StopWrite, DeleteContainer,
                        DeleteStorage, DeleteRow, UserFits
    <2> QED BY <2>1, <2>2
  <1>6. CASE User
    <2>1. CASE user.pc # "idle" /\ \E pc \in {"start", "write", "storage", "erase"} : UserGoto(pc) /\ ~user.made
      BY <1>0, <1>1, <2>1 DEF UserGoto, UserFits, UserType
    <2>2. CASE user.pc = "start" /\ UserGoto("commit") /\ user.cid \in Containers
      BY <1>0, <1>1, <2>2 DEF UserGoto, UserFits, UserType
    <2>3. CASE user.pc = "commit" /\ UserGoto("undo")
      BY <1>0, <1>1, <2>3 DEF UserGoto, UserFits, UserType
    <2>4. ASSUME NEW n \in Unused, user.pc = "start", user' = [user EXCEPT !.pc = "commit", !.cid = n, !.made = TRUE]
          PROVE  UserFits'
      BY <1>0, <1>1, <2>4 DEF UserFits, UserType, Unused, Containers
    <2> QED BY <1>3, <1>5, <1>6, <2>1, <2>2, <2>3, <2>4
  <1>7. CASE Elsewhere
    BY <1>2, <1>3, <1>7 DEF Elsewhere, Reconcile, RecRead, RecFailStale, RecWatch, RecMark, RecInspect, RecRecheck,
       RecClaim, RecStop, UnchangedButRec, Refill, PruneRead, PruneInspect, Prune, PruneVolume, FillStart, FillRun,
       FillInsert, Collect, GcContainer, GcVolume, GcRemove, Exit, DockerPrune, Suspend, Reactivate, Sweep, SweepList,
       SweepStop, SweepWrite, SweepNext, UnchangedButSweep, Crash
  <1>8. ASSUME NEW e \in Envs, CreateBegin(e) \/ Create(e)
        PROVE  UserFits'
    BY <1>2, <1>8 DEF CreateBegin, Create, Insert, NoNetwork, Acquire, Transfer, Unclaim, Reset, MakeVolume, RunCold,
       RunFailed, Commit, UndoContainer, UndoStorage, DropRow, Fail
  <1>9. CASE \E e \in Envs : ExtendLease(e) \/ LeaseExpires(e)
    BY <1>2, <1>9 DEF ExtendLease, LeaseExpires
  <1> QED BY <1>4, <1>6, <1>7, <1>8, <1>9, NextSplits DEF Request

\* A Start that takes hold of a lease, and an operator who removes a container, change no more of the
\* reconciler, the refill and the collector than their histories.
LEMMA HistoryOnly ==
  ASSUME Shape
  PROVE  /\ StartHold => rec'.pc = rec.pc /\ rec'.env = rec.env /\ rec'.cid = rec.cid /\ (rec.late => rec'.late)
         /\ \A c \in Containers : DockerPrune(c) =>
              /\ fill'.pc = fill.pc /\ fill'.entry = fill.entry /\ fill'.was = fill.was
              /\ gc'.kind = gc.kind /\ gc'.name = gc.name
         /\ StartHold /\ rec = RecIdle => rec' = RecIdle
         /\ \A c \in Containers : DockerPrune(c) =>
              (fill = FillIdle => fill' = FillIdle) /\ (gc = GcIdle => gc' = GcIdle)
  <1>1. rec \in RecType /\ fill \in FillType /\ gc \in GcType /\ Nothing \notin Containers
    BY EnvironmentsAssumption DEF Shape, Typed, Containers
  <1>2. StartHold => rec'.pc = rec.pc /\ rec'.env = rec.env /\ rec'.cid = rec.cid /\ (rec.late => rec'.late)
    BY <1>1 DEF StartHold, RecType
  <1>3. ASSUME NEW c \in Containers, DockerPrune(c)
        PROVE  fill'.pc = fill.pc /\ fill'.entry = fill.entry /\ fill'.was = fill.was
    BY <1>1, <1>3 DEF DockerPrune, FillType
  <1>4. ASSUME NEW c \in Containers, DockerPrune(c)
        PROVE  gc'.kind = gc.kind /\ gc'.name = gc.name
    BY <1>1, <1>4 DEF DockerPrune, GcType
  <1>5. ASSUME StartHold, rec = RecIdle
        PROVE  rec' = RecIdle
    BY <1>5 DEF StartHold, RecIdle
  <1>6. ASSUME NEW c \in Containers, DockerPrune(c), fill = FillIdle
        PROVE  fill' = FillIdle
    BY <1>1, <1>6 DEF DockerPrune, FillIdle
  <1>7. ASSUME NEW c \in Containers, DockerPrune(c), gc = GcIdle
        PROVE  gc' = GcIdle
    BY <1>7 DEF DockerPrune, GcIdle
  <1> QED BY <1>2, <1>3, <1>4, <1>5, <1>6, <1>7

\* The reconciler, the sweep, the refill and GC know what they work on after a step as before.
LEMMA OthersFitStep ==
  ASSUME Shape, Next
  PROVE  OthersFit'
  <1>0. OthersFit /\ rec \in RecType /\ sweep \in SweepType /\ fill \in FillType /\ gc \in GcType
    BY DEF Shape, Fits, Typed
  <1>1. CASE UNCHANGED <<rec, sweep, fill, gc>>
    BY <1>0, <1>1 DEF OthersFit
  <1>2. CASE Reconcile
    <2>1. (rec'.pc = "idle" => rec' = RecIdle) /\ (rec'.pc # "idle" => rec'.env \in Envs)
      <3>1. ASSUME NEW e \in Envs, RecRead(e) \/ RecFailStale(e)
            PROVE  (rec'.pc = "idle" => rec' = RecIdle) /\ (rec'.pc # "idle" => rec'.env \in Envs)
        BY <1>0, <3>1 DEF RecRead, RecFailStale, OthersFit
      <3>2. CASE RecWatch \/ RecMark \/ RecInspect \/ RecRecheck \/ RecClaim \/ RecStop
        BY <1>0, <3>2 DEF RecWatch, RecMark, RecInspect, RecRecheck, RecClaim, RecStop, OthersFit, RecType, RecIdle
      <3> QED BY <1>2, <3>1, <3>2 DEF Reconcile
    <2>2. UNCHANGED <<sweep, fill, gc>>
      BY <1>2 DEF Reconcile, RecRead, RecFailStale, RecWatch, RecMark, RecInspect, RecRecheck, RecClaim, RecStop,
                  UnchangedButRec
    <2> QED BY <1>0, <2>1, <2>2 DEF OthersFit
  <1>3. CASE Suspend \/ Reactivate \/ Sweep
    <2>1. sweep'.pc = "write" => sweep'.env \in Envs
      <3>1. CASE Suspend \/ Reactivate
        <4>1. Suspend => sweep'.pc = "list"
          BY DEF Suspend, SweepIdle
        <4>2. Reactivate => sweep' = sweep \/ sweep'.pc = "idle"
          BY DEF Reactivate, SweepIdle
        <4> QED BY <1>0, <3>1, <4>1, <4>2 DEF OthersFit
      <3>2. ASSUME NEW e \in Envs, SweepStop(e)
            PROVE  sweep'.pc = "write" => sweep'.env \in Envs
        BY <1>0, <3>2 DEF SweepStop, SweepType
      <3>3. CASE SweepList \/ SweepWrite \/ SweepNext
        <4>1. SweepList => sweep'.pc = "stop"
          BY <1>0 DEF SweepList, SweepType
        <4>2. SweepWrite => sweep'.pc = "stop"
          BY <1>0 DEF SweepWrite, SweepType
        <4>3. SweepNext => sweep'.pc \in {"list", "idle"}
          BY DEF SweepNext, SweepIdle
        <4> QED BY <3>3, <4>1, <4>2, <4>3
      <3> QED BY <1>3, <3>1, <3>2, <3>3 DEF Sweep
    <2>2. UNCHANGED <<rec, fill, gc>>
      BY <1>3 DEF Suspend, Reactivate, Sweep, SweepList, SweepStop, SweepWrite, SweepNext, UnchangedButSweep
    <2> QED BY <1>0, <2>1, <2>2 DEF OthersFit
  <1>4. CASE Refill
    <2>1. (fill'.pc = "idle" => fill' = FillIdle) /\ (fill'.pc # "idle" => fill'.entry \in Entries)
      <3>1. ASSUME NEW p \in Entries, PruneRead(p) \/ FillStart(p)
            PROVE  (fill'.pc = "idle" => fill' = FillIdle) /\ (fill'.pc # "idle" => fill'.entry \in Entries)
        <4>1. PruneRead(p) => fill'.pc = "inspect" /\ fill'.entry = p
          BY DEF PruneRead
        <4>2. FillStart(p) => fill'.pc = "run" /\ fill'.entry = p
          BY <1>0 DEF FillStart, FillType
        <4> QED BY <3>1, <4>1, <4>2
      <3>2. CASE PruneInspect \/ Prune \/ PruneVolume \/ FillRun \/ FillInsert
        <4>1. fill.pc # "idle" /\ fill.entry \in Entries
          BY <1>0, <3>2 DEF PruneInspect, Prune, PruneVolume, FillRun, FillInsert, OthersFit
        <4>2. fill' = FillIdle \/ \E pc \in {"prune", "unvolume", "insert"} : fill' = [fill EXCEPT !.pc = pc]
          BY <3>2 DEF PruneInspect, Prune, PruneVolume, FillRun, FillInsert
        <4> QED BY <1>0, <4>1, <4>2 DEF FillType, FillIdle
      <3> QED BY <1>4, <3>1, <3>2 DEF Refill
    <2>2. UNCHANGED <<rec, sweep, gc>>
      BY <1>4 DEF Refill, PruneRead, PruneInspect, Prune, PruneVolume, FillStart, FillRun, FillInsert
    <2> QED BY <1>0, <2>1, <2>2 DEF OthersFit
  <1>5. CASE Collect
    <2>1. CASE gc' = GcIdle
      BY <1>0, <1>5, <2>1 DEF Collect, GcContainer, GcVolume, GcRemove, OthersFit, GcIdle
    <2>2. CASE \E c \in Containers : GcContainer(c)
      BY <1>0, <2>2 DEF GcContainer, OthersFit
    <2>3. CASE \E v \in Volumes : GcVolume(v)
      BY <1>0, <2>3 DEF GcVolume, OthersFit
    <2> QED BY <1>5, <2>1, <2>2, <2>3 DEF Collect, GcRemove
  <1>6. CASE Crash
    BY <1>0, <1>6 DEF Crash, OthersFit, RecIdle, FillIdle, GcIdle, SweepIdle
  <1>7. ASSUME NEW e \in Envs, CreateBegin(e) \/ Create(e)
        PROVE  OthersFit'
    BY <1>1, <1>7 DEF CreateBegin, Create, Insert, NoNetwork, Acquire, Transfer, Unclaim, Reset, MakeVolume, RunCold,
       RunFailed, Commit, UndoContainer, UndoStorage, DropRow, Fail
  <1>8. CASE Request
    <2>1. CASE StartHold
      <3>1. UNCHANGED <<sweep, fill, gc>> /\ (rec = RecIdle => rec' = RecIdle)
            /\ rec'.pc = rec.pc /\ rec'.env = rec.env
        BY <2>1, HistoryOnly DEF StartHold
      <3> QED BY <1>0, <3>1 DEF OthersFit
    <2>2. CASE ~StartHold
      BY <1>1, <1>8, <2>2 DEF Request, UserBegin, ExtendLease, LeaseExpires, User, StartContainer, StartCommit,
         StartUndo, StopContainer, StopWrite, DeleteContainer, DeleteStorage, DeleteRow
    <2> QED BY <2>1, <2>2
  <1>9. ASSUME NEW c \in Containers, Exit(c) \/ DockerPrune(c)
        PROVE  OthersFit'
    <2>1. CASE Exit(c)
      BY <1>1, <2>1 DEF Exit
    <2>2. CASE DockerPrune(c)
      <3>1. /\ UNCHANGED <<rec, sweep>> /\ (fill = FillIdle => fill' = FillIdle) /\ (gc = GcIdle => gc' = GcIdle)
            /\ fill'.pc = fill.pc /\ fill'.entry = fill.entry /\ gc'.kind = gc.kind /\ gc'.name = gc.name
        BY <2>2, HistoryOnly DEF DockerPrune
      <3> QED BY <1>0, <3>1 DEF OthersFit
    <2> QED BY <1>9, <2>1, <2>2
  <1> QED BY <1>2, <1>3, <1>4, <1>5, <1>6, <1>7, <1>8, <1>9, NextSplits DEF Elsewhere

\* Types and fits hold at the start, and every step keeps them.
LEMMA ShapeInit == Init => Shape
  <1> SUFFICES ASSUME Init PROVE Shape
    OBVIOUS
  <1>1. /\ Absent \in EnvType /\ Idle \in CreatorType /\ UserIdle \in UserType /\ RecIdle \in RecType
        /\ SweepIdle \in SweepType /\ FillIdle \in FillType /\ GcIdle \in GcType
    BY DEF Absent, EnvType, Statuses, Idle, CreatorType, UserIdle, UserType, RecIdle, RecType, SweepIdle, SweepType,
           FillIdle, FillType, PoolType, GcIdle, GcType
  <1>2. cont \in [Containers -> ContType]
    <2>1. [state |-> "none", name |-> Nothing, vol |-> Nothing] \in ContType
      BY DEF ContType
    <2>2. \A c \in Warm : [state |-> "running", name |-> c, vol |-> c] \in ContType
      BY EnvironmentsAssumption DEF ContType, Volumes
    <2> QED BY <2>1, <2>2 DEF Init
  <1>3. pool \in [Entries -> PoolType] /\ vol \in [Volumes -> BOOLEAN]
    BY DEF Init, PoolType
  <1>5. env \in [Envs -> EnvType] /\ creator \in [Envs -> CreatorType]
    BY <1>1 DEF Init
  <1>6. Typed
    BY <1>1, <1>2, <1>3, <1>5 DEF Init, Typed
  <1>4. Fits
    BY DEF Init, Fits, CreatorFits, UserFits, OthersFit, At, Idle, Absent, Undoing, UserIdle, RecIdle, SweepIdle,
           FillIdle, GcIdle
  <1> QED BY <1>4, <1>6 DEF Shape

\* Every step keeps the shape.
LEMMA ShapeStep == Shape /\ [Next]_vars => Shape'
  <1>1. Shape /\ Next => Fits'
    BY CreatorsFit, UserFitsStep, OthersFitStep DEF Fits
  <1>2. Shape /\ UNCHANGED vars => Fits'
    BY DEF Shape, Fits, vars, CreatorFits, UserFits, OthersFit, At
  <1> QED BY <1>1, <1>2, StepTyped DEF Shape

\* Rows, containers, volumes and goroutines keep their types, and the goroutines of create() and of
\* the requests know the rows and containers that their next step needs.
THEOREM TypeCorrect == Spec => []TypeOK
  <1>1. Shape => TypeOK
    BY DEF Shape, Typed, TypeOK, EnvType, PoolType, ContType, CreatorType, UserType, RecType, SweepType
  <1> QED BY <1>1, ShapeInit, ShapeStep, PTL DEF Spec

-----------------------------------------------------------------------------
(* Suspension: no row becomes "running" while the tenant is suspended, so the two passes have    *)
(* every running row either ahead of them, or stopped, or with a container that they cannot stop. *)

\* The container of environment e, if there is one, is known not to have been stopped or removed.
Spared(e) == env[e].cid \in lost \cup {Nothing}

\* The present pass has the container of e still to stop, or its row to mark.
Due(e) ==
  \/ e \in sweep.todo /\ env[e].cid = sweep.cid[e]
  \/ sweep.pc = "write" /\ sweep.env = e

Swept ==
  /\ sweep.pass \in {1, 2} <=> sweep.pc # "idle"
  /\ tenant = "suspended" /\ sweep.pc \in {"stop", "write"} =>
       \A e \in Envs : env[e].status = "running" => Due(e) \/ Spared(e)
  /\ tenant = "suspended" /\ sweep.pass = 3 =>
       \A e \in Envs : env[e].status = "running" => Spared(e)

\* While the tenant is suspended a running row has been one, and at most loses its container.
LEMMA StillRunning ==
  ASSUME Shape, Next, tenant = "suspended", NEW e \in Envs, env'[e].status = "running"
  PROVE  env[e].status = "running" /\ env'[e].cid \in {env[e].cid, Nothing}
  <1>0. env \in [Envs -> EnvType]
    BY DEF Shape, Typed
  <1>1. \A d \in Envs, status \in {"failed", "stopped"} :
          env' = WithStatus(d, status) => env'[e] = env[e]
    BY <1>0 DEF WithStatus, EnvType
  <1>2. \A d, from : ~MayCommit(d, from)
    BY DEF MayCommit
  <1>3. ASSUME NEW d \in Envs, CreateBegin(d) \/ Create(d)
        PROVE  env[e].status = "running" /\ env'[e].cid \in {env[e].cid, Nothing}
    <2>1. CASE d # e
      BY <1>3, <2>1, CreateElsewhere
    <2>2. CASE d = e
      <3>1. CASE Insert(d) \/ DropRow(d)
        <4>1. UNCHANGED env
          BY <1>0, <2>2, <3>1 DEF Insert, DropRow, Absent
        <4> QED BY <4>1
      <3>2. CASE Acquire(d)
        <4>1. UNCHANGED env \/ \E p \in Entries : /\ env[d].status = "creating"
                                                   /\ env' = [env EXCEPT ![d].cid = p, ![d].vol = p]
          BY <3>2 DEF Acquire
        <4>2. CASE UNCHANGED env
          BY <4>2
        <4>3. ASSUME NEW p \in Entries, env[d].status = "creating", env' = [env EXCEPT ![d].cid = p, ![d].vol = p]
              PROVE  env'[d].status = "creating"
          BY <1>0, <4>3 DEF EnvType
        <4> QED BY <2>2, <4>1, <4>2, <4>3
      <3>3. CASE Reset(d)
        BY <1>0, <2>2, <3>3 DEF Reset, EnvType
      <3>4. CASE RunCold(d) \/ Fail(d)
        BY <1>1, <3>4 DEF RunCold, Fail
      <3>5. CASE Commit(d) \/ UNCHANGED env
        BY <1>2, <3>5 DEF Commit
      <3>6. \/ Insert(d) \/ DropRow(d) \/ Acquire(d) \/ Reset(d) \/ RunCold(d) \/ Fail(d) \/ Commit(d)
            \/ UNCHANGED env
        BY <1>3 DEF Create, CreateBegin, NoNetwork, Transfer, Unclaim, MakeVolume, RunFailed, UndoContainer, UndoStorage
      <3> QED BY <3>1, <3>2, <3>3, <3>4, <3>5, <3>6
    <2> QED BY <2>1, <2>2
  <1>4. CASE Request
    <2>1. ASSUME NEW d \in Envs, UserBegin(d) \/ ExtendLease(d) \/ LeaseExpires(d)
          PROVE  env[e].status = "running" /\ env'[e].cid \in {env[e].cid, Nothing}
      BY <1>0, <2>1 DEF UserBegin, ExtendLease, LeaseExpires, EnvType
    <2>2. CASE StartHold
      BY <1>0, <2>2 DEF StartHold, Hold, EnvType
    <2>3. CASE StartCommit \/ UNCHANGED env
      BY <1>2, <2>3 DEF StartCommit
    <2>4. CASE StopWrite \/ DeleteRow
      BY <1>0, <2>4 DEF StopWrite, DeleteRow, WithStatus, EnvType, Absent
    <2> QED BY <1>4, <2>1, <2>2, <2>3, <2>4 DEF Request, User, StartContainer, StartUndo, StopContainer,
               DeleteContainer, DeleteStorage
  <1>5. CASE Elsewhere
    <2>1. UNCHANGED env \/ \E d \in Envs, status \in {"failed", "stopped"} : env' = WithStatus(d, status)
      BY <1>5 DEF Elsewhere, Reconcile, RecRead, RecFailStale, RecWatch, RecMark, RecInspect, RecRecheck, RecClaim,
         RecStop, UnchangedButRec, Refill, PruneRead, PruneInspect, Prune, PruneVolume, FillStart, FillRun,
         FillInsert, Collect, GcContainer, GcVolume, GcRemove, Exit, DockerPrune, Suspend, Reactivate, Sweep,
         SweepList, SweepStop, SweepWrite, SweepNext, UnchangedButSweep, Crash, Shape, Fits, OthersFit
    <2> QED BY <1>1, <2>1
  <1> QED BY <1>3, <1>4, <1>5, NextSplits

\* What a failed call or a crash has left behind is not forgotten.
LEMMA LostGrows ==
  ASSUME Next
  PROVE  lost \subseteq lost'
  <1>1. \A c : Discard(c) => lost \subseteq lost'
    BY DEF Discard
  <1>2. ASSUME NEW d \in Envs, CreateBegin(d) \/ Create(d)
        PROVE  lost \subseteq lost'
    BY <1>1, <1>2 DEF CreateBegin, Create, Insert, NoNetwork, Acquire, Transfer, Unclaim, Reset, MakeVolume, RunCold,
       RunFailed, Commit, UndoContainer, UndoStorage, DropRow, Fail
  <1>3. CASE Request
    BY <1>1, <1>3 DEF Request, UserBegin, ExtendLease, LeaseExpires, User, StartHold, Hold, StartContainer, StartCommit,
       StartUndo, StopContainer, StopWrite, DeleteContainer, DeleteStorage, DeleteRow
  <1>4. CASE Elsewhere
    BY <1>1, <1>4 DEF Elsewhere, Reconcile, RecRead, RecFailStale, RecWatch, RecMark, RecInspect, RecRecheck,
       RecClaim, RecStop, UnchangedButRec, Refill, PruneRead, PruneInspect, Prune, PruneVolume, FillStart, FillRun,
       FillInsert, Collect, GcContainer, GcVolume, GcRemove, Exit, DockerPrune, Suspend, Reactivate, Sweep, SweepList,
       SweepStop, SweepWrite, SweepNext, UnchangedButSweep, Crash
  <1> QED BY <1>2, <1>3, <1>4, NextSplits

\* What the sweep has yet to do stays known.
LEMMA SweptStep ==
  ASSUME Shape, Swept, Next
  PROVE  Swept'
  <1>0. sweep \in SweepType /\ env \in [Envs -> EnvType] /\ OthersFit /\ lost \subseteq lost'
    BY LostGrows DEF Shape, Fits, Typed
  <1>1. CASE tenant' = tenant /\ sweep' = sweep
    <2>1. ASSUME tenant = "suspended", NEW e \in Envs, env'[e].status = "running"
          PROVE  /\ env[e].status = "running"
                 /\ Spared(e) => Spared(e)'
                 /\ Due(e) => Due(e)' \/ Spared(e)'
      BY <1>0, <1>1, <2>1, StillRunning DEF Spared, Due
    <2> QED BY <1>1, <2>1 DEF Swept
  <1>2. CASE Suspend
    BY <1>2 DEF Suspend, SweepIdle, Swept
  <1>3. CASE Reactivate
    BY <1>3 DEF Reactivate, SweepIdle, Swept
  <1>4. CASE SweepList
    <2>1. /\ sweep'.pass = sweep.pass /\ sweep'.pc = "stop" /\ UNCHANGED <<tenant, env, lost>>
          /\ \A e \in Envs : env[e].status = "running" => e \in sweep'.todo /\ sweep'.cid[e] = env[e].cid
      BY <1>0, <1>4 DEF SweepList, SweepType, UnchangedButSweep
    <2>2. sweep.pass \in {1, 2}
      BY <1>4 DEF SweepList, Swept
    <2> QED BY <2>1, <2>2 DEF Swept, Due
  <1>5. ASSUME NEW e \in Envs, SweepStop(e)
        PROVE  Swept'
    <2>1. /\ sweep'.pass = sweep.pass /\ sweep'.cid = sweep.cid /\ sweep'.todo = sweep.todo \ {e}
          /\ sweep.pc = "stop" /\ UNCHANGED <<tenant, env>>
          /\ \/ sweep'.pc = "write" /\ sweep'.env = e
             \/ sweep'.pc = "stop" /\ lost' = lost \cup {sweep.cid[e]}
      BY <1>0, <1>5 DEF SweepStop, SweepType, UnchangedButSweep
    <2>2. sweep.pass \in {1, 2}
      BY <2>1 DEF Swept
    <2>3. \A d \in Envs : Due(d) \/ Spared(d) => Due(d)' \/ Spared(d)'
      BY <1>0, <2>1 DEF Due, Spared
    <2> QED BY <2>1, <2>2, <2>3 DEF Swept
  <1>6. CASE SweepWrite
    <2>1. /\ sweep'.pass = sweep.pass /\ sweep'.cid = sweep.cid /\ sweep'.todo = sweep.todo
          /\ sweep.pc = "write" /\ sweep'.pc = "stop" /\ UNCHANGED <<tenant, lost>>
          /\ env' = WithStatus(sweep.env, "stopped") /\ sweep.env \in Envs
      BY <1>0, <1>6 DEF SweepWrite, SweepType, UnchangedButSweep, OthersFit
    <2>2. sweep.pass \in {1, 2}
      BY <2>1 DEF Swept
    <2>3. ASSUME NEW d \in Envs, env'[d].status = "running"
          PROVE  d # sweep.env /\ env'[d] = env[d]
      BY <1>0, <2>1, <2>3 DEF WithStatus, HasRow, EnvType
    <2>4. \A d \in Envs : env'[d].status = "running" /\ (Due(d) \/ Spared(d)) => Due(d)' \/ Spared(d)'
      BY <1>0, <2>1, <2>3 DEF Due, Spared
    <2> QED BY <2>1, <2>2, <2>3, <2>4 DEF Swept
  <1>7. CASE SweepNext
    <2>1. /\ UNCHANGED <<tenant, env, lost>> /\ sweep.pc = "stop" /\ sweep.todo = {}
          /\ \/ sweep'.pass = 2 /\ sweep'.pc = "list"
             \/ sweep'.pass \in {0, 3} /\ sweep'.pc = "idle"
      BY <1>7 DEF SweepNext, SweepIdle, UnchangedButSweep
    <2>2. tenant = "suspended" => \A e \in Envs : env[e].status = "running" => Spared(e)
      BY <2>1 DEF Swept, Due
    <2> QED BY <2>1, <2>2 DEF Swept, Spared
  <1>8. CASE Crash
    <2>1. UNCHANGED <<tenant, env>> /\ (sweep' = sweep \/ (sweep'.pass = 0 /\ sweep'.pc = "idle"))
      BY <1>8 DEF Crash, SweepIdle
    <2>2. CASE sweep' = sweep
      BY <1>1, <2>1, <2>2
    <2>3. CASE sweep'.pass = 0 /\ sweep'.pc = "idle"
      BY <2>3 DEF Swept
    <2> QED BY <2>1, <2>2, <2>3
  <1>9. ASSUME NEW d \in Envs, CreateBegin(d) \/ Create(d)
        PROVE  Swept'
    BY <1>1, <1>9 DEF CreateBegin, Create, Insert, NoNetwork, Acquire, Transfer, Unclaim, Reset, MakeVolume, RunCold,
       RunFailed, Commit, UndoContainer, UndoStorage, DropRow, Fail
  <1>10. CASE Request
    BY <1>1, <1>10 DEF Request, UserBegin, ExtendLease, LeaseExpires, User, StartHold, Hold, StartContainer, StartCommit,
       StartUndo, StopContainer, StopWrite, DeleteContainer, DeleteStorage, DeleteRow
  <1>11. CASE Reconcile \/ Refill \/ Collect \/ \E c \in Containers : Exit(c) \/ DockerPrune(c)
    BY <1>1, <1>11 DEF Reconcile, RecRead, RecFailStale, RecWatch, RecMark, RecInspect, RecRecheck,
       RecClaim, RecStop, UnchangedButRec, Refill, PruneRead, PruneInspect, Prune, PruneVolume, FillStart, FillRun,
       FillInsert, Collect, GcContainer, GcVolume, GcRemove, Exit, DockerPrune
  <1> QED BY <1>2, <1>3, <1>4, <1>5, <1>6, <1>7, <1>8, <1>9, <1>10, <1>11, NextSplits DEF Elsewhere, Sweep

\* create and Start promise that a suspension that races with them leaves nothing running: once both
\* passes are done no row of a suspended tenant is "running" with a container, but for containers
\* that a failed call or a crash has left behind.
THEOREM SuspensionHolds == Spec => []SuspendedNotRunning
  <1>1. Init => Swept
    BY DEF Init, Swept, SweepIdle
  <1>2. Shape /\ Swept /\ [Next]_vars => Swept'
    <2>1. Swept /\ UNCHANGED vars => Swept'
      BY DEF vars, Swept, Due, Spared
    <2> QED BY <2>1, SweptStep
  <1>3. Swept => SuspendedNotRunning
    BY DEF Swept, Spared, SuspendedNotRunning
  <1> QED BY <1>1, <1>2, <1>3, ShapeInit, ShapeStep, PTL DEF Spec

=============================================================================
