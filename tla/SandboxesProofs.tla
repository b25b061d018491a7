---------------------------- MODULE SandboxesProofs ----------------------------
(* Proofs about the sandboxes (Sandboxes.tla), in the composition of Jobs.tla: for every   *)
(* set of sandboxes and any number of suspensions, crashes and failing calls, a sandbox      *)
(* whose row is gone has left nothing behind, and a suspension has stopped what it promises. *)
EXTENDS Jobs, BuildsProofs

-----------------------------------------------------------------------------
(* The inductive invariant. *)

\* A teardown of s, by DELETE or by the reaper, is at pc.
TearingDown(s, pc) == deleter[s] = pc \/ (reaper.pc = pc /\ reaper.s = s)

Claimed(s) == \E pc \in X!TeardownSteps : TearingDown(s, pc)

Clear(s) == cont[s] = "none" /\ ~vol[s]

\* What create has made so far, and what its undoing has left.
CreateFits ==
  \A s \in Sandboxes :
    /\ creator[s] = "new" => X!Is(s, "none") /\ ~Claimed(s)
    /\ creator[s] \in {"new", "acquire", "reset", "image"} => Clear(s)
    /\ creator[s] \in {"run", "volume"} => cont[s] = "none"
    /\ creator[s] \in {"undovol", "undoerrvol"} => cont[s] = "none" \/ s \in left
    /\ creator[s] \in {"drop", "mark", "fail"} => Clear(s) \/ s \in left

\* How far a teardown has come, once nothing can make the container again.
TeardownFits ==
  \A s \in Sandboxes :
    /\ Claimed(s) => ~X!Is(s, "creating") /\ ~X!Is(s, "running")
    /\ creator[s] = "done" /\ TearingDown(s, "volume") => cont[s] = "none" \/ s \in left
    /\ creator[s] = "done" /\ TearingDown(s, "row") => Clear(s) \/ s \in left
    /\ creator[s] = "done" /\ X!Is(s, "none") => Clear(s) \/ s \in left

\* A row that says running has a finished create.
RunningFits ==
  \A s \in Sandboxes : X!Is(s, "running") => creator[s] = "done" /\ xRow[s].known

\* The container of a finished create runs: only its deletion, the expiry of its lease, or a sweep
\* that did not know it may have hidden it from a suspension.
Counted(s) ==
  creator[s] = "done" /\ cont[s] = "running" /\ s \notin left \cup sweep.missed \cup expirer.unstopped

SweepFits ==
  \A s \in Sandboxes :
    Counted(s) =>
      /\ X!Is(s, "running") \/ X!Is(s, "deleting")
      /\ ~active /\ X!Is(s, "running") =>
           \/ sweep.pc = "select"
           \/ sweep.pc = "next" /\ [s |-> s, known |-> TRUE] \in sweep.todo

Inv == X!TypeOK /\ CreateFits /\ TeardownFits /\ RunningFits /\ SweepFits

-----------------------------------------------------------------------------
(* Type correctness. *)

RowType == [status : X!Statuses \cup {"none"}, known : BOOLEAN, lease : {"none", "live", "lapsed"},
            old : BOOLEAN, egress : BOOLEAN]

CreatorType == {"new", "acquire", "transfer", "unclaim", "reset", "image", "run", "volume", "commit",
                "undo", "undovol", "drop", "mark", "undoerr", "undoerrvol", "fail", "done"}

ReaperType == [pc : {"boot", "next", "watch"} \cup X!TeardownSteps,
               todo : SUBSET Sandboxes, s : Sandboxes \cup {X!None}]

ExpirerType == [pc : {"idle", "stop"}, s : Sandboxes \cup {X!None}, unstopped : SUBSET Sandboxes]

SweepType == [pc : {"idle", "select", "next"}, todo : SUBSET [s : Sandboxes, known : BOOLEAN],
              again : BOOLEAN, missed : SUBSET Sandboxes]

\* A write of a status leaves a row a row, and writes nothing else of it.
LEMMA Written ==
  ASSUME xRow \in [Sandboxes -> RowType], NEW s \in Sandboxes, NEW status \in X!Statuses,
         X!Write(s, status)
  PROVE  /\ xRow' \in [Sandboxes -> RowType]
         /\ xRow'[s].status = IF X!Is(s, "none") THEN "none" ELSE status
         /\ xRow'[s].known = xRow[s].known
         /\ \A t \in Sandboxes \ {s} : xRow'[t] = xRow[t]
  BY DEF X!Write, X!Is, RowType, X!Statuses

\* Create keeps the types.
LEMMA CreateTyped ==
  ASSUME X!TypeOK, NEW s \in Sandboxes, X!CreateSandbox(s)
  PROVE  X!TypeOK'
  <1>0. /\ xRow \in [Sandboxes -> RowType] /\ X!NoRow \in RowType
        /\ creator \in [Sandboxes -> CreatorType]
        /\ reaper \in ReaperType /\ sweep \in SweepType
    BY DEF X!TypeOK, RowType, CreatorType, ReaperType, SweepType, X!NoRow
  <1>1. CASE X!Insert(s)
    <2>1. ASSUME NEW egress \in BOOLEAN
          PROVE  [X!NoRow EXCEPT !.status = "creating", !.egress = egress] \in RowType
      BY DEF X!NoRow, RowType, X!Statuses
    <2>2. xRow' \in [Sandboxes -> RowType]
      BY <1>0, <1>1, <2>1 DEF X!Insert
    <2> QED BY <1>1, <2>2 DEF X!Insert, X!Step, X!Goto, X!TypeOK, RowType, X!world
  <1>2. CASE X!Acquire(s)
    <2>1. [xRow[s] EXCEPT !.known = TRUE] \in RowType
      BY <1>0 DEF RowType
    <2>2. xRow' \in [Sandboxes -> RowType]
      BY <1>0, <1>2, <2>1, Written DEF X!Acquire, X!Statuses
    <2> QED BY <1>2, <2>2 DEF X!Acquire, X!Step, X!Goto, X!Fault, X!TypeOK, RowType, X!world
  <1>3. CASE X!Transfer(s)
    BY <1>3 DEF X!Transfer, X!Step, X!Goto, X!Fault, X!TypeOK
  <1>4. CASE X!Unclaim(s)
    BY <1>4 DEF X!Unclaim, X!Step, X!Goto, X!Fault, X!TypeOK
  <1>5. CASE X!Reset(s)
    <2>1. [xRow[s] EXCEPT !.known = FALSE] \in RowType
      BY <1>0 DEF RowType
    <2>2. xRow' \in [Sandboxes -> RowType]
      BY <1>0, <1>5, <2>1, Written DEF X!Reset, X!Statuses
    <2>3. creator' \in [Sandboxes -> CreatorType]
      BY <1>0, <1>5 DEF X!Reset, X!Goto, CreatorType
    <2>4. deleter' \in [Sandboxes -> {"idle"} \cup X!TeardownSteps]
      BY <1>5 DEF X!Reset, X!TypeOK, X!TeardownSteps
    <2>5. reaper' \in ReaperType
      BY <1>0, <1>5 DEF X!Reset, ReaperType, X!TeardownSteps
    <2>6. sweep' \in SweepType
      <3>1. {[s |-> e.s, known |-> e.known /\ e.s # s] : e \in sweep.todo}
              \in SUBSET [s : Sandboxes, known : BOOLEAN]
        <4>1. ASSUME NEW e \in sweep.todo
              PROVE  [s |-> e.s, known |-> e.known /\ e.s # s] \in [s : Sandboxes, known : BOOLEAN]
          <5>1. e \in [s : Sandboxes, known : BOOLEAN]
            BY <1>0 DEF SweepType
          <5>2. e.s \in Sandboxes /\ (e.known /\ e.s # s) \in BOOLEAN
            BY <5>1
          <5> QED BY <5>2
        <4> QED BY <4>1
      <3> QED BY <1>0, <1>5, <3>1 DEF X!Reset, SweepType
    <2>7. UNCHANGED <<active, cont, vol, left, expirer>>
      BY <1>5 DEF X!Reset
    <2> QED BY <2>2, <2>3, <2>4, <2>5, <2>6, <2>7 DEF X!TypeOK, RowType, CreatorType, ReaperType, SweepType
  <1>6. CASE X!Prepare(s)
    BY <1>6, Written DEF X!Prepare, X!Step, X!Goto, X!Fault, X!TypeOK, X!Statuses, RowType
  <1>7. CASE X!RunEnvironment(s)
    <2>1. xRow' \in [Sandboxes -> RowType]
      BY <1>0, <1>7, Written DEF X!RunEnvironment, X!Statuses
    <2>2. /\ creator' \in [Sandboxes -> CreatorType] /\ left' \subseteq Sandboxes
          /\ cont' \in [Sandboxes -> {"none", "running", "exited"}] /\ vol' \in [Sandboxes -> BOOLEAN]
          /\ UNCHANGED <<active, deleter, reaper, expirer, sweep>>
      BY <1>0, <1>7 DEF X!RunEnvironment, X!Step, X!Goto, X!TypeOK, CreatorType
    <2> QED BY <2>1, <2>2 DEF X!TypeOK, RowType, CreatorType
  <1>8. CASE X!Commit(s)
    <2>1. ASSUME NEW late \in BOOLEAN
          PROVE  [xRow[s] EXCEPT !.status = "running", !.known = TRUE, !.old = late,
                                 !.lease = IF late THEN "lapsed" ELSE "live"] \in RowType
      BY <1>0 DEF RowType, X!Statuses
    <2>2. xRow' \in [Sandboxes -> RowType]
      BY <1>0, <1>8, <2>1 DEF X!Commit
    <2>3. /\ creator' \in [Sandboxes -> CreatorType]
          /\ UNCHANGED <<active, cont, vol, deleter, reaper, expirer, sweep, left>>
      BY <1>0, <1>8 DEF X!Commit, X!Step, X!Goto, CreatorType
    <2> QED BY <2>2, <2>3 DEF X!TypeOK, RowType, CreatorType
  <1>9. CASE X!UndoContainer(s)
    BY <1>9 DEF X!UndoContainer, X!Step, X!Goto, X!Fault, X!TypeOK
  <1>10. CASE X!UndoVolume(s)
    BY <1>10 DEF X!UndoVolume, X!Step, X!Goto, X!Fault, X!TypeOK
  <1>11. CASE X!Drop(s)
    BY <1>11 DEF X!Drop, X!Step, X!Goto, X!TypeOK, X!NoRow, X!Statuses, X!world
  <1>12. CASE X!MarkFailed(s)
    BY <1>12, Written DEF X!MarkFailed, X!Step, X!Goto, X!TypeOK, X!Statuses, RowType, X!world
  <1> QED BY <1>1, <1>2, <1>3, <1>4, <1>5, <1>6, <1>7, <1>8, <1>9, <1>10, <1>11, <1>12
          DEF X!CreateSandbox

\* A deletion that moves on, by whoever makes it, keeps the types.
LEMMA MoveTyped ==
  ASSUME X!TypeOK, NEW who \in {"DELETE", "reaper"}, NEW s \in Sandboxes,
         NEW pc \in {"idle"} \cup X!TeardownSteps, X!Move(who, s, pc),
         who = "DELETE" => reaper' = reaper,
         who = "reaper" => deleter' = deleter
  PROVE  /\ deleter' \in [Sandboxes -> {"idle"} \cup X!TeardownSteps]
         /\ reaper' \in ReaperType
  <1>1. reaper \in ReaperType /\ deleter \in [Sandboxes -> {"idle"} \cup X!TeardownSteps]
    BY DEF X!TypeOK, ReaperType
  <1>2. CASE who = "DELETE"
    BY <1>1, <1>2 DEF X!Move, X!MoveDeleter
  <1>3. CASE who = "reaper"
    <2>1. [reaper EXCEPT !.pc = "next", !.s = X!None] \in ReaperType
      BY <1>1 DEF ReaperType
    <2>2. pc # "idle" => [reaper EXCEPT !.pc = pc] \in ReaperType
      BY <1>1 DEF ReaperType
    <2> QED BY <1>1, <1>3, <2>1, <2>2 DEF X!Move, X!MoveReaper
  <1> QED BY <1>2, <1>3

\* The steps of a teardown keep the types.
LEMMA TeardownTyped ==
  ASSUME X!TypeOK, NEW who \in {"DELETE", "reaper"}, NEW s \in Sandboxes, X!Teardown(who, s),
         who = "DELETE" => reaper' = reaper,
         who = "reaper" => deleter' = deleter,
         UNCHANGED <<active, creator, expirer, sweep, suspensions, crashes>>
  PROVE  X!TypeOK'
  <1>1. \E pc \in {"idle"} \cup X!TeardownSteps : X!Move(who, s, pc)
    BY DEF X!Teardown, X!Get, X!RemoveContainer, X!RemoveVolume, X!DeleteRow, X!TeardownSteps
  <1>2. /\ deleter' \in [Sandboxes -> {"idle"} \cup X!TeardownSteps]
        /\ reaper' \in ReaperType
    BY <1>1, MoveTyped
  <1>3. /\ xRow' \in [Sandboxes -> RowType]
        /\ cont' \in [Sandboxes -> {"none", "running", "exited"}]
        /\ vol' \in [Sandboxes -> BOOLEAN]
        /\ left' = left
    <2>0. xRow \in [Sandboxes -> RowType] /\ X!NoRow \in RowType
      BY DEF X!TypeOK, RowType, X!NoRow
    <2>1. CASE X!Get(who, s)
      BY <2>0, <2>1 DEF X!Get, X!TypeOK, X!world
    <2>2. CASE X!RemoveContainer(who, s)
      BY <2>0, <2>2 DEF X!RemoveContainer, X!TypeOK
    <2>3. CASE X!RemoveVolume(who, s)
      BY <2>0, <2>3 DEF X!RemoveVolume, X!TypeOK
    <2>4. CASE X!DeleteRow(who, s)
      BY <2>0, <2>4 DEF X!DeleteRow, X!TypeOK, X!world
    <2> QED BY <2>1, <2>2, <2>3, <2>4 DEF X!Teardown
  <1> QED BY <1>2, <1>3 DEF X!TypeOK, RowType, ReaperType

\* The reaper's own steps, and those of the startup, keep the types.
LEMMA ReaperTyped ==
  ASSUME X!TypeOK,
         \/ X!SelectToReap \/ X!StartUp
         \/ \E s \in Sandboxes : X!ClaimToReap(s) \/ X!WatchDisk(s) \/ X!ClaimForPressure(s)
  PROVE  X!TypeOK'
  <1>0. /\ reaper \in ReaperType /\ X!IdleReaper \in ReaperType
        /\ xRow \in [Sandboxes -> RowType]
    BY DEF X!TypeOK, ReaperType, RowType, X!IdleReaper
  <1>1. /\ reaper' \in ReaperType /\ xRow' \in [Sandboxes -> RowType]
        /\ UNCHANGED <<active, cont, vol, left, creator, deleter, expirer, sweep>>
    <2>1. CASE X!SelectToReap
      BY <1>0, <2>1 DEF X!SelectToReap, X!OthersOfReaper, X!world, ReaperType
    <2>3. CASE X!StartUp
      <3>1. xRow' \in [Sandboxes -> RowType]
        <4>1. ASSUME NEW s \in Sandboxes
              PROVE  [xRow[s] EXCEPT !.status = "deleting", !.old = TRUE] \in RowType
          BY <1>0 DEF RowType, X!Statuses
        <4> QED BY <1>0, <2>3, <4>1 DEF X!StartUp
      <3>2. reaper' \in ReaperType
        BY <1>0, <2>3 DEF X!StartUp, ReaperType, X!IdleReaper
      <3> QED BY <2>3, <3>1, <3>2 DEF X!StartUp, X!OthersOfReaper, X!world
    <2>4. ASSUME NEW s \in Sandboxes, X!ClaimToReap(s) PROVE <1>1!:
      <3>1. xRow' \in [Sandboxes -> RowType]
        BY <1>0, <2>4, Written DEF X!ClaimToReap, X!Statuses
      <3>2. /\ [reaper EXCEPT !.pc = "get", !.todo = @ \ {s}, !.s = s] \in ReaperType
            /\ [reaper EXCEPT !.todo = @ \ {s}] \in ReaperType
        BY <1>0 DEF ReaperType, X!TeardownSteps
      <3> QED BY <2>4, <3>1, <3>2 DEF X!ClaimToReap, X!OthersOfReaper, X!world
    <2>5. ASSUME NEW s \in Sandboxes, X!WatchDisk(s) PROVE <1>1!:
      BY <1>0, <2>5 DEF X!WatchDisk, X!OthersOfReaper, X!world, ReaperType
    <2>6. ASSUME NEW s \in Sandboxes, X!ClaimForPressure(s) PROVE <1>1!:
      BY <1>0, <2>6, Written DEF X!ClaimForPressure, X!MoveReaper, X!OthersOfReaper, X!world,
         ReaperType, X!Statuses, X!TeardownSteps
    <2> QED BY <2>1, <2>3, <2>4, <2>5, <2>6
  <1> QED BY <1>1 DEF X!TypeOK, ReaperType, RowType

\* The reconciler, DELETE's claim, extend, and time keep the types.
LEMMA RowTyped ==
  ASSUME X!TypeOK, NEW s \in Sandboxes,
         \/ X!ClaimDelete(s) \/ X!ExtendSandbox(s) \/ X!ReconcileGone(s) \/ X!FailStaleCreate(s)
         \/ X!ExpireClaim(s) \/ X!ExpireRetry(s) \/ X!ExpireStop(s)
         \/ X!Age(s) \/ X!Lapse(s) \/ X!Exit(s)
  PROVE  X!TypeOK'
  <1>0. xRow \in [Sandboxes -> RowType]
    BY DEF X!TypeOK, RowType
  <1>1. xRow' \in [Sandboxes -> RowType]
    <2>1. CASE X!ExtendSandbox(s) \/ X!Age(s) \/ X!Lapse(s)
      <3>1. /\ \A old \in BOOLEAN : [xRow[s] EXCEPT !.old = old] \in RowType
            /\ [xRow[s] EXCEPT !.lease = "lapsed"] \in RowType
        BY <1>0 DEF RowType
      <3> QED BY <1>0, <2>1, <3>1 DEF X!ExtendSandbox, X!Age, X!Lapse
    <2>2. CASE X!ClaimDelete(s) \/ X!ReconcileGone(s) \/ X!FailStaleCreate(s) \/ X!ExpireClaim(s)
      BY <1>0, <2>2, Written DEF X!ClaimDelete, X!ReconcileGone, X!FailStaleCreate, X!ExpireClaim,
         X!Statuses
    <2> QED BY <1>0, <2>1, <2>2 DEF X!ExpireRetry, X!ExpireStop, X!Exit
  <1>2. cont' \in [Sandboxes -> {"none", "running", "exited"}]
    BY DEF X!TypeOK, X!ClaimDelete, X!ExtendSandbox, X!ReconcileGone, X!FailStaleCreate,
       X!ExpireClaim, X!ExpireRetry, X!ExpireStop, X!OthersOfExpirer, X!Age, X!Lapse, X!Exit, X!world
  <1>3. deleter' \in [Sandboxes -> {"idle"} \cup X!TeardownSteps]
    BY DEF X!TypeOK, X!ClaimDelete, X!ExtendSandbox, X!ReconcileGone, X!FailStaleCreate, X!callVars,
       X!ExpireClaim, X!ExpireRetry, X!ExpireStop, X!OthersOfExpirer, X!Age, X!Lapse, X!Exit, X!MoveDeleter, X!TeardownSteps
  <1>4. expirer' \in ExpirerType
    <2>0. expirer \in ExpirerType
      BY DEF X!TypeOK, ExpirerType
    <2>1. CASE X!ExpireClaim(s)
      BY <2>0, <2>1 DEF X!ExpireClaim, ExpirerType
    <2>2. CASE X!ExpireRetry(s)
      BY <2>0, <2>2 DEF X!ExpireRetry, ExpirerType
    <2>3. CASE X!ExpireStop(s)
      <3>1. expirer.unstopped \subseteq Sandboxes
        BY <2>0 DEF ExpirerType
      <3>2. /\ [pc |-> "idle", s |-> X!None, unstopped |-> expirer.unstopped \ {s}] \in ExpirerType
            /\ [expirer EXCEPT !.pc = "idle", !.s = X!None] \in ExpirerType
        BY <2>0, <3>1 DEF ExpirerType
      <3> QED BY <2>3, <3>2 DEF X!ExpireStop
    <2>4. CASE expirer' = expirer
      BY <2>0, <2>4
    <2> QED BY <2>1, <2>2, <2>3, <2>4 DEF X!ClaimDelete, X!ExtendSandbox, X!ReconcileGone,
            X!FailStaleCreate, X!callVars, X!Age, X!Lapse, X!Exit
  <1>5. UNCHANGED <<active, vol, left, creator, reaper, sweep>>
    BY DEF X!ClaimDelete, X!ExtendSandbox, X!ReconcileGone, X!FailStaleCreate, X!callVars,
       X!ExpireClaim, X!ExpireRetry, X!ExpireStop, X!OthersOfExpirer, X!Age, X!Lapse, X!Exit, X!world
  <1> QED BY <1>1, <1>2, <1>3, <1>4, <1>5 DEF X!TypeOK, RowType, ExpirerType

\* A suspension, its sweep, a reactivation and a crash keep the types.
LEMMA SweepTyped ==
  ASSUME X!TypeOK, X!Suspend \/ X!StopAllForTenant \/ X!Reactivate \/ X!Crash
  PROVE  X!TypeOK'
  <1>0. /\ xRow \in [Sandboxes -> RowType] /\ sweep \in SweepType /\ expirer \in ExpirerType
        /\ X!IdleReaper \in ReaperType /\ X!NoSweep \in SweepType
    BY DEF X!TypeOK, RowType, SweepType, ReaperType, ExpirerType, X!IdleReaper, X!NoSweep
  <1>1. CASE X!Suspend \/ X!SweepEnd \/ X!Reactivate
    <2>1. sweep' \in SweepType /\ active' \in BOOLEAN
      BY <1>0, <1>1 DEF X!Suspend, X!SweepEnd, X!Reactivate, SweepType, X!TypeOK
    <2>2. UNCHANGED <<xRow, cont, vol, left, creator, deleter, reaper, expirer>>
      BY <1>1 DEF X!Suspend, X!SweepEnd, X!Reactivate, X!OthersOfSweep, X!world
    <2> QED BY <2>1, <2>2 DEF X!TypeOK, SweepType
  <1>2. CASE X!SweepSelect
    <2>1. {[s |-> s, known |-> xRow[s].known] : s \in {b \in Sandboxes : xRow[b].status \in {"creating", "running"}}}
            \subseteq [s : Sandboxes, known : BOOLEAN]
      BY <1>0 DEF RowType
    <2>2. sweep' \in SweepType
      BY <1>0, <1>2, <2>1 DEF X!SweepSelect, SweepType
    <2>3. UNCHANGED <<active, xRow, cont, vol, left, creator, deleter, reaper, expirer>>
      BY <1>2 DEF X!SweepSelect, X!OthersOfSweep, X!world
    <2> QED BY <2>2, <2>3 DEF X!TypeOK, SweepType
  <1>3. ASSUME NEW e \in sweep.todo, X!SweepStop(e)
        PROVE  X!TypeOK'
    <2>1. e.s \in Sandboxes
      BY <1>0, <1>3 DEF SweepType
    <2>2. sweep' \in SweepType
      <3>1. X!Overlooked(e) \subseteq Sandboxes
        BY <2>1 DEF X!Overlooked
      <3>2. [sweep EXCEPT !.todo = @ \ {e}] \in SweepType
        BY <1>0 DEF SweepType
      <3>3. [sweep EXCEPT !.todo = @ \ {e}, !.missed = @ \cup X!Overlooked(e)] \in SweepType
        BY <1>0, <3>1 DEF SweepType
      <3> QED BY <1>3, <3>1, <3>2, <3>3 DEF X!SweepStop
    <2>3. xRow' \in [Sandboxes -> RowType]
      BY <1>0, <1>3, <2>1, Written DEF X!SweepStop, X!Statuses
    <2>4. cont' \in [Sandboxes -> {"none", "running", "exited"}] /\ left' \subseteq Sandboxes
      BY <1>3, <2>1 DEF X!SweepStop, X!TypeOK
    <2>5. UNCHANGED <<active, vol, creator, deleter, reaper, expirer>>
      BY <1>3 DEF X!SweepStop, X!OthersOfSweep
    <2> QED BY <2>2, <2>3, <2>4, <2>5 DEF X!TypeOK, SweepType, RowType
  <1>4. CASE X!Crash
    <2>1. /\ reaper' \in ReaperType /\ sweep' \in SweepType /\ expirer' \in ExpirerType
      BY <1>0, <1>4 DEF X!Crash, SweepType, ReaperType, ExpirerType, X!IdleExpirer
    <2>2. /\ deleter' \in [Sandboxes -> {"idle"} \cup X!TeardownSteps]
          /\ creator' \in [Sandboxes -> CreatorType]
          /\ left' \subseteq Sandboxes
      BY <1>4 DEF X!Crash, X!TypeOK, CreatorType
    <2>3. UNCHANGED <<active, xRow, cont, vol>>
      BY <1>4 DEF X!Crash
    <2> QED BY <2>1, <2>2, <2>3 DEF X!TypeOK, SweepType, ReaperType, ExpirerType, CreatorType
  <1> QED BY <1>1, <1>2, <1>3, <1>4 DEF X!StopAllForTenant

\* Every step keeps the types.
LEMMA StepTyped == ASSUME X!TypeOK, X!Next PROVE X!TypeOK'
  <1>1. ASSUME NEW s \in Sandboxes, X!DeleteStep(s) PROVE X!TypeOK'
    BY <1>1, TeardownTyped DEF X!DeleteStep
  <1>2. CASE X!ReapStep
    BY <1>2, TeardownTyped DEF X!ReapStep, X!OthersOfReaper
  <1>3. CASE X!Reaper
    BY <1>2, <1>3, ReaperTyped DEF X!Reaper
  <1> QED BY <1>1, <1>3, CreateTyped, RowTyped, SweepTyped DEF X!Next

-----------------------------------------------------------------------------
(* The steps keep the invariant. *)

\* The return to a cold start keeps it: a teardown that had seen the warm container goes on to its
\* row, and a sweep finds nothing to stop.
LEMMA ResetKeeps ==
  ASSUME Inv, NEW s \in Sandboxes, X!Reset(s)
  PROVE  CreateFits' /\ TeardownFits' /\ RunningFits' /\ SweepFits'
  <1>0. /\ xRow \in [Sandboxes -> RowType] /\ creator \in [Sandboxes -> CreatorType]
        /\ deleter \in [Sandboxes -> {"idle"} \cup X!TeardownSteps]
        /\ reaper \in ReaperType /\ sweep \in SweepType
    BY DEF Inv, X!TypeOK, RowType, CreatorType, ReaperType, SweepType
  <1>1. /\ UNCHANGED <<active, cont, vol, left, expirer>> /\ creator[s] = "reset"
        /\ \A t \in Sandboxes \ {s} : creator'[t] = creator[t] /\ xRow'[t] = xRow[t]
        /\ creator'[s] \in {"image", "done"}
        /\ \/ xRow'[s].status = xRow[s].status
           \/ ~X!Is(s, "none") /\ xRow'[s].status = "failed"
    BY <1>0, Written DEF X!Reset, X!Goto, X!Is, X!Statuses, RowType, CreatorType
  <1>2. \A t \in Sandboxes : \A pc \in X!TeardownSteps :
          TearingDown(t, pc)' => TearingDown(t, pc) \/ (t = s /\ Claimed(s))
    BY <1>0 DEF X!Reset, TearingDown, Claimed, X!TeardownSteps, ReaperType
  <1>3. \A t \in Sandboxes : Claimed(t)' => Claimed(t)
    BY <1>2 DEF Claimed
  <1>4. /\ sweep'.pc = sweep.pc /\ sweep'.missed = sweep.missed
        /\ \A t \in Sandboxes \ {s} :
             [s |-> t, known |-> TRUE] \in sweep.todo => [s |-> t, known |-> TRUE] \in sweep'.todo
    <2>1. CASE sweep' = [sweep EXCEPT !.todo = {[s |-> e.s, known |-> e.known /\ e.s # s] : e \in @}]
      <3>1. /\ sweep'.pc = sweep.pc /\ sweep'.missed = sweep.missed
            /\ sweep'.todo = {[s |-> e.s, known |-> e.known /\ e.s # s] : e \in sweep.todo}
        BY <1>0, <2>1 DEF SweepType
      <3>2. ASSUME NEW t \in Sandboxes \ {s}, [s |-> t, known |-> TRUE] \in sweep.todo
            PROVE  [s |-> t, known |-> TRUE] \in sweep'.todo
        <4>1. PICK e \in sweep.todo : e = [s |-> t, known |-> TRUE]
          BY <3>2
        <4>2. [s |-> e.s, known |-> e.known /\ e.s # s] \in sweep'.todo
          BY <3>1
        <4>3. e.s = t /\ (e.known /\ e.s # s) = TRUE
          BY <4>1
        <4> QED BY <4>2, <4>3
      <3> QED BY <3>1, <3>2
    <2>2. CASE sweep' = sweep
      BY <2>2
    <2> QED BY <2>1, <2>2 DEF X!Reset
  <1>5. Clear(s)
    BY <1>1 DEF Inv, CreateFits
  <1>6. CreateFits'
    BY <1>0, <1>1, <1>3, <1>5 DEF Inv, CreateFits, Clear, X!Is
  <1>7. TeardownFits'
    BY <1>0, <1>1, <1>2, <1>3, <1>5 DEF Inv, TeardownFits, Clear, X!Is, X!TeardownSteps
  <1>8. RunningFits'
    BY <1>0, <1>1 DEF Inv, RunningFits, X!Is
  <1>9. SweepFits'
    <2>1. ~Counted(s)'
      BY <1>0, <1>1, <1>5 DEF Counted, Clear
    <2>2. ASSUME NEW t \in Sandboxes \ {s}
          PROVE  /\ Counted(t)' = Counted(t)
                 /\ X!Is(t, "running")' = X!Is(t, "running")
                 /\ X!Is(t, "deleting")' = X!Is(t, "deleting")
      BY <1>0, <1>1, <1>4 DEF Counted, X!Is
    <2> QED BY <1>1, <1>4, <2>1, <2>2 DEF Inv, SweepFits
  <1> QED BY <1>6, <1>7, <1>8, <1>9

\* A step of create keeps it.
LEMMA CreateKeeps ==
  ASSUME Inv, NEW s \in Sandboxes, X!CreateSandbox(s)
  PROVE  CreateFits' /\ TeardownFits' /\ RunningFits' /\ SweepFits'
  <1>0. /\ xRow \in [Sandboxes -> RowType] /\ X!NoRow \in RowType
        /\ cont \in [Sandboxes -> {"none", "running", "exited"}]
        /\ vol \in [Sandboxes -> BOOLEAN]
        /\ creator \in [Sandboxes -> CreatorType]
    BY DEF Inv, X!TypeOK, RowType, X!NoRow, CreatorType
  <1> SUFFICES ASSUME ~X!Reset(s)
               PROVE  CreateFits' /\ TeardownFits' /\ RunningFits' /\ SweepFits'
    BY ResetKeeps
  <1>1. /\ UNCHANGED <<active, deleter, reaper, expirer, sweep>>
        /\ \A t \in Sandboxes : Claimed(t)' = Claimed(t)
        /\ \A t \in Sandboxes : \A pc \in X!TeardownSteps : TearingDown(t, pc)' = TearingDown(t, pc)
    BY DEF X!CreateSandbox, X!Insert, X!Acquire, X!Transfer, X!Unclaim, X!Prepare, X!RunEnvironment,
           X!Commit, X!UndoContainer, X!UndoVolume, X!Drop, X!MarkFailed, X!Step, Claimed, TearingDown
  <1>2. CASE X!Insert(s)
    <2>1. /\ UNCHANGED <<cont, vol, left>>
          /\ creator[s] = "new" /\ creator' = [creator EXCEPT ![s] = "acquire"]
          /\ \A t \in Sandboxes \ {s} : xRow'[t] = xRow[t]
          /\ xRow'[s].status = "creating"
      BY <1>0, <1>2 DEF X!Insert, X!Step, X!Goto, X!world, X!NoRow, RowType
    <2> QED BY <1>0, <1>1, <2>1 DEF Inv, CreateFits, TeardownFits, RunningFits, SweepFits, Counted,
            Clear, X!Is, X!TeardownSteps
  <1>3. CASE X!Acquire(s)
    <2>1. /\ creator[s] = "acquire" /\ left' = left
          /\ \A t \in Sandboxes \ {s} : xRow'[t] = xRow[t] /\ cont'[t] = cont[t] /\ vol'[t] = vol[t]
          /\ \/ /\ creator' = [creator EXCEPT ![s] = "transfer"]
                /\ xRow'[s].status = xRow[s].status
             \/ /\ creator' = [creator EXCEPT ![s] = "image"]
                /\ UNCHANGED <<xRow, cont, vol>>
             \/ /\ creator' = [creator EXCEPT ![s] = "done"] /\ UNCHANGED <<cont, vol>>
                /\ xRow'[s].status = IF X!Is(s, "none") THEN "none" ELSE "failed"
      BY <1>0, <1>3, Written DEF X!Acquire, X!Step, X!Goto, X!world, X!Statuses, RowType
    <2>2. CreateFits'
      BY <1>0, <1>1, <2>1 DEF Inv, CreateFits, Clear, X!Is
    <2>3. TeardownFits'
      BY <1>0, <1>1, <2>1 DEF Inv, CreateFits, TeardownFits, Clear, X!Is, X!TeardownSteps
    <2>4. RunningFits' /\ SweepFits'
      BY <1>0, <1>1, <2>1 DEF Inv, CreateFits, RunningFits, SweepFits, Counted, Clear, X!Is
    <2> QED BY <2>2, <2>3, <2>4
  <1>4. CASE X!Transfer(s)
    BY <1>0, <1>1, <1>4 DEF Inv, CreateFits, TeardownFits, RunningFits, SweepFits, Counted, Clear, X!Is,
       X!Transfer, X!Step, X!Goto, X!TeardownSteps
  <1>5. CASE X!Unclaim(s)
    BY <1>0, <1>1, <1>5 DEF Inv, CreateFits, TeardownFits, RunningFits, SweepFits, Counted, Clear, X!Is,
       X!Unclaim, X!Step, X!Goto, X!TeardownSteps
  <1>6. CASE X!Prepare(s)
    BY <1>0, <1>1, <1>6, Written DEF Inv, CreateFits, TeardownFits, RunningFits, SweepFits, Counted, Clear, X!Is,
       X!Prepare, X!Step, X!Goto, X!TeardownSteps, X!Statuses
  <1>7. CASE X!RunEnvironment(s)
    BY <1>0, <1>1, <1>7, Written DEF Inv, CreateFits, TeardownFits, RunningFits, SweepFits, Counted, Clear, X!Is,
       X!RunEnvironment, X!Step, X!Goto, X!TeardownSteps, X!Statuses
  <1>8. CASE X!Commit(s)
    <2>1. CASE /\ X!Is(s, "creating") /\ active /\ creator'[s] = "done"
      <3>1. /\ UNCHANGED <<cont, vol, left>>
            /\ creator[s] = "commit" /\ creator' = [creator EXCEPT ![s] = "done"]
            /\ \A t \in Sandboxes \ {s} : xRow'[t] = xRow[t]
            /\ xRow'[s].status = "running" /\ xRow'[s].known = TRUE
        <4>1. ASSUME NEW late \in BOOLEAN
              PROVE  /\ [xRow[s] EXCEPT !.status = "running", !.known = TRUE, !.old = late,
                                         !.lease = IF late THEN "lapsed" ELSE "live"].status = "running"
                     /\ [xRow[s] EXCEPT !.status = "running", !.known = TRUE, !.old = late,
                                         !.lease = IF late THEN "lapsed" ELSE "live"].known = TRUE
          BY <1>0 DEF RowType
        <4> QED BY <1>0, <1>8, <2>1, <4>1 DEF X!Commit, X!Step, X!Goto
      <3>2. ~Claimed(s) /\ active'
        BY <1>1, <2>1 DEF Inv, TeardownFits
      <3>3. CreateFits'
        BY <1>0, <1>1, <3>1 DEF Inv, CreateFits, Clear, X!Is
      <3>4. TeardownFits'
        BY <1>0, <1>1, <3>1, <3>2 DEF Inv, TeardownFits, Clear, X!Is, Claimed, X!TeardownSteps
      <3>5. RunningFits' /\ SweepFits'
        BY <1>0, <1>1, <3>1, <3>2 DEF Inv, RunningFits, SweepFits, Counted, Clear, X!Is
      <3> QED BY <3>3, <3>4, <3>5
    <2>2. CASE xRow' = xRow /\ creator'[s] \in {"undo", "undoerr"}
      <3>1. /\ UNCHANGED <<cont, vol, left>> /\ xRow' = xRow
            /\ creator' = [creator EXCEPT ![s] = creator'[s]]
        BY <1>0, <1>8, <2>2 DEF X!Commit, X!Step, X!Goto
      <3>2. creator[s] = "commit"
        BY <1>8 DEF X!Commit, X!Step
      <3>3. CreateFits'
        BY <1>0, <1>1, <2>2, <3>1, <3>2 DEF Inv, CreateFits, Clear, X!Is
      <3>4. TeardownFits'
        BY <1>0, <1>1, <2>2, <3>1, <3>2 DEF Inv, TeardownFits, Clear, X!Is, X!TeardownSteps
      <3>5. RunningFits' /\ SweepFits'
        BY <1>0, <1>1, <2>2, <3>1, <3>2 DEF Inv, RunningFits, SweepFits, Counted, Clear, X!Is
      <3> QED BY <3>3, <3>4, <3>5
    <2> QED BY <1>0, <1>8, <2>1, <2>2 DEF X!Commit, X!Step, X!Goto
  <1>9. CASE X!UndoContainer(s)
    BY <1>0, <1>1, <1>9 DEF Inv, CreateFits, TeardownFits, RunningFits, SweepFits, Counted, Clear, X!Is,
       X!UndoContainer, X!Step, X!Goto, X!TeardownSteps
  <1>10. CASE X!UndoVolume(s)
    BY <1>0, <1>1, <1>10 DEF Inv, CreateFits, TeardownFits, RunningFits, SweepFits, Counted, Clear, X!Is,
       X!UndoVolume, X!Step, X!Goto, X!TeardownSteps
  <1>11. CASE X!Drop(s)
    BY <1>0, <1>1, <1>11 DEF Inv, CreateFits, TeardownFits, RunningFits, SweepFits, Counted, Clear, X!Is,
       X!Drop, X!Step, X!Goto, X!TeardownSteps, X!world, X!NoRow, RowType
  <1>12. CASE X!MarkFailed(s)
    <2>1. /\ UNCHANGED <<cont, vol, left>>
          /\ creator[s] \in {"mark", "fail"} /\ creator' = [creator EXCEPT ![s] = "done"]
          /\ \A t \in Sandboxes : xRow'[t] = xRow[t] \/ (t = s /\ ~X!Is(s, "none") /\ xRow'[s].status = "failed")
      <3>1. CASE X!Write(s, "failed")
        BY <1>0, <1>12, <3>1, Written DEF X!MarkFailed, X!Step, X!Goto, X!world, X!Statuses, X!Is, X!Write
      <3>2. CASE xRow' = xRow
        BY <1>0, <1>12, <3>2 DEF X!MarkFailed, X!Step, X!Goto, X!world
      <3> QED BY <1>12, <3>1, <3>2 DEF X!MarkFailed
    <2>2. Clear(s) \/ s \in left
      BY <2>1 DEF Inv, CreateFits
    <2>3. CreateFits'
      BY <1>0, <1>1, <2>1 DEF Inv, CreateFits, Clear, X!Is
    <2>4. TeardownFits'
      BY <1>0, <1>1, <2>1, <2>2 DEF Inv, TeardownFits, Clear, X!Is, X!TeardownSteps
    <2>5. RunningFits' /\ SweepFits'
      BY <1>0, <1>1, <2>1, <2>2 DEF Inv, RunningFits, SweepFits, Counted, Clear, X!Is
    <2> QED BY <2>3, <2>4, <2>5
  <1> QED BY <1>2, <1>3, <1>4, <1>5, <1>6, <1>7, <1>8, <1>9, <1>10, <1>11, <1>12 DEF X!CreateSandbox

\* A step of a teardown keeps it, whoever makes it.
LEMMA TeardownKeeps ==
  ASSUME Inv, NEW who \in {"DELETE", "reaper"}, NEW s \in Sandboxes, X!Teardown(who, s),
         who = "DELETE" => reaper' = reaper,
         who = "reaper" => deleter' = deleter,
         UNCHANGED <<active, creator, expirer, sweep>>
  PROVE  CreateFits' /\ TeardownFits' /\ RunningFits' /\ SweepFits'
  <1>0. /\ xRow \in [Sandboxes -> RowType]
        /\ cont \in [Sandboxes -> {"none", "running", "exited"}]
        /\ vol \in [Sandboxes -> BOOLEAN]
        /\ deleter \in [Sandboxes -> {"idle"} \cup X!TeardownSteps]
        /\ reaper \in ReaperType
    BY DEF Inv, X!TypeOK, RowType, ReaperType
  \* Where the teardowns are after it: this one has moved, the others have not.
  <1>1. ASSUME NEW from \in X!TeardownSteps, NEW to \in {"idle"} \cup X!TeardownSteps,
               X!At(who, s, from), X!Move(who, s, to)
        PROVE  /\ TearingDown(s, from)
               /\ \A t \in Sandboxes : \A pc \in X!TeardownSteps :
                    TearingDown(t, pc)' => TearingDown(t, pc) \/ (t = s /\ pc = to)
    <2>1. CASE who = "DELETE"
      BY <1>0, <1>1, <2>1 DEF X!At, X!Move, X!MoveDeleter, TearingDown, X!TeardownSteps
    <2>2. CASE who = "reaper"
      BY <1>0, <1>1, <2>2 DEF X!At, X!Move, X!MoveReaper, TearingDown, X!TeardownSteps, ReaperType
    <2> QED BY <2>1, <2>2
  <1>2. CASE X!Get(who, s)
    <2>1. /\ UNCHANGED <<xRow, cont, vol, left>> /\ TearingDown(s, "get")
          /\ \A t \in Sandboxes : \A pc \in X!TeardownSteps :
               TearingDown(t, pc)' => TearingDown(t, pc) \/ (t = s /\ pc = "container")
      <3>1. CASE X!Is(s, "none")
        BY <1>1, <1>2, <3>1 DEF X!Get, X!world, X!TeardownSteps
      <3>2. CASE ~X!Is(s, "none")
        BY <1>1, <1>2, <3>2 DEF X!Get, X!world, X!TeardownSteps
      <3> QED BY <3>1, <3>2
    <2> QED BY <1>0, <2>1 DEF Inv, CreateFits, TeardownFits, RunningFits, SweepFits, Counted, Clear,
            X!Is, Claimed, X!TeardownSteps
  <1>3. CASE X!RemoveContainer(who, s)
    <2>1. /\ UNCHANGED <<xRow, vol, left>> /\ TearingDown(s, "container")
          /\ \/ /\ cont' = [cont EXCEPT ![s] = "none"]
                /\ \A t \in Sandboxes : \A pc \in X!TeardownSteps :
                     TearingDown(t, pc)' => TearingDown(t, pc) \/ (t = s /\ pc = "volume")
             \/ /\ cont' = cont
                /\ \A t \in Sandboxes : \A pc \in X!TeardownSteps :
                     TearingDown(t, pc)' => TearingDown(t, pc)
      BY <1>1, <1>3 DEF X!RemoveContainer, X!TeardownSteps
    <2> QED BY <1>0, <2>1 DEF Inv, CreateFits, TeardownFits, RunningFits, SweepFits, Counted, Clear,
            X!Is, Claimed, X!TeardownSteps
  <1>4. CASE X!RemoveVolume(who, s)
    <2>1. /\ UNCHANGED <<xRow, cont, left>> /\ TearingDown(s, "volume")
          /\ \/ /\ vol' = [vol EXCEPT ![s] = FALSE] /\ cont[s] = "none"
                /\ \A t \in Sandboxes : \A pc \in X!TeardownSteps :
                     TearingDown(t, pc)' => TearingDown(t, pc) \/ (t = s /\ pc = "row")
             \/ /\ vol' = vol
                /\ \A t \in Sandboxes : \A pc \in X!TeardownSteps :
                     TearingDown(t, pc)' => TearingDown(t, pc)
      BY <1>1, <1>4 DEF X!RemoveVolume, X!TeardownSteps
    <2> QED BY <1>0, <2>1 DEF Inv, CreateFits, TeardownFits, RunningFits, SweepFits, Counted, Clear,
            X!Is, Claimed, X!TeardownSteps
  <1>5. CASE X!DeleteRow(who, s)
    <2>1. /\ UNCHANGED <<cont, vol, left>> /\ TearingDown(s, "row")
          /\ \A t \in Sandboxes \ {s} : xRow'[t] = xRow[t]
          /\ xRow'[s].status = "none"
          /\ \A t \in Sandboxes : \A pc \in X!TeardownSteps :
               TearingDown(t, pc)' => TearingDown(t, pc)
      BY <1>0, <1>1, <1>5 DEF X!DeleteRow, X!world, X!NoRow, X!TeardownSteps
    <2>2. CreateFits'
      BY <1>0, <2>1 DEF Inv, CreateFits, Clear, X!Is, Claimed, X!TeardownSteps
    <2>3. TeardownFits'
      BY <1>0, <2>1 DEF Inv, TeardownFits, Clear, X!Is, Claimed, X!TeardownSteps
    <2>4. RunningFits' /\ SweepFits'
      BY <1>0, <2>1 DEF Inv, TeardownFits, RunningFits, SweepFits, Counted, Clear, X!Is
    <2> QED BY <2>2, <2>3, <2>4
  <1> QED BY <1>2, <1>3, <1>4, <1>5 DEF X!Teardown

\* So does a write of the row alone that ends no running sandbox, unless to delete it, and
\* claims nothing that has no row.
LEMMA WriteKeeps ==
  ASSUME Inv, NEW s \in Sandboxes,
         UNCHANGED <<active, cont, vol, left, creator, sweep>>,
         xRow' \in [Sandboxes -> RowType],
         expirer.unstopped \subseteq expirer'.unstopped,
         \A t \in Sandboxes \ {s} : xRow'[t] = xRow[t],
         xRow'[s].known = xRow[s].known,
         \/ xRow'[s].status = xRow[s].status
         \/ /\ ~X!Is(s, "none") /\ xRow'[s].status = "deleting"
         \/ /\ X!Is(s, "running") /\ xRow'[s].status = "stopped"
            /\ cont[s] # "running" \/ s \in expirer'.unstopped
         \/ /\ X!Is(s, "creating") /\ xRow'[s].status = "failed",
         \A t \in Sandboxes : \A pc \in X!TeardownSteps :
           TearingDown(t, pc)' => \/ TearingDown(t, pc)
                                  \/ t = s /\ pc = "get" /\ xRow'[s].status = "deleting"
  PROVE  CreateFits' /\ TeardownFits' /\ RunningFits' /\ SweepFits'
  <1>1. CreateFits'
    BY DEF Inv, CreateFits, Clear, X!Is, Claimed, X!TeardownSteps
  <1>2. TeardownFits'
    BY DEF Inv, TeardownFits, Clear, X!Is, Claimed, X!TeardownSteps
  <1>3. RunningFits'
    BY DEF Inv, RunningFits, X!Is
  <1>4. SweepFits'
    BY DEF Inv, SweepFits, Counted, X!Is
  <1> QED BY <1>1, <1>2, <1>3, <1>4

\* The reaper's own steps and those of the startup keep it.
LEMMA ReaperKeeps ==
  ASSUME Inv,
         \/ X!SelectToReap \/ X!StartUp
         \/ \E s \in Sandboxes : X!ClaimToReap(s) \/ X!WatchDisk(s) \/ X!ClaimForPressure(s)
  PROVE  CreateFits' /\ TeardownFits' /\ RunningFits' /\ SweepFits'
  <1>0. /\ xRow \in [Sandboxes -> RowType] /\ xRow' \in [Sandboxes -> RowType]
        /\ reaper \in ReaperType
        /\ UNCHANGED <<active, cont, vol, left, creator, deleter, expirer, sweep>>
    BY ReaperTyped DEF Inv, X!TypeOK, RowType, ReaperType, X!SelectToReap, X!StartUp,
       X!ClaimToReap, X!WatchDisk, X!ClaimForPressure, X!OthersOfReaper, X!world
  <1>1. CASE X!SelectToReap \/ \E s \in Sandboxes : X!WatchDisk(s)
    <2>1. xRow' = xRow
      BY <1>1 DEF X!SelectToReap, X!WatchDisk
    <2>2. reaper'.pc \notin X!TeardownSteps
      <3>1. CASE X!SelectToReap
        BY <1>0, <3>1 DEF X!SelectToReap, X!TeardownSteps, ReaperType
      <3>2. ASSUME NEW s \in Sandboxes, X!WatchDisk(s) PROVE reaper'.pc \notin X!TeardownSteps
        BY <1>0, <3>2 DEF X!WatchDisk, X!TeardownSteps, ReaperType
      <3> QED BY <1>1, <3>1, <3>2
    <2> QED BY <1>0, <2>1, <2>2 DEF Inv, CreateFits, TeardownFits, RunningFits, SweepFits, Counted,
            Clear, X!Is, Claimed, TearingDown, X!TeardownSteps
  <1>2. CASE X!StartUp
    <2>1. reaper'.pc \notin X!TeardownSteps
      BY <1>0, <1>2 DEF X!StartUp, X!IdleReaper, X!TeardownSteps, ReaperType
    <2>2. \A t \in Sandboxes :
            /\ xRow'[t].known = xRow[t].known
            /\ \/ xRow'[t].status = xRow[t].status
               \/ xRow[t].status # "none" /\ xRow'[t].status = "deleting"
      <3>1. ASSUME NEW t \in Sandboxes
            PROVE  /\ [xRow[t] EXCEPT !.status = "deleting", !.old = TRUE].known = xRow[t].known
                   /\ [xRow[t] EXCEPT !.status = "deleting", !.old = TRUE].status = "deleting"
        BY <1>0 DEF RowType
      <3> QED BY <1>0, <1>2, <3>1 DEF X!StartUp, X!ToDeleteAtStart, X!Is
    <2>3. CreateFits'
      BY <1>0, <2>1, <2>2 DEF Inv, CreateFits, Clear, X!Is, Claimed, TearingDown, X!TeardownSteps
    <2>4. TeardownFits'
      BY <1>0, <2>1, <2>2 DEF Inv, TeardownFits, Clear, X!Is, Claimed, TearingDown, X!TeardownSteps
    <2>5. RunningFits' /\ SweepFits'
      BY <1>0, <2>2 DEF Inv, RunningFits, SweepFits, Counted, X!Is
    <2> QED BY <2>3, <2>4, <2>5
  <1>3. ASSUME NEW s \in Sandboxes, X!ClaimToReap(s) \/ X!ClaimForPressure(s)
        PROVE  CreateFits' /\ TeardownFits' /\ RunningFits' /\ SweepFits'
    <2>1. /\ \A t \in Sandboxes \ {s} : xRow'[t] = xRow[t]
          /\ xRow'[s].known = xRow[s].known
          /\ \/ xRow' = xRow /\ reaper'.pc \notin X!TeardownSteps
             \/ /\ ~X!Is(s, "none") /\ xRow'[s].status = "deleting"
                /\ reaper'.pc = "get" /\ reaper'.s = s
      <3>1. CASE X!ClaimToReap(s) /\ X!Reapable(s)
        BY <1>0, <3>1, Written DEF X!ClaimToReap, X!Reapable, X!Is, X!Statuses, ReaperType
      <3>2. CASE X!ClaimToReap(s) /\ ~X!Reapable(s)
        BY <1>0, <3>2 DEF X!ClaimToReap, ReaperType, X!TeardownSteps
      <3>3. CASE X!ClaimForPressure(s)
        BY <1>0, <3>3, Written DEF X!ClaimForPressure, X!MoveReaper, X!Is, X!Statuses, ReaperType,
           X!IdleReaper, X!TeardownSteps
      <3> QED BY <1>3, <3>1, <3>2, <3>3
    <2>2. \A t \in Sandboxes : \A pc \in X!TeardownSteps :
            TearingDown(t, pc)' => \/ TearingDown(t, pc)
                                   \/ t = s /\ pc = "get" /\ xRow'[s].status = "deleting"
      BY <1>0, <2>1 DEF TearingDown
    <2> QED BY <1>0, <2>1, <2>2, WriteKeeps
  <1> QED BY <1>1, <1>2, <1>3

\* The claim of DELETE, extend, the reconciler and time keep it.
LEMMA RowKeeps ==
  ASSUME Inv, NEW s \in Sandboxes,
         \/ X!ClaimDelete(s) \/ X!ExtendSandbox(s) \/ X!ReconcileGone(s) \/ X!FailStaleCreate(s)
         \/ X!ExpireClaim(s) \/ X!ExpireRetry(s) \/ X!ExpireStop(s)
         \/ X!Age(s) \/ X!Lapse(s) \/ X!Exit(s)
  PROVE  CreateFits' /\ TeardownFits' /\ RunningFits' /\ SweepFits'
  <1>0. /\ xRow \in [Sandboxes -> RowType]
        /\ cont \in [Sandboxes -> {"none", "running", "exited"}]
        /\ deleter \in [Sandboxes -> {"idle"} \cup X!TeardownSteps]
        /\ xRow' \in [Sandboxes -> RowType]
        /\ UNCHANGED <<active, vol, left, creator, reaper, sweep>>
    BY RowTyped DEF Inv, X!TypeOK, RowType, X!ClaimDelete, X!ExtendSandbox, X!ReconcileGone, X!FailStaleCreate,
       X!callVars, X!ExpireClaim, X!ExpireRetry, X!ExpireStop, X!OthersOfExpirer, X!Age, X!Lapse, X!Exit, X!world
  <1>1. CASE X!ExpireRetry(s) \/ X!ExpireStop(s) \/ X!Exit(s)
    <2>0. expirer \in ExpirerType
      BY DEF Inv, X!TypeOK, ExpirerType
    <2>1. /\ xRow' = xRow /\ deleter' = deleter
          /\ \A t \in Sandboxes : cont'[t] = cont[t] \/ (cont[t] # "none" /\ cont'[t] = "exited")
      BY <1>0, <1>1 DEF X!ExpireRetry, X!ExpireStop, X!Exit, X!OthersOfExpirer, X!callVars
    <2>2. \A t \in Sandboxes : t \in expirer.unstopped => t \in expirer'.unstopped \/ cont'[t] # "running"
      <3>1. CASE X!ExpireRetry(s)
        BY <2>0, <3>1 DEF X!ExpireRetry, ExpirerType
      <3>2. CASE X!ExpireStop(s)
        <4>1. CASE /\ cont' = [cont EXCEPT ![s] = IF @ = "running" THEN "exited" ELSE @]
                   /\ expirer' = [pc |-> "idle", s |-> X!None, unstopped |-> expirer.unstopped \ {s}]
          BY <1>0, <4>1
        <4>2. CASE expirer' = [expirer EXCEPT !.pc = "idle", !.s = X!None]
          BY <2>0, <4>2 DEF ExpirerType
        <4> QED BY <3>2, <4>1, <4>2 DEF X!ExpireStop
      <3>3. CASE X!Exit(s)
        BY <3>3 DEF X!Exit, X!callVars
      <3> QED BY <1>1, <3>1, <3>2, <3>3
    <2>3. SweepFits'
      BY <1>0, <2>1, <2>2 DEF Inv, SweepFits, Counted, X!Is
    <2> QED BY <1>0, <2>1, <2>3 DEF Inv, CreateFits, TeardownFits, RunningFits, Clear,
            X!Is, Claimed, TearingDown, X!TeardownSteps
  <1>2. CASE ~(X!ExpireRetry(s) \/ X!ExpireStop(s) \/ X!Exit(s))
    <2>1. /\ cont' = cont
          /\ expirer.unstopped \subseteq expirer'.unstopped
      BY <1>2 DEF X!ClaimDelete, X!ExtendSandbox, X!ReconcileGone, X!FailStaleCreate,
         X!callVars, X!ExpireClaim, X!Age, X!Lapse, X!world
    <2>2. /\ \A t \in Sandboxes \ {s} : xRow'[t] = xRow[t]
          /\ xRow'[s].known = xRow[s].known
          /\ \/ xRow'[s].status = xRow[s].status
             \/ /\ ~X!Is(s, "none") /\ xRow'[s].status = "deleting"
             \/ /\ X!Is(s, "running") /\ xRow'[s].status = "stopped"
                /\ cont[s] # "running" \/ s \in expirer'.unstopped
             \/ /\ X!Is(s, "creating") /\ xRow'[s].status = "failed"
          /\ \/ deleter' = deleter
             \/ deleter' = [deleter EXCEPT ![s] = "get"] /\ xRow'[s].status = "deleting"
      <3>1. CASE X!ClaimDelete(s)
        BY <1>0, <3>1, Written DEF X!ClaimDelete, X!MoveDeleter, X!Is, X!Statuses
      <3>2. CASE X!ExtendSandbox(s)
        BY <1>0, <3>2 DEF X!ExtendSandbox, X!callVars, RowType, X!Is
      <3>3. CASE X!Age(s)
        BY <1>0, <3>3 DEF X!Age, X!callVars, RowType
      <3>4. CASE X!Lapse(s)
        <4>1. xRow'[s] = [xRow[s] EXCEPT !.lease = "lapsed"]
          BY <1>0, <3>4 DEF X!Lapse
        <4>2. xRow'[s].known = xRow[s].known /\ xRow'[s].status = xRow[s].status
          BY <1>0, <4>1 DEF RowType
        <4> QED BY <1>0, <3>4, <4>2 DEF X!Lapse, X!callVars
      <3>5. CASE X!ReconcileGone(s)
        BY <1>0, <3>5, Written DEF X!ReconcileGone, X!Is, X!Statuses, X!callVars
      <3>6. CASE X!FailStaleCreate(s)
        BY <1>0, <3>6, Written DEF X!FailStaleCreate, X!Is, X!Statuses, X!callVars
      <3>7. CASE X!ExpireClaim(s)
        BY <1>0, <3>7, Written DEF X!ExpireClaim, X!OthersOfExpirer, X!Is, X!Statuses
      <3> QED BY <1>2, <3>1, <3>2, <3>3, <3>4, <3>5, <3>6, <3>7
    <2>3. \A t \in Sandboxes : \A pc \in X!TeardownSteps :
            TearingDown(t, pc)' => \/ TearingDown(t, pc)
                                   \/ t = s /\ pc = "get" /\ xRow'[s].status = "deleting"
      BY <1>0, <2>2 DEF TearingDown, X!TeardownSteps
    <2> QED BY <1>0, <2>1, <2>2, <2>3, WriteKeeps
  <1> QED BY <1>1, <1>2

\* A suspension, its sweep, a reactivation and a crash keep it.
LEMMA SweepKeeps ==
  ASSUME Inv, X!Suspend \/ X!StopAllForTenant \/ X!Reactivate \/ X!Crash
  PROVE  CreateFits' /\ TeardownFits' /\ RunningFits' /\ SweepFits'
  <1>0. /\ xRow \in [Sandboxes -> RowType] /\ sweep \in SweepType
        /\ cont \in [Sandboxes -> {"none", "running", "exited"}]
        /\ creator \in [Sandboxes -> CreatorType]
    BY DEF Inv, X!TypeOK, RowType, SweepType, CreatorType
  <1>1. CASE X!Suspend \/ X!SweepEnd \/ X!Reactivate \/ X!SweepSelect
    <2>1. UNCHANGED <<xRow, cont, vol, left, creator, deleter, reaper, expirer>> /\ sweep'.missed = sweep.missed
      BY <1>0, <1>1 DEF X!Suspend, X!SweepEnd, X!Reactivate, X!SweepSelect, X!OthersOfSweep, X!world, SweepType
    <2>2. CreateFits' /\ TeardownFits' /\ RunningFits'
      BY <2>1 DEF Inv, CreateFits, TeardownFits, RunningFits, Clear, X!Is, Claimed, TearingDown
    <2>3. ASSUME NEW s \in Sandboxes, ~active', X!Is(s, "running"), Counted(s)
          PROVE  \/ sweep'.pc = "select"
                 \/ sweep'.pc = "next" /\ [s |-> s, known |-> TRUE] \in sweep'.todo
      <3>1. xRow[s].known
        BY <2>3 DEF Inv, RunningFits
      <3>2. CASE X!Suspend
        BY <1>0, <3>2 DEF X!Suspend, SweepType
      <3>3. CASE X!SweepSelect
        <4>1. [s |-> s, known |-> TRUE] \in
                {[s |-> t, known |-> xRow[t].known] :
                   t \in {b \in Sandboxes : xRow[b].status \in {"creating", "running"}}}
          BY <1>0, <2>3, <3>1 DEF X!Is, RowType
        <4> QED BY <1>0, <3>3, <4>1 DEF X!SweepSelect, SweepType
      <3>4. CASE X!SweepEnd
        BY <1>0, <2>1, <2>3, <3>4 DEF Inv, SweepFits, X!SweepEnd, SweepType
      <3> QED BY <1>1, <2>3, <3>2, <3>3, <3>4 DEF X!Reactivate
    <2>4. SweepFits'
      BY <2>1, <2>3 DEF Inv, SweepFits, Counted, X!Is
    <2> QED BY <2>2, <2>4
  <1>2. ASSUME NEW e \in sweep.todo, X!SweepStop(e)
        PROVE  CreateFits' /\ TeardownFits' /\ RunningFits' /\ SweepFits'
    <2>0. e \in [s : Sandboxes, known : BOOLEAN]
      BY <1>0 DEF SweepType
    <2>1. UNCHANGED <<active, vol, creator, deleter, reaper, expirer>>
      BY <1>2 DEF X!SweepStop, X!OthersOfSweep
    <2>2. /\ left \subseteq left' /\ sweep.missed \subseteq sweep'.missed
          /\ sweep'.pc = sweep.pc /\ sweep'.todo = sweep.todo \ {e}
          /\ \/ /\ cont' = [cont EXCEPT ![e.s] = IF e.known /\ @ = "running" THEN "exited" ELSE @]
                /\ X!Write(e.s, "stopped")
                /\ (~e.known /\ creator[e.s] = "done" /\ cont[e.s] = "running" => e.s \in sweep'.missed)
             \/ e.s \in left' /\ UNCHANGED <<xRow, cont>>
      <3>1. ~e.known /\ creator[e.s] = "done" /\ cont[e.s] = "running" => e.s \in X!Overlooked(e)
        BY DEF X!Overlooked
      <3>2. CASE /\ cont' = [cont EXCEPT ![e.s] = IF e.known /\ @ = "running" THEN "exited" ELSE @]
                 /\ X!Write(e.s, "stopped") /\ left' = left
                 /\ sweep' = [sweep EXCEPT !.todo = @ \ {e}, !.missed = @ \cup X!Overlooked(e)]
        <4>1. /\ sweep'.pc = sweep.pc /\ sweep'.todo = sweep.todo \ {e}
              /\ sweep'.missed = sweep.missed \cup X!Overlooked(e)
          BY <1>0, <3>2 DEF SweepType
        <4> QED BY <3>1, <3>2, <4>1
      <3>3. CASE /\ left' = left \cup {e.s} /\ UNCHANGED <<xRow, cont>>
                 /\ sweep' = [sweep EXCEPT !.todo = @ \ {e}]
        <4>1. /\ sweep'.pc = sweep.pc /\ sweep'.todo = sweep.todo \ {e}
              /\ sweep'.missed = sweep.missed
          BY <1>0, <3>3 DEF SweepType
        <4> QED BY <3>3, <4>1
      <3> QED BY <1>2, <3>2, <3>3 DEF X!SweepStop
    <2>3. \A t \in Sandboxes :
            /\ xRow'[t].known = xRow[t].known
            /\ \/ xRow'[t].status = xRow[t].status
               \/ t = e.s /\ ~X!Is(t, "none") /\ xRow'[t].status = "stopped"
            /\ cont'[t] = cont[t] \/ (cont[t] = "running" /\ cont'[t] = "exited")
      BY <1>0, <2>0, <2>2, Written DEF X!Is, X!Statuses
    <2>4. CreateFits' /\ TeardownFits'
      BY <1>0, <2>1, <2>2, <2>3 DEF Inv, CreateFits, TeardownFits, Clear, X!Is, Claimed, TearingDown,
         X!TeardownSteps
    <2>5. RunningFits'
      BY <2>1, <2>3 DEF Inv, RunningFits, X!Is
    <2>6. SweepFits'
      <3>1. ASSUME NEW t \in Sandboxes, creator'[t] = "done", cont'[t] = "running",
                   t \notin left', t \notin sweep'.missed, t \notin expirer.unstopped
            PROVE  /\ X!Is(t, "running") \/ X!Is(t, "deleting")
                   /\ Counted(t)
                   /\ xRow'[t].status = xRow[t].status
                   /\ t = e.s => ~e.known
        <4>1. Counted(t)
          BY <2>1, <2>2, <2>3, <3>1 DEF Counted
        <4>2. t # e.s
          <5>1. CASE t = e.s /\ UNCHANGED <<xRow, cont>> /\ e.s \in left'
            BY <3>1, <5>1
          <5>2. CASE t = e.s /\ cont' = [cont EXCEPT ![e.s] = IF e.known /\ @ = "running" THEN "exited" ELSE @]
            BY <1>0, <2>0, <2>1, <2>2, <3>1, <4>1, <5>2 DEF Counted
          <5> QED BY <2>2, <5>1, <5>2
        <4> QED BY <2>3, <4>1, <4>2 DEF Inv, SweepFits
      <3> QED BY <2>0, <2>1, <2>2, <3>1 DEF Inv, SweepFits, Counted, X!Is
    <2> QED BY <2>4, <2>5, <2>6
  <1>3. CASE X!Crash
    <2>1. /\ UNCHANGED <<active, xRow, cont, vol>>
          /\ creator' = [t \in Sandboxes |-> IF creator[t] = "new" THEN "new" ELSE "done"]
          /\ left' = left \cup {t \in Sandboxes : creator[t] \notin {"new", "done"} \/ sweep.pc # "idle"}
          /\ sweep'.missed = sweep.missed /\ expirer'.unstopped = expirer.unstopped
          /\ \A t \in Sandboxes : \A pc \in X!TeardownSteps : ~TearingDown(t, pc)'
      BY <1>0, <1>3 DEF X!Crash, SweepType, X!NoSweep, X!IdleReaper, X!IdleExpirer, TearingDown, X!TeardownSteps
    <2>2. CreateFits' /\ RunningFits'
      BY <1>0, <2>1 DEF Inv, CreateFits, RunningFits, Clear, X!Is, Claimed, X!TeardownSteps
    <2>3. TeardownFits' /\ SweepFits'
      BY <1>0, <2>1 DEF Inv, TeardownFits, SweepFits, Counted, Clear, X!Is, Claimed, X!TeardownSteps
    <2> QED BY <2>2, <2>3
  <1> QED BY <1>1, <1>2, <1>3 DEF X!StopAllForTenant

-----------------------------------------------------------------------------
(* The theorems. *)

\* The sandboxes start with the invariant.
LEMMA InitInv == ASSUME X!SandboxesAssumption, X!Init PROVE Inv
  <1>1. /\ X!NoRow \in RowType /\ X!IdleReaper \in ReaperType /\ X!NoSweep \in SweepType
        /\ X!IdleExpirer \in ExpirerType
    BY DEF RowType, X!NoRow, ReaperType, X!IdleReaper, SweepType, X!NoSweep, ExpirerType, X!IdleExpirer
  <1>2. X!TypeOK
    BY <1>1 DEF X!Init, X!TypeOK, RowType, ReaperType, SweepType, ExpirerType
  <1>3. /\ \A s \in Sandboxes : \A pc \in X!TeardownSteps : ~TearingDown(s, pc)
        /\ \A s \in Sandboxes : X!Is(s, "none") /\ Clear(s) /\ creator[s] = "new"
    BY DEF X!Init, TearingDown, X!TeardownSteps, X!Is, X!NoRow, X!IdleReaper, Clear
  <1> QED BY <1>2, <1>3 DEF Inv, CreateFits, TeardownFits, RunningFits, SweepFits, Counted, Claimed, X!Is

\* Every step of the sandboxes keeps it.
LEMMA StepKeeps == ASSUME Inv, X!Next PROVE Inv'
  <1>0. X!TypeOK'
    BY StepTyped DEF Inv
  <1>1. ASSUME NEW s \in Sandboxes, X!DeleteStep(s) PROVE Inv'
    BY <1>0, <1>1, TeardownKeeps DEF X!DeleteStep, Inv
  <1>2. CASE X!ReapStep
    BY <1>0, <1>2, TeardownKeeps DEF X!ReapStep, X!OthersOfReaper, Inv
  <1>3. CASE X!Reaper
    BY <1>0, <1>2, <1>3, ReaperKeeps DEF X!Reaper, Inv
  <1>4. ASSUME NEW s \in Sandboxes, X!CreateSandbox(s) PROVE Inv'
    BY <1>0, <1>4, CreateKeeps DEF Inv
  <1>5. ASSUME NEW s \in Sandboxes,
               \/ X!ClaimDelete(s) \/ X!ExtendSandbox(s) \/ X!ReconcileGone(s) \/ X!FailStaleCreate(s)
               \/ X!ExpireClaim(s) \/ X!ExpireRetry(s) \/ X!ExpireStop(s)
         \/ X!Age(s) \/ X!Lapse(s) \/ X!Exit(s)
        PROVE  Inv'
    BY <1>0, <1>5, RowKeeps DEF Inv
  <1>6. CASE X!Suspend \/ X!StopAllForTenant \/ X!Reactivate \/ X!Crash
    BY <1>0, <1>6, SweepKeeps DEF Inv
  <1> QED BY <1>1, <1>3, <1>4, <1>5, <1>6 DEF X!Next

\* A step that leaves the sandboxes alone keeps it.
LEMMA StutterKeeps == ASSUME Inv, UNCHANGED xVars PROVE Inv'
  BY DEF Inv, xVars, X!TypeOK, CreateFits, TeardownFits, RunningFits, SweepFits, Counted, Claimed,
     TearingDown, Clear, X!Is

LEMMA StaysInv == JobsSpec => []Inv
  <1>1. JobsInit => Inv
    BY InitInv, JobsAssumption DEF JobsInit
  <1>2. Inv /\ [JobsNext]_<<scene, vars, xVars>> => Inv'
    BY StepKeeps, StutterKeeps DEF JobsNext
  <1> QED BY <1>1, <1>2, PTL DEF JobsSpec

\* The invariant has both promises: a sandbox whose row is gone after its create has left neither a
\* container nor a volume, unless a best-effort cleanup or a crash left it; and once a suspension
\* has swept, no sandbox of the tenant runs that is not being deleted, was not left and was not
\* overlooked.
LEMMA InvClears == ASSUME Inv PROVE SandboxesCleared
  <1>1. X!RowGoneNothingLeft
    BY DEF Inv, TeardownFits, X!RowGoneNothingLeft, Clear
  <1>2. X!SuspendedSandboxesStopped
    BY DEF Inv, SweepFits, Counted, X!SuspendedSandboxesStopped
  <1> QED BY <1>1, <1>2 DEF SandboxesCleared, X!SandboxesCleared

\* However create, DELETE, the reaper, its watchdog, the startup, the reconciler, suspensions,
\* failing calls and crashes overlap: what is deleted leaves nothing, what is suspended stops.
THEOREM DeletedAndSuspendedAreCleared == JobsSpec => []SandboxesCleared
  <1>1. Inv => SandboxesCleared
    BY InvClears
  <1> QED BY <1>1, StaysInv, PTL

\* Builds keep their types and sandboxes theirs, each in its own steps.
THEOREM JobsTyped == JobsSpec => []TypesOK
  <1>1. JobsInit => Typed
    BY InitTyped DEF JobsInit
  <1>2. Typed /\ [JobsNext]_<<scene, vars, xVars>> => Typed'
    BY NextTyped DEF JobsNext
  <1>3. Typed /\ Inv => TypesOK
    BY DEF Typed, Inv, TypesOK
  <1> QED BY <1>1, <1>2, <1>3, StaysInv, PTL DEF JobsSpec

=============================================================================
