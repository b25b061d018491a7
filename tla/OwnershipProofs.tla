---------------------------- MODULE OwnershipProofs ----------------------------
(***************************************************************************)
(* Who owns containers and workspaces, for any number of environments,     *)
(* pool entries and containers, and whatever acts and fails: nothing has   *)
(* two owners, and a claimed container keeps its row; and what keeps the   *)
(* container that a Start has brought up and the workspace of an           *)
(* environment, whatever suspensions come in between.                      *)
(***************************************************************************)
EXTENDS EnvironmentsProofs

-----------------------------------------------------------------------------
(* The invariant. *)

\* Containers that nobody has been given yet: those to be made, and the ready ones of the pool.
Fresh(c) ==
  \/ cont[c].state = "none"
  \/ c \in Entries /\ pool[c] = "ready"
  \/ fill.pc = "insert" /\ fill.entry = c

\* What the row of environment e names, and the goroutines that work on e remember.
Holds(e) ==
  {env[e].cid, env[e].vol, creator[e].cid, creator[e].vol}
  \cup (IF user.env = e THEN {user.cid, user.vol} ELSE {})
  \cup (IF rec.env = e THEN {rec.cid} ELSE {})

\* No two environments hold the same, and none holds what another may yet be given.
Apart ==
  /\ \A e, d \in Envs : e # d => Holds(e) \cap Holds(d) \subseteq {Nothing}
  /\ \A e \in Envs : Holds(e) \subseteq Containers \cup {e, Nothing}
  /\ \A e \in Envs, c \in Containers : Fresh(c) => c \notin Holds(e)

\* An environment holds no container before its create claims or makes one.
StartsEmpty == \A e \in Envs : env[e].status = "absent" \/ At(e, "acquire") => Holds(e) \subseteq {e, Nothing}

\* An entry has a container, and the refill makes containers for new entries only.
PoolFits ==
  /\ \A p \in Entries : pool[p] # "absent" => cont[p].state # "none"
  /\ fill.pc \in {"run", "insert"} => pool[fill.entry] = "absent"
  /\ fill.pc = "run" <=> fill.pc \in {"run", "insert"} /\ cont[fill.entry].state = "none"

OwnersInv == Apart /\ StartsEmpty /\ PoolFits

-----------------------------------------------------------------------------
(* Docker: what is gone does not come back, and only Run makes what was not there. *)

\* What a step does to container c when it does not make it.
Ages(c) ==
  /\ cont'[c].state = "none" <=> cont[c].state = "none"
  /\ Exists(c)' => Exists(c)
  /\ cont'[c].vol = cont[c].vol

\* Stopping and removing make nothing.
LEMMA DockerAges ==
  ASSUME Typed, NEW c \in Containers, NEW x
  PROVE  /\ cont' = Stopped(x) \/ cont' = Removed(x) \/ Discard(x) => Ages(c)
         /\ cont' = cont => Ages(c)
  <1>1. cont' = Stopped(x) => Ages(c)
    BY DEF Typed, ContType, Stopped, Up, Ages, Exists
  <1>2. cont' = Removed(x) => Ages(c)
    BY DEF Typed, ContType, Removed, Ages, Exists
  <1>3. cont' = cont => Ages(c)
    BY DEF Ages, Exists
  <1>4. Discard(x) => Ages(c)
    BY <1>1, <1>2, <1>3 DEF Discard
  <1> QED BY <1>1, <1>2, <1>3, <1>4

\* Run makes its container and leaves the others.
LEMMA RunAges ==
  ASSUME Typed, NEW c \in Containers, NEW n, NEW v, Run(c, n, v)
  PROVE  /\ cont'[c].state = "running" /\ cont'[c].vol = v
         /\ \A d \in Containers : d # c => Ages(d)
  BY DEF Typed, ContType, Run, Ages, Exists

\* The container that a step makes, if any: that of an entry, or one of its own.
Makes(c) ==
  \/ fill.pc = "run" /\ fill.entry = c /\ fill'.pc = "insert" /\ fill'.entry = c /\ pool' = pool
  \/ c \in Unused /\ fill' = fill /\ pool' = pool

\* A step makes a container only as Makes says, and one of an entry on the entry's volume.
LEMMA NextAges ==
  ASSUME Shape, Next, NEW c \in Containers
  PROVE  Ages(c) \/ (Makes(c) /\ cont'[c].state = "running" /\ (c \in Entries => cont'[c].vol = c))
  <1>0. Typed /\ OthersFit /\ UserFits /\ fill \in FillType
    BY DEF Shape, Fits, Typed
  <1>1. UNCHANGED cont => Ages(c)
    BY <1>0, DockerAges
  <1>2. ASSUME NEW x, cont' = Stopped(x) \/ cont' = Removed(x) \/ Discard(x)
        PROVE  Ages(c)
    BY <1>0, <1>2, DockerAges
  <1>3. ASSUME NEW e \in Envs, Transfer(e)
        PROVE  Ages(c)
    BY <1>0, <1>3 DEF Transfer, Typed, ContType, Ages, Exists
  <1>4. CASE StartContainer
    <2>1. CASE Exists(user.cid) /\ cont' = [cont EXCEPT ![user.cid].state = "running"]
      BY <1>0, <2>1 DEF Typed, ContType, Ages, Exists
    <2>2. ASSUME NEW n \in Unused, Run(n, user.env, user.vol)
          PROVE  Ages(c) \/ (Makes(c) /\ cont'[c].state = "running" /\ c \notin Entries)
      <3>1. n \in Containers /\ n \notin Entries
        BY EnvironmentsAssumption DEF Unused, Containers
      <3> QED BY <1>0, <1>4, <2>2, <3>1, RunAges DEF StartContainer, Makes
    <2> QED BY <1>1, <1>4, <2>1, <2>2 DEF StartContainer
  <1>5. ASSUME NEW e \in Envs, RunCold(e)
        PROVE  Ages(c) \/ (Makes(c) /\ cont'[c].state = "running" /\ c \notin Entries)
    <2>1. ASSUME NEW n \in Unused, Run(n, e, e)
          PROVE  Ages(c) \/ (Makes(c) /\ cont'[c].state = "running" /\ c \notin Entries)
      <3>1. n \in Containers /\ n \notin Entries
        BY EnvironmentsAssumption DEF Unused, Containers
      <3> QED BY <1>0, <1>5, <2>1, <3>1, RunAges DEF RunCold, Makes
    <2> QED BY <1>1, <1>5, <2>1 DEF RunCold
  <1>6. CASE FillRun
    <2>1. CASE Run(fill.entry, fill.entry, fill.entry) /\ fill' = [fill EXCEPT !.pc = "insert"]
      <3>1. fill.entry \in Containers /\ fill'.pc = "insert" /\ fill'.entry = fill.entry
        BY <1>0, <1>6, <2>1 DEF FillRun, OthersFit, Containers, FillType
      <3> QED BY <1>0, <1>6, <2>1, <3>1, RunAges DEF FillRun, Makes
    <2> QED BY <1>1, <1>6, <2>1 DEF FillRun
  <1>7. ASSUME NEW e \in Envs, CreateBegin(e) \/ Create(e)
        PROVE  Ages(c) \/ (Makes(c) /\ cont'[c].state = "running" /\ c \notin Entries)
    <2>1. CASE Unclaim(e) \/ UndoContainer(e)
      BY <1>2, <2>1 DEF Unclaim, UndoContainer
    <2>2. CASE ~(Unclaim(e) \/ UndoContainer(e) \/ RunCold(e) \/ Transfer(e))
      BY <1>1, <1>7, <2>2 DEF CreateBegin, Create, Insert, NoNetwork, Acquire, Reset, MakeVolume,
         RunFailed, Commit, UndoStorage, DropRow, Fail
    <2> QED BY <1>3, <1>5, <2>1, <2>2
  <1>8. CASE Request /\ ~StartContainer
    BY <1>1, <1>2, <1>8 DEF Request, UserBegin, ExtendLease, LeaseExpires, User, StartHold, Hold, StartCommit,
       StartUndo, StopContainer, StopWrite, DeleteContainer, DeleteStorage, DeleteRow
  <1>9. CASE Elsewhere /\ ~FillRun
    BY <1>1, <1>2, <1>9 DEF Elsewhere, Reconcile, RecRead, RecFailStale, RecWatch, RecMark, RecInspect, RecRecheck,
       RecClaim, RecStop, UnchangedButRec, Refill, PruneRead, PruneInspect, Prune, PruneVolume, FillStart,
       FillInsert, Collect, GcContainer, GcVolume, GcRemove, Exit, DockerPrune, Suspend, Reactivate, Sweep, SweepList,
       SweepStop, SweepWrite, SweepNext, UnchangedButSweep, Crash
  <1> QED BY <1>4, <1>6, <1>7, <1>8, <1>9, NextSplits

\* The pool gives each entry once: from new to ready, to claimed, to no entry at all.
LEMMA NextPool ==
  ASSUME Shape, Next, NEW p \in Entries
  PROVE  \/ pool'[p] = pool[p] \/ pool'[p] = "absent"
         \/ pool[p] = "ready" /\ pool'[p] = "claimed" /\ UNCHANGED <<fill, cont>>
            /\ \E e \in Envs : Acquire(e) /\ env[e].status = "creating"
                               /\ env' = [env EXCEPT ![e].cid = p, ![e].vol = p]
         \/ fill.pc = "insert" /\ fill.entry = p /\ pool'[p] = "ready" /\ fill' = FillIdle /\ UNCHANGED cont
  <1>0. pool \in [Entries -> PoolType] /\ OthersFit
    BY DEF Shape, Fits, Typed
  <1>1. CASE UNCHANGED pool
    BY <1>1
  <1>2. CASE \E c : pool' = WithoutEntry(c)
    BY <1>0, <1>2 DEF WithoutEntry
  <1>3. CASE Prune
    BY <1>0, <1>3 DEF Prune
  <1>4. CASE FillInsert
    BY <1>0, <1>4 DEF FillInsert
  <1>5. ASSUME NEW e \in Envs, Acquire(e)
        PROVE  \/ pool'[p] = pool[p]
               \/ pool[p] = "ready" /\ pool'[p] = "claimed" /\ UNCHANGED <<fill, cont>>
                  /\ env[e].status = "creating" /\ env' = [env EXCEPT ![e].cid = p, ![e].vol = p]
    <2>1. ASSUME NEW q \in Entries, pool[q] = "ready", pool' = [pool EXCEPT ![q] = "claimed"],
                 env[e].status = "creating", env' = [env EXCEPT ![e].cid = q, ![e].vol = q]
          PROVE  \/ pool'[p] = pool[p]
                 \/ pool[p] = "ready" /\ pool'[p] = "claimed" /\ UNCHANGED <<fill, cont>>
                    /\ env[e].status = "creating" /\ env' = [env EXCEPT ![e].cid = p, ![e].vol = p]
      BY <1>0, <1>5, <2>1 DEF Acquire
    <2> QED BY <1>5, <2>1 DEF Acquire, Claimable
  <1>6. ASSUME NEW e \in Envs, CreateBegin(e) \/ Create(e), ~Acquire(e)
        PROVE  UNCHANGED pool \/ \E c : pool' = WithoutEntry(c)
    BY <1>6 DEF CreateBegin, Create, Insert, NoNetwork, Transfer, Unclaim, Reset, MakeVolume, RunCold,
       RunFailed, Commit, UndoContainer, UndoStorage, DropRow, Fail
  <1>7. Request => UNCHANGED pool \/ \E c : pool' = WithoutEntry(c)
    BY DEF Request, UserBegin, ExtendLease, LeaseExpires, User, StartHold, Hold, StartContainer, StartCommit,
       StartUndo, StopContainer, StopWrite, DeleteContainer, DeleteStorage, DeleteRow
  <1>8. Elsewhere => UNCHANGED pool \/ Prune \/ FillInsert
    BY DEF Elsewhere, Reconcile, RecRead, RecFailStale, RecWatch, RecMark, RecInspect, RecRecheck,
       RecClaim, RecStop, UnchangedButRec, Refill, PruneRead, PruneInspect, PruneVolume, FillStart, FillRun,
       Collect, GcContainer, GcVolume, GcRemove, Exit, DockerPrune, Suspend, Reactivate, Sweep, SweepList,
       SweepStop, SweepWrite, SweepNext, UnchangedButSweep, Crash
  <1> QED BY <1>1, <1>2, <1>3, <1>4, <1>5, <1>6, <1>7, <1>8, NextSplits

\* The refill works on the entry it began with, and makes its container once.
LEMMA NextFill ==
  ASSUME Shape, Next, fill'.pc \in {"run", "insert"}
  PROVE  \/ fill'.pc = fill.pc /\ fill'.entry = fill.entry
         \/ fill'.pc = "run" /\ pool[fill'.entry] = "absent" /\ cont[fill'.entry].state = "none"
            /\ UNCHANGED <<pool, cont>>
         \/ fill.pc = "run" /\ fill'.pc = "insert" /\ fill'.entry = fill.entry /\ UNCHANGED pool
            /\ cont'[fill.entry].state = "running"
  <1>0. Typed /\ OthersFit /\ fill \in FillType
    BY DEF Shape, Fits, Typed
  <1>1. ASSUME NEW e \in Envs, CreateBegin(e) \/ Create(e)
        PROVE  fill' = fill
    BY <1>1 DEF CreateBegin, Create, Insert, NoNetwork, Acquire, Transfer, Unclaim, Reset, MakeVolume, RunCold,
       RunFailed, Commit, UndoContainer, UndoStorage, DropRow, Fail
  <1>2. Request => fill' = fill
    BY DEF Request, UserBegin, ExtendLease, LeaseExpires, User, StartHold, Hold, StartContainer, StartCommit,
       StartUndo, StopContainer, StopWrite, DeleteContainer, DeleteStorage, DeleteRow
  <1>3. ASSUME NEW p \in Entries, PruneRead(p) \/ FillStart(p)
        PROVE  fill'.pc = "inspect" \/ (FillStart(p) /\ fill'.pc = "run" /\ fill'.entry = p)
    <2>1. FillStart(p) => fill'.pc = "run" /\ fill'.entry = p
      BY <1>0 DEF FillStart, FillType
    <2> QED BY <1>3, <2>1 DEF PruneRead
  <1>4. CASE FillRun
    <2>1. CASE Run(fill.entry, fill.entry, fill.entry) /\ fill' = [fill EXCEPT !.pc = "insert"]
      <3>1. fill.entry \in Containers /\ fill'.pc = "insert" /\ fill'.entry = fill.entry
        BY <1>0, <1>4, <2>1 DEF FillRun, OthersFit, Containers, FillType
      <3> QED BY <1>0, <1>4, <2>1, <3>1, RunAges DEF FillRun
    <2>2. CASE fill' = [fill EXCEPT !.pc = "unvolume"]
      BY <1>0, <2>2 DEF FillType
    <2> QED BY <1>4, <2>1, <2>2 DEF FillRun
  <1>5. PruneInspect \/ Prune \/ PruneVolume \/ FillInsert =>
          fill' = FillIdle \/ \E pc \in {"prune", "unvolume"} : fill' = [fill EXCEPT !.pc = pc]
    BY DEF PruneInspect, Prune, PruneVolume, FillInsert
  <1>6. PruneInspect \/ Prune \/ PruneVolume \/ FillInsert => fill'.pc \in {"idle", "prune", "unvolume"}
    BY <1>0, <1>5 DEF FillType, FillIdle
  <1>7. Elsewhere /\ ~Refill => fill' = fill \/ fill' = FillIdle \/ (fill'.pc = fill.pc /\ fill'.entry = fill.entry)
    BY HistoryOnly DEF Elsewhere, Reconcile, RecRead, RecFailStale, RecWatch, RecMark, RecInspect, RecRecheck,
       RecClaim, RecStop, UnchangedButRec, Collect, GcContainer, GcVolume, GcRemove, Exit, Suspend,
       Reactivate, Sweep, SweepList, SweepStop, SweepWrite, SweepNext, UnchangedButSweep, Crash
  <1>8. fill'.pc # "idle"
    OBVIOUS
  <1>9. CASE Refill
    <2>1. ASSUME NEW p \in Entries, FillStart(p)
          PROVE  /\ fill'.pc = "run" /\ pool[fill'.entry] = "absent" /\ cont[fill'.entry].state = "none"
                 /\ UNCHANGED <<pool, cont>>
      BY <1>3, <2>1 DEF FillStart, PruneRead
    <2>2. ASSUME NEW p \in Entries, PruneRead(p)
          PROVE  FALSE
      BY <2>2 DEF PruneRead
    <2> QED BY <1>4, <1>6, <1>9, <2>1, <2>2 DEF Refill
  <1> QED BY <1>1, <1>2, <1>7, <1>8, <1>9, NextSplits DEF FillIdle

\* The pool and the refill agree after a step as before.
LEMMA PoolFitsStep ==
  ASSUME Shape, PoolFits, Next
  PROVE  PoolFits'
  <1>0. /\ OthersFit /\ OthersFit' /\ fill \in FillType /\ fill' \in FillType /\ Entries \subseteq Containers
        /\ \A p \in Entries : p \notin Spare /\ cont[p].state \in {"none", "running", "exited", "gone"}
    BY ShapeStep, EnvironmentsAssumption DEF Shape, Fits, Typed, Containers, ContType
  <1>1. ASSUME NEW p \in Entries, pool'[p] # "absent"
        PROVE  cont'[p].state # "none"
    BY <1>0, <1>1, NextPool, NextAges DEF PoolFits, Ages
  <1>2. ASSUME fill'.pc \in {"run", "insert"}
        PROVE  /\ pool'[fill'.entry] = "absent"
               /\ fill'.pc = "run" <=> cont'[fill'.entry].state = "none"
    <2>1. PICK p \in Entries : p = fill'.entry
      BY <1>0, <1>2 DEF OthersFit
    <2>2. CASE fill'.pc = fill.pc /\ fill'.entry = fill.entry
      <3>1. pool'[p] = "absent"
        BY <1>2, <2>1, <2>2, NextPool DEF PoolFits, FillIdle
      <3>2. cont'[p].state = "none" <=> cont[p].state = "none"
        BY <1>0, <1>2, <2>1, <2>2, NextAges DEF Ages, Makes, Unused
      <3> QED BY <1>2, <2>1, <2>2, <3>1, <3>2 DEF PoolFits
    <2>3. CASE ~(fill'.pc = fill.pc /\ fill'.entry = fill.entry)
      BY <1>0, <1>2, <2>1, <2>3, NextFill DEF PoolFits
    <2> QED BY <2>2, <2>3
  <1> QED BY <1>1, <1>2 DEF PoolFits

\* Nothing becomes fresh.
LEMMA FreshShrinks ==
  ASSUME Shape, PoolFits, Next, NEW c \in Containers, Fresh(c)'
  PROVE  Fresh(c)
  <1>0. OthersFit /\ fill \in FillType
    BY DEF Shape, Fits, Typed
  <1>1. CASE cont'[c].state = "none"
    BY <1>1, NextAges DEF Ages, Fresh
  <1>2. CASE c \in Entries /\ pool'[c] = "ready"
    BY <1>2, NextPool DEF Fresh
  <1>3. CASE fill'.pc = "insert" /\ fill'.entry = c
    <2>1. CASE fill'.pc = fill.pc /\ fill'.entry = fill.entry
      BY <1>3, <2>1 DEF Fresh
    <2>2. CASE ~(fill'.pc = fill.pc /\ fill'.entry = fill.entry)
      BY <1>3, <2>2, NextFill DEF PoolFits, Fresh
    <2> QED BY <2>1, <2>2
  <1> QED BY <1>1, <1>2, <1>3 DEF Fresh

-----------------------------------------------------------------------------
(* Ownership. *)

\* The containers of environment e in particular.
Names(e) == {env[e].cid, creator[e].cid} \cup (IF user.env = e THEN {user.cid} ELSE {})

\* What a step may add to what environment e holds: nothing, or a fresh container.
Keeps(e) ==
  /\ Holds(e)' \subseteq Holds(e) \cup {e, Nothing}
  /\ Names(e)' \subseteq Names(e) \cup {Nothing}

Takes(e, c) ==
  /\ Holds(e)' \subseteq Holds(e) \cup {c}
  /\ Names(e)' \subseteq Names(e) \cup {c}
  /\ Fresh(c) /\ ~Fresh(c)'

\* A create claims an entry or makes a container, and takes nothing else.
LEMMA CreateHolds ==
  ASSUME Shape, PoolFits, NEW e \in Envs, CreateBegin(e) \/ Create(e)
  PROVE  /\ \A d \in Envs \ {e} : Keeps(d)
         /\ \/ Keeps(e)
            \/ (Acquire(e) \/ RunCold(e)) /\ \E c \in Containers : Takes(e, c)
  <1>0. /\ env \in [Envs -> EnvType] /\ creator \in [Envs -> CreatorType] /\ CreatorFits(e)
        /\ env[e] \in EnvType /\ creator[e] \in CreatorType
    BY DEF Shape, Fits, Typed
  <1>1. UNCHANGED <<user, rec>>
    BY DEF CreateBegin, Create, Insert, NoNetwork, Acquire, Transfer, Unclaim, Reset, MakeVolume, RunCold,
       RunFailed, Commit, UndoContainer, UndoStorage, DropRow, Fail
  <1>2. \A d \in Envs \ {e} : Keeps(d)
    BY <1>1, CreateElsewhere DEF Keeps, Holds, Names
  <1> SUFFICES \/ Keeps(e)
               \/ (Acquire(e) \/ RunCold(e)) /\ \E c \in Containers : Takes(e, c)
    BY <1>2
  <1>3. /\ env'[e].cid \in {env[e].cid, creator[e].cid, Nothing} /\ env'[e].vol \in {env[e].vol, e, Nothing}
        /\ creator'[e].cid \in {creator[e].cid, Nothing} /\ creator'[e].vol \in {creator[e].vol, e, Nothing}
        => Keeps(e)
    BY <1>1 DEF Keeps, Holds, Names
  <1>4. \A pc : Goto(e, pc) => creator'[e].cid = creator[e].cid /\ creator'[e].vol = creator[e].vol
    BY <1>0 DEF Goto, CreatorType
  <1>5. \A status : env' = WithStatus(e, status) => env'[e].cid = env[e].cid /\ env'[e].vol = env[e].vol
    BY <1>0 DEF WithStatus, EnvType
  <1>6. creator' = [creator EXCEPT ![e] = Idle] => creator'[e].cid = Nothing /\ creator'[e].vol = Nothing
    BY <1>0 DEF Idle
  <1>7. CASE CreateBegin(e) \/ NoNetwork(e) \/ Transfer(e) \/ Unclaim(e) \/ UndoContainer(e) \/ UndoStorage(e)
    <2>1. env' = env /\ \E pc : Goto(e, pc)
      BY <1>7 DEF CreateBegin, NoNetwork, Transfer, Unclaim, UndoContainer, UndoStorage
    <2> QED BY <1>3, <1>4, <2>1
  <1>8. CASE Insert(e)
    <2>1. CASE UNCHANGED env /\ creator' = [creator EXCEPT ![e] = Idle]
      BY <1>3, <1>6, <2>1
    <2>2. CASE env' = [env EXCEPT ![e] = [Absent EXCEPT !.status = "creating", !.vol = e]] /\ Goto(e, "acquire")
      <3>1. env'[e].cid = Nothing /\ env'[e].vol = e
        BY <1>0, <2>2 DEF Absent
      <3> QED BY <1>3, <1>4, <2>2, <3>1
    <2> QED BY <1>8, <2>1, <2>2 DEF Insert
  <1>9. CASE Acquire(e)
    <2>1. CASE UNCHANGED env /\ Goto(e, "volume")
      BY <1>3, <1>4, <2>1
    <2>2. ASSUME NEW p \in Entries, pool[p] = "ready", env' = [env EXCEPT ![e].cid = p, ![e].vol = p],
                 pool' = [pool EXCEPT ![p] = "claimed"], UNCHANGED <<fill, cont>>,
                 creator' = [creator EXCEPT ![e] = [pc |-> "transfer", cid |-> p, vol |-> p]]
          PROVE  Takes(e, p)
      <3>1. env'[e].cid = p /\ env'[e].vol = p /\ creator'[e].cid = p /\ creator'[e].vol = p
        BY <1>0, <2>2 DEF EnvType
      <3>2. pool'[p] = "claimed"
        BY <2>2 DEF Shape, Typed
      <3>3. Fresh(p) /\ ~Fresh(p)'
        BY <2>2, <3>2 DEF Fresh, PoolFits
      <3>4. Holds(e)' \subseteq Holds(e) \cup {p} /\ Names(e)' \subseteq Names(e) \cup {p}
        BY <1>1, <3>1 DEF Holds, Names
      <3> QED BY <3>3, <3>4 DEF Takes
    <2>3. Entries \subseteq Containers
      BY DEF Containers
    <2> QED BY <1>9, <2>1, <2>2, <2>3 DEF Acquire, Claimable
  <1>10. CASE Reset(e)
    <2>1. env'[e].cid \in {env[e].cid, Nothing} /\ env'[e].vol \in {env[e].vol, e} /\ \E pc : Goto(e, pc)
      <3>1. env' = env \/ (HasRow(e) /\ env' = [env EXCEPT ![e].cid = Nothing, ![e].vol = e])
        BY <1>10 DEF Reset
      <3>2. \E pc : Goto(e, pc)
        BY <1>10 DEF Reset
      <3> QED BY <1>0, <3>1, <3>2 DEF EnvType
    <2> QED BY <1>3, <1>4, <2>1
  <1>11. CASE MakeVolume(e)
    <2>1. env' = env /\ creator'[e].cid \in {creator[e].cid, Nothing} /\ creator'[e].vol \in {creator[e].vol, e}
      BY <1>0, <1>4, <1>11 DEF MakeVolume
    <2> QED BY <1>3, <2>1
  <1>12. CASE RunCold(e)
    <2>1. ASSUME NEW c \in Unused, Run(c, e, e), creator' = [creator EXCEPT ![e].pc = "commit", ![e].cid = c], UNCHANGED env
          PROVE  Takes(e, c) /\ c \in Containers
      <3>1. c \in Containers /\ cont[c].state = "none" /\ c \notin Entries
        BY EnvironmentsAssumption DEF Unused, Containers
      <3>2. creator'[e].cid = c /\ creator'[e].vol = creator[e].vol
        BY <1>0, <2>1 DEF CreatorType
      <3>3. cont'[c].state = "running"
        BY <2>1, <3>1, RunAges DEF Shape
      <3>4. fill' = fill
        BY <1>12 DEF RunCold
      <3>5. Fresh(c) /\ ~Fresh(c)'
        <4>1. fill.pc = "insert" => fill.entry \in Entries
          BY DEF Shape, Fits, OthersFit
        <4> QED BY <3>1, <3>3, <3>4, <4>1 DEF Fresh
      <3>6. Holds(e)' \subseteq Holds(e) \cup {c} /\ Names(e)' \subseteq Names(e) \cup {c}
        BY <1>1, <2>1, <3>2 DEF Holds, Names
      <3> QED BY <3>1, <3>5, <3>6 DEF Takes
    <2>2. CASE env' = WithStatus(e, "failed") /\ Goto(e, "unvolume")
      BY <1>3, <1>4, <1>5, <2>2
    <2> QED BY <1>12, <2>1, <2>2 DEF RunCold
  <1>13. CASE RunFailed(e) \/ Fail(e)
    <2>1. (env' = env \/ env' = WithStatus(e, "failed")) /\ creator' = [creator EXCEPT ![e] = Idle]
      BY <1>13 DEF RunFailed, Fail
    <2> QED BY <1>3, <1>5, <1>6, <2>1
  <1>14. CASE Commit(e)
    <2>1. CASE UNCHANGED env /\ \E pc : Goto(e, pc)
      BY <1>3, <1>4, <2>1
    <2>2. CASE env' = Created(e) /\ creator' = [creator EXCEPT ![e] = Idle]
      <3>1. env' = [env EXCEPT ![e] = [env[e] EXCEPT !.status = "running", !.cid = creator[e].cid,
                                                     !.lease = "live", !.used = TRUE]]
        BY <2>2, CommittedRow DEF Shape
      <3>2. env'[e].cid = creator[e].cid /\ env'[e].vol = env[e].vol
        BY <1>0, <3>1 DEF EnvType
      <3> QED BY <1>3, <1>6, <2>2, <3>2
    <2> QED BY <1>14, <2>1, <2>2 DEF Commit
  <1>15. CASE DropRow(e)
    <2>1. env'[e] = env[e] \/ (env'[e].cid = Nothing /\ env'[e].vol = Nothing)
      BY <1>0, <1>15 DEF DropRow, Absent
    <2>2. Goto(e, "fail")
      BY <1>15 DEF DropRow
    <2> QED BY <1>3, <1>4, <2>1, <2>2
  <1> QED BY <1>7, <1>8, <1>9, <1>10, <1>11, <1>12, <1>13, <1>14, <1>15 DEF Create

\* A request takes what the row names, and a Start that makes a container takes that.
LEMMA RequestHolds ==
  ASSUME Shape, Request, NEW e \in Envs
  PROVE  \/ Keeps(e)
         \/ StartContainer /\ user.env = e /\ user.cid \in Containers /\ \E c \in Containers : Takes(e, c)
  <1>0. /\ env \in [Envs -> EnvType] /\ UserFits /\ user \in UserType /\ env[e] \in EnvType
    BY DEF Shape, Fits, Typed
  <1>1. creator' = creator /\ rec'.env = rec.env /\ rec'.cid = rec.cid
    <2>1. creator' = creator /\ (rec' = rec \/ StartHold)
      BY DEF Request, UserBegin, ExtendLease, LeaseExpires, User, StartHold, Hold, StartContainer, StartCommit,
         StartUndo, StopContainer, StopWrite, DeleteContainer, DeleteStorage, DeleteRow
    <2> QED BY <2>1, HistoryOnly
  <1>2. env'[e].cid \in {env[e].cid, Nothing} /\ env'[e].vol \in {env[e].vol, Nothing} /\ user' \in {user, UserIdle}
          => Keeps(e)
    BY <1>1 DEF Keeps, Holds, Names, UserIdle
  <1>3. \A pc : env'[e].cid \in {env[e].cid, Nothing} /\ env'[e].vol \in {env[e].vol, Nothing} /\ UserGoto(pc)
          => Keeps(e)
    BY <1>0, <1>1 DEF Keeps, Holds, Names, UserGoto, UserType
  <1>4. ASSUME NEW d \in Envs, UserBegin(d)
        PROVE  Keeps(e)
    <2>1. env' = env /\ user'.env = d /\ user'.cid = env[d].cid /\ user'.vol = env[d].vol
      BY <1>4 DEF UserBegin
    <2> QED BY <1>1, <2>1 DEF Keeps, Holds, Names
  <1>5. ASSUME NEW d \in Envs, ExtendLease(d) \/ LeaseExpires(d)
        PROVE  Keeps(e)
    <2>1. env'[e].cid = env[e].cid /\ env'[e].vol = env[e].vol /\ user' = user
      BY <1>0, <1>5 DEF ExtendLease, LeaseExpires, EnvType
    <2> QED BY <1>2, <2>1
  <1>6. CASE StartHold
    <2>1. env'[e].cid = env[e].cid /\ env'[e].vol = env[e].vol /\ UserGoto("start")
      BY <1>0, <1>6 DEF StartHold, Hold, EnvType
    <2> QED BY <1>3, <2>1
  <1>7. CASE StartContainer
    <2>1. CASE user' = UserIdle \/ UserGoto("commit")
      BY <1>2, <1>3, <1>7, <2>1 DEF StartContainer
    <2>2. ASSUME user.cid # Nothing, NEW n \in Unused, Run(n, user.env, user.vol),
                 user' = [user EXCEPT !.pc = "commit", !.cid = n, !.made = TRUE]
          PROVE  Keeps(e) \/ (user.env = e /\ user.cid \in Containers /\ \E c \in Containers : Takes(e, c))
      <3>1. n \in Containers /\ cont[n].state = "none" /\ n \notin Entries
        BY EnvironmentsAssumption DEF Unused, Containers
      <3>2. user'.env = user.env /\ user'.cid = n /\ user'.vol = user.vol /\ env' = env /\ fill' = fill
        BY <1>0, <1>7, <2>2 DEF UserType, StartContainer
      <3>3. cont'[n].state = "running"
        BY <2>2, <3>1, RunAges DEF Shape
      <3>4. CASE user.env # e
        BY <1>1, <3>2, <3>4 DEF Keeps, Holds, Names
      <3>5. CASE user.env = e
        <4>1. Fresh(n) /\ ~Fresh(n)'
          <5>1. fill.pc = "insert" => fill.entry \in Entries
            BY DEF Shape, Fits, OthersFit
          <5> QED BY <3>1, <3>2, <3>3, <5>1 DEF Fresh
        <4>2. Holds(e)' \subseteq Holds(e) \cup {n} /\ Names(e)' \subseteq Names(e) \cup {n}
          BY <1>1, <3>2, <3>5 DEF Holds, Names
        <4>3. user.cid \in Containers
          BY <1>0, <2>2 DEF UserType
        <4> QED BY <3>1, <3>5, <4>1, <4>2, <4>3 DEF Takes
      <3> QED BY <3>4, <3>5
    <2> QED BY <1>7, <2>1, <2>2 DEF StartContainer
  <1>8. CASE StartCommit
    <2>1. CASE UNCHANGED env
      BY <1>2, <1>3, <1>8, <2>1 DEF StartCommit
    <2>2. CASE env' = Committed(user.env, user.cid) /\ user' = UserIdle
      <3>1. PICK d \in Envs : d = user.env
        BY <1>0, <1>8 DEF StartCommit, UserFits
      <3>2. env' = [env EXCEPT ![d] = [env[d] EXCEPT !.status = "running", !.cid = user.cid,
                                                     !.lease = "live"]]
        BY <2>2, <3>1, CommittedRow DEF Shape
      <3>3. env'[e].vol = env[e].vol /\ env'[e].cid \in {env[e].cid} \cup (IF user.env = e THEN {user.cid} ELSE {})
        BY <1>0, <3>1, <3>2 DEF EnvType
      <3> QED BY <1>1, <2>2, <3>3 DEF Keeps, Holds, Names, UserIdle
    <2> QED BY <1>8, <2>1, <2>2 DEF StartCommit
  <1>9. CASE StartUndo \/ StopContainer \/ DeleteContainer \/ DeleteStorage
    <2>1. env' = env /\ (user' = UserIdle \/ \E pc : UserGoto(pc))
      BY <1>9 DEF StartUndo, StopContainer, DeleteContainer, DeleteStorage
    <2> QED BY <1>2, <1>3, <2>1
  <1>10. CASE StopWrite \/ DeleteRow
    <2>1. env'[e].cid \in {env[e].cid, Nothing} /\ env'[e].vol \in {env[e].vol, Nothing}
      <3>1. StopWrite => env'[e].cid = env[e].cid /\ env'[e].vol = env[e].vol
        BY <1>0 DEF StopWrite, WithStatus, EnvType
      <3>2. DeleteRow => env'[e] = env[e] \/ (env'[e].cid = Nothing /\ env'[e].vol = Nothing)
        BY <1>0 DEF DeleteRow, Absent
      <3> QED BY <1>10, <3>1, <3>2
    <2>2. user' = UserIdle
      BY <1>10 DEF StopWrite, DeleteRow
    <2> QED BY <1>2, <2>1, <2>2
  <1> QED BY <1>4, <1>5, <1>6, <1>7, <1>8, <1>9, <1>10 DEF Request, User

\* Nobody else takes anything.
LEMMA ElsewhereHolds ==
  ASSUME Shape, Elsewhere, NEW e \in Envs
  PROVE  Keeps(e)
  <1>0. /\ rec \in RecType
        /\ env'[e].cid = env[e].cid /\ env'[e].vol = env[e].vol
        /\ creator'[e] = creator[e] \/ creator'[e] = Idle
    BY ElsewhereKeepsRows DEF Shape, Typed
  <1>1. CASE Reconcile
    <2>1. UNCHANGED <<user, creator>>
      BY <1>1 DEF Reconcile, RecRead, RecFailStale, RecWatch, RecMark, RecInspect, RecRecheck, RecClaim, RecStop,
                  UnchangedButRec
    <2>2. ASSUME NEW d \in Envs, RecRead(d)
          PROVE  Keeps(e)
      <3>1. env' = env /\ rec'.env = d /\ rec'.cid = env[d].cid
        BY <2>2 DEF RecRead
      <3> QED BY <1>0, <2>1, <3>1 DEF Keeps, Holds, Names
    <2>3. \/ \E d \in Envs : RecRead(d)
          \/ rec' = rec \/ rec' = RecIdle
          \/ \E pc : rec' = [rec EXCEPT !.pc = pc]
      BY <1>1 DEF Reconcile, RecFailStale, RecWatch, RecMark, RecInspect, RecRecheck, RecClaim, RecStop
    <2>4. rec'.env = rec.env /\ rec'.cid = rec.cid => Keeps(e)
      BY <1>0, <2>1 DEF Keeps, Holds, Names
    <2>5. rec' = RecIdle => Keeps(e)
      BY <1>0, <2>1 DEF Keeps, Holds, Names, RecIdle
    <2>6. \A pc : rec' = [rec EXCEPT !.pc = pc] => rec'.env = rec.env /\ rec'.cid = rec.cid
      BY <1>0 DEF RecType
    <2> QED BY <2>2, <2>3, <2>4, <2>5, <2>6
  <1>2. CASE Crash
    BY <1>0, <1>2 DEF Crash, Keeps, Holds, Names, Idle, UserIdle, RecIdle
  <1>3. CASE Elsewhere /\ ~Reconcile /\ ~Crash
    <2>1. UNCHANGED <<user, rec, creator>>
      BY <1>3 DEF Elsewhere, Refill, PruneRead, PruneInspect, Prune, PruneVolume, FillStart, FillRun, FillInsert,
         Collect, GcContainer, GcVolume, GcRemove, Exit, DockerPrune, Suspend, Reactivate, Sweep, SweepList,
         SweepStop, SweepWrite, SweepNext, UnchangedButSweep
    <2> QED BY <1>0, <2>1 DEF Keeps, Holds, Names
  <1> QED BY <1>1, <1>2, <1>3

\* A create waits for a container only if it has, or will have, no row that names one.
LEMMA AcquireBegins ==
  ASSUME Shape, Next, NEW e \in Envs, At(e, "acquire")'
  PROVE  At(e, "acquire") \/ env[e].status = "absent"
  <1>0. creator \in [Envs -> CreatorType] /\ CreatorFits(e)
    BY DEF Shape, Fits, Typed
  <1>1. ASSUME NEW d \in Envs, CreateBegin(d) \/ Create(d)
        PROVE  At(e, "acquire") \/ env[e].status = "absent"
    <2>1. CASE d # e
      BY <1>1, <2>1, CreateElsewhere DEF At
    <2>2. CASE d = e /\ ~Insert(e)
      <3>1. \A pc : Goto(e, pc) => creator'[e].pc = pc
        BY <1>0 DEF Goto, CreatorType
      <3>2. CASE Acquire(e) \/ MakeVolume(e)
        <4>1. creator'[e] \in {[pc |-> "transfer", cid |-> c, vol |-> c] : c \in Entries}
                              \cup {[pc |-> "run", cid |-> Nothing, vol |-> e]}
              \/ \E pc \in {"volume", "fail"} : Goto(e, pc)
          BY <1>0, <3>2 DEF Acquire, MakeVolume
        <4> QED BY <3>1, <4>1 DEF At
      <3>3. CASE \E c : creator' = [creator EXCEPT ![e].pc = "commit", ![e].cid = c]
        BY <1>0, <3>3 DEF At, CreatorType
      <3>4. CASE creator' = [creator EXCEPT ![e] = Idle]
        BY <1>0, <3>4 DEF At, Idle
      <3>5. CASE \E pc : Goto(e, pc) /\ pc # "acquire"
        BY <3>1, <3>5 DEF At
      <3> QED BY <1>1, <2>2, <3>2, <3>3, <3>4, <3>5 DEF CreateBegin, Create, NoNetwork, Transfer, Unclaim, Reset,
                 RunCold, RunFailed, Commit, UndoContainer, UndoStorage, DropRow, Fail
    <2>3. CASE Insert(e)
      BY <1>0, <2>3 DEF Insert, CreatorFits, Absent
    <2> QED BY <2>1, <2>2, <2>3
  <1>2. CASE Request
    BY <1>2, RequestKeepsRows DEF At
  <1>3. CASE Elsewhere
    BY <1>3, ElsewhereKeepsRows DEF At, Idle
  <1> QED BY <1>1, <1>2, <1>3, NextSplits

\* One environment at most takes something, and that one has a row and is not about to claim.
LEMMA OneTakes ==
  ASSUME Shape, OwnersInv, Next
  PROVE  \/ \A e \in Envs : Keeps(e)
         \/ \E d \in Envs : /\ \A e \in Envs \ {d} : Keeps(e)
                            /\ env[d].status # "absent" /\ ~At(d, "acquire")'
                            /\ \E c \in Containers : Takes(d, c)
  <1>0. /\ creator \in [Envs -> CreatorType] /\ UserFits /\ Nothing \notin Containers
        /\ \A e \in Envs : CreatorFits(e) /\ e \notin Containers
    BY EnvironmentsAssumption DEF Shape, Fits, Typed, Containers
  <1>1. ASSUME NEW d \in Envs, CreateBegin(d) \/ Create(d), ~Keeps(d)
        PROVE  /\ \A e \in Envs \ {d} : Keeps(e)
               /\ env[d].status # "absent" /\ ~At(d, "acquire")'
               /\ \E c \in Containers : Takes(d, c)
    <2>1. /\ \A e \in Envs \ {d} : Keeps(e)
          /\ Acquire(d) \/ RunCold(d)
          /\ \E c \in Containers : Takes(d, c)
      BY <1>1, CreateHolds DEF OwnersInv
    <2>2. At(d, "acquire") \/ At(d, "run")
      BY <2>1 DEF Acquire, RunCold
    <2>3. env[d].status # "absent"
      BY <1>0, <2>2 DEF CreatorFits, At
    <2>4. ~At(d, "acquire")'
      <3>1. \A pc : Goto(d, pc) => creator'[d].pc = pc
        BY <1>0 DEF Goto, CreatorType
      <3>2. \A c : creator' = [creator EXCEPT ![d].pc = "commit", ![d].cid = c] => creator'[d].pc = "commit"
        BY <1>0 DEF CreatorType
      <3>3. CASE Acquire(d)
        <4>1. creator'[d] \in {[pc |-> "transfer", cid |-> c, vol |-> c] : c \in Entries} \/ Goto(d, "volume")
          BY <1>0, <3>3 DEF Acquire
        <4> QED BY <3>1, <4>1 DEF At
      <3>4. CASE RunCold(d)
        BY <3>1, <3>2, <3>4 DEF RunCold, At
      <3> QED BY <2>1, <3>3, <3>4
    <2> QED BY <2>1, <2>3, <2>4
  <1>2. ASSUME NEW d \in Envs, CreateBegin(d) \/ Create(d), Keeps(d)
        PROVE  \A e \in Envs : Keeps(e)
    BY <1>2, CreateHolds DEF OwnersInv
  <1>3. ASSUME Request, NEW d \in Envs, ~Keeps(d)
        PROVE  /\ \A e \in Envs \ {d} : Keeps(e)
               /\ env[d].status # "absent" /\ ~At(d, "acquire")'
               /\ \E c \in Containers : Takes(d, c)
    <2>1. StartContainer /\ user.env = d /\ user.cid \in Containers /\ \E c \in Containers : Takes(d, c)
      BY <1>3, RequestHolds
    <2>2. \A e \in Envs \ {d} : Keeps(e)
      BY <1>3, <2>1, RequestHolds
    <2>3. env[d].status # "absent"
      BY <1>0, <2>1 DEF UserFits, StartContainer
    <2>4. user.cid \in Holds(d)
      BY <2>1 DEF Holds
    <2>5. ~At(d, "acquire")
      BY <1>0, <2>1, <2>4 DEF OwnersInv, StartsEmpty
    <2>6. creator' = creator
      BY <1>3, RequestKeepsRows
    <2> QED BY <2>1, <2>2, <2>3, <2>5, <2>6 DEF At
  <1>4. CASE Elsewhere
    BY <1>4, ElsewhereHolds
  <1> QED BY <1>1, <1>2, <1>3, <1>4, NextSplits

\* Ownership is kept by every step.
LEMMA OwnersStep ==
  ASSUME Shape, OwnersInv, [Next]_vars
  PROVE  OwnersInv'
  <1>0. /\ \A e \in Envs : e \notin Containers /\ e # Nothing /\ CreatorFits(e)' /\ CreatorFits(e)
        /\ Nothing \notin Containers
    BY ShapeStep, EnvironmentsAssumption DEF Shape, Fits, Containers
  <1>1. CASE UNCHANGED vars
    <2>1. UNCHANGED <<env, pool, cont, creator, user, rec, fill>>
      BY <1>1 DEF vars
    <2>2. (\A e \in Envs : Holds(e)' = Holds(e)) /\ (\A c \in Containers : Fresh(c)' <=> Fresh(c)) /\ PoolFits'
      BY <2>1 DEF Holds, Fresh, OwnersInv, PoolFits
    <2> QED BY <2>1, <2>2 DEF OwnersInv, Apart, StartsEmpty, At
  <1>2. CASE Next
    <2>1. PoolFits'
      BY <1>2, PoolFitsStep DEF OwnersInv
    <2>2. \A c \in Containers : Fresh(c)' => Fresh(c)
      BY <1>2, FreshShrinks DEF OwnersInv
    <2>3. Apart'
      <3>1. CASE \A e \in Envs : Keeps(e)
        BY <1>0, <2>2, <3>1 DEF OwnersInv, Apart, Keeps
      <3>2. ASSUME NEW d \in Envs, \A e \in Envs \ {d} : Keeps(e), NEW c \in Containers, Takes(d, c)
            PROVE  Apart'
        <4>1. \A e \in Envs : c \notin Holds(e)
          BY <3>2 DEF OwnersInv, Apart, Takes
        <4>2. \A e, f \in Envs : e # f => Holds(e)' \cap Holds(f)' \subseteq {Nothing}
          <5> SUFFICES ASSUME NEW e \in Envs, NEW f \in Envs, e # f, f # d, NEW x, x \in Holds(e)', x \in Holds(f)'
                       PROVE  x = Nothing
            BY DEF Apart
          <5>1. x \in Holds(f) \cup {f, Nothing}
            BY <3>2 DEF Keeps
          <5>2. x \in Holds(e) \cup {e, Nothing} \/ (e = d /\ x \in Holds(e) \cup {c})
            BY <3>2 DEF Keeps, Takes
          <5>3. f \notin Holds(e) /\ e \notin Holds(f)
            BY <1>0 DEF OwnersInv, Apart
          <5>4. Holds(e) \cap Holds(f) \subseteq {Nothing}
            BY DEF OwnersInv, Apart
          <5> QED BY <1>0, <4>1, <5>1, <5>2, <5>3, <5>4
        <4>3. \A e \in Envs : Holds(e)' \subseteq Containers \cup {e, Nothing}
          BY <3>2 DEF OwnersInv, Apart, Keeps, Takes
        <4>4. \A e \in Envs, b \in Containers : Fresh(b)' => b \notin Holds(e)'
          BY <1>0, <2>2, <3>2 DEF OwnersInv, Apart, Keeps, Takes
        <4> QED BY <4>2, <4>3, <4>4 DEF Apart
      <3> QED BY <1>2, <3>1, <3>2, OneTakes
    <2>4. StartsEmpty'
      <3> SUFFICES ASSUME NEW e \in Envs, env'[e].status = "absent" \/ At(e, "acquire")'
                   PROVE  Holds(e)' \subseteq {e, Nothing}
        BY DEF StartsEmpty
      <3>1. env[e].status = "absent" \/ At(e, "acquire")
        BY <1>2, AcquireBegins, CreatorsFit
      <3>2. Holds(e) \subseteq {e, Nothing}
        BY <3>1 DEF OwnersInv, StartsEmpty
      <3>3. Keeps(e)
        BY <1>2, OneTakes, CreatorsFit
      <3> QED BY <3>2, <3>3 DEF Keeps
    <2> QED BY <2>1, <2>3, <2>4 DEF OwnersInv
  <1> QED BY <1>1, <1>2

\* At first nothing is owned.
LEMMA OwnersInit == Init => OwnersInv
  <1> SUFFICES ASSUME Init PROVE OwnersInv
    OBVIOUS
  <1>1. \A e \in Envs : Holds(e) = {Nothing}
    BY DEF Init, Holds, Absent, Idle, UserIdle, RecIdle
  <1>2. Nothing \notin Containers
    BY EnvironmentsAssumption DEF Containers
  <1>3. PoolFits
    BY EnvironmentsAssumption DEF Init, PoolFits, FillIdle, Containers
  <1> QED BY <1>1, <1>2, <1>3 DEF OwnersInv, Apart, StartsEmpty

\* pool.go, acquire: a warm container is claimed once. No container or workspace has two owners, and
\* none is still offered by the pool, whatever claims, fallbacks, crashes and deletions happen at once.
THEOREM OneOwnerHolds == Spec => []OneOwner
  <1>1. Shape /\ OwnersInv => OneOwner
    <2> SUFFICES ASSUME Shape, OwnersInv PROVE OneOwner
      OBVIOUS
    <2>1. \A e \in Envs : env[e].cid \in Holds(e) /\ env[e].vol \in Holds(e)
      BY DEF Holds
    <2>2. \A p \in Entries : p \in Containers /\ (pool[p] = "ready" => Fresh(p))
      BY DEF Containers, Fresh
    <2> QED BY <2>1, <2>2 DEF OneOwner, OwnersInv, Apart
  <1>2. Shape /\ OwnersInv /\ [Next]_vars => OwnersInv'
    BY OwnersStep
  <1> QED BY <1>1, <1>2, OwnersInit, ShapeInit, ShapeStep, PTL DEF Spec

-----------------------------------------------------------------------------
(* A claimed container keeps its row. *)

Claimed(c) == c \in Entries /\ pool[c] = "claimed"

\* The same after a step, for a container that the state before it names.
StillClaimed(c) == c \in Entries /\ pool'[c] = "claimed"

\* The row of a claimed container and the goroutine that created it name the same one, and the
\* goroutine lets the container go only when the pool does not claim it any more.
CreatorKnows(e) ==
  /\ Claimed(env[e].cid) /\ creator[e] # Idle => creator[e].cid = env[e].cid
  /\ env[e].status = "creating" /\ creator[e].pc \in {"transfer", "unclaim", "reset", "commit"} \cup Undoing =>
       /\ env[e].vol = creator[e].vol
       /\ creator[e].cid \in Entries => env[e].cid = creator[e].cid
  /\ creator[e].pc \in {"volume", "run", "droprow"} => ~Claimed(creator[e].cid)
  /\ creator[e].pc \in {"acquire", "volume", "run"} /\ HasRow(e) => env[e].vol = e

\* So do the row and the goroutine that holds the mutex, unless that one has read the row before
\* the claim, or has replaced a container that was gone.
UserKnows ==
  /\ user.pc # "idle" /\ Claimed(env[user.env].cid) =>
       \/ user.cid \in {Nothing, env[user.env].cid}
       \/ user.made /\ ~Exists(env[user.env].cid)
  /\ user.pc # "idle" /\ Claimed(user.cid) => env[user.env].cid = user.cid
  /\ user.pc = "erase" => ~Claimed(user.cid)

ClaimsInv == (\A e \in Envs : CreatorKnows(e)) /\ UserKnows

\* What an environment holds is claimed before its create claims it, or never.
LEMMA StaysClaimed ==
  ASSUME Shape, OwnersInv, Next, NEW e \in Envs, NEW c, c \in Holds(e), StillClaimed(c)
  PROVE  Claimed(c)
  <1>1. c \in Containers /\ ~Fresh(c)
    BY DEF StillClaimed, OwnersInv, Apart, Containers
  <1>2. fill.pc = "insert" /\ fill.entry = c => Fresh(c)
    BY DEF Fresh
  <1>3. pool[c] # "ready" /\ pool'[c] = "claimed" /\ c \in Entries
    BY <1>1 DEF StillClaimed, Fresh
  <1> QED BY <1>3, NextPool DEF Claimed

\* A claimed container that was there is the same after a step: it is not made again.
LEMMA ClaimedAges ==
  ASSUME Shape, OwnersInv, Next, NEW c, Claimed(c)
  PROVE  Ages(c)
  <1>1. c \in Containers /\ c \notin Unused
    BY EnvironmentsAssumption DEF Claimed, Containers, Unused
  <1>2. ~(fill.pc = "run" /\ fill.entry = c)
    BY DEF Claimed, OwnersInv, PoolFits
  <1> QED BY <1>1, <1>2, NextAges DEF Makes

\* What a create does with what its row names.
LEMMA CreateKnows ==
  ASSUME Shape, OwnersInv, ClaimsInv, Next, NEW e \in Envs, CreateBegin(e) \/ Create(e)
  PROVE  /\ CreatorKnows(e)'
         /\ Claimed(env[e].cid) /\ StillClaimed(env[e].cid) => env'[e].cid = env[e].cid /\ (HasRow(e) => HasRow(e)')
         /\ StillClaimed(env'[e].cid) => env'[e].cid = env[e].cid \/ Holds(e) \subseteq {e, Nothing}
  <1>0. /\ env \in [Envs -> EnvType] /\ creator \in [Envs -> CreatorType] /\ CreatorFits(e) /\ CreatorKnows(e)
        /\ env[e] \in EnvType /\ creator[e] \in CreatorType
        /\ e \notin Entries /\ Nothing \notin Entries
        /\ Claimed(env[e].cid)' <=> StillClaimed(env'[e].cid)
        /\ Claimed(creator[e].cid)' <=> StillClaimed(creator'[e].cid)
    BY EnvironmentsAssumption DEF Shape, Fits, Typed, ClaimsInv, Claimed, StillClaimed
  <1>1. \A c : c \in Holds(e) /\ StillClaimed(c) => Claimed(c)
    BY StaysClaimed
  <1>2. env[e].cid \in Holds(e) /\ creator[e].cid \in Holds(e)
    BY DEF Holds
  <1>3. \A pc : Goto(e, pc) => creator'[e].pc = pc /\ creator'[e].cid = creator[e].cid /\ creator'[e].vol = creator[e].vol
    BY <1>0 DEF Goto, CreatorType
  <1>4. At(e, "acquire") \/ env[e].status = "absent" => Holds(e) \subseteq {e, Nothing}
    BY DEF OwnersInv, StartsEmpty
  <1>5. At(e, "acquire") \/ env[e].status = "absent" => ~Claimed(env[e].cid)
    BY <1>0, <1>2, <1>4 DEF Claimed, StillClaimed
  <1>6. ASSUME NEW status \in {"failed", "stopped"}, env' = WithStatus(e, status)
        PROVE  /\ env'[e].cid = env[e].cid /\ env'[e].vol = env[e].vol
               /\ HasRow(e)' <=> HasRow(e)
               /\ env'[e].status # "creating" 
    BY <1>0, <1>6 DEF WithStatus, HasRow, EnvType
  <1>7. creator' = [creator EXCEPT ![e] = Idle] => creator'[e] = Idle /\ creator'[e].pc = "idle"
    BY <1>0 DEF Idle
  <1>8. CASE CreateBegin(e)
    <2>1. env' = env /\ creator'[e].pc = "insert" /\ env[e].status = "absent"
      BY <1>3, <1>8 DEF CreateBegin, Absent
    <2> QED BY <1>0, <1>1, <1>2, <1>5, <2>1 DEF CreatorKnows, HasRow, Undoing
  <1>9. CASE Insert(e)
    <2>1. env[e].status = "absent"
      BY <1>0, <1>9 DEF Insert, CreatorFits, Absent
    <2>2. \/ env' = env /\ creator'[e] = Idle /\ creator'[e].pc = "idle"
          \/ env'[e].cid = Nothing /\ env'[e].vol = e /\ creator'[e].pc = "acquire"
      BY <1>0, <1>3, <1>7, <1>9 DEF Insert, Absent
    <2>3. ~StillClaimed(Nothing)
      BY <1>0 DEF Claimed, StillClaimed
    <2> QED BY <1>0, <1>1, <1>2, <1>4, <1>5, <2>1, <2>2, <2>3 DEF CreatorKnows, HasRow, Undoing
  <1>10. CASE NoNetwork(e)
    <2>1. env' = env /\ creator'[e].pc = "fail" /\ At(e, "acquire")
      BY <1>3, <1>10 DEF NoNetwork
    <2> QED BY <1>0, <1>1, <1>2, <1>5, <2>1 DEF CreatorKnows, HasRow, Undoing
  <1>11. CASE Acquire(e)
    <2>1. CASE env' = env /\ Goto(e, "volume")
      <3>1. ~StillClaimed(creator'[e].cid)
        BY <1>0, <1>1, <1>2, <1>3, <1>11, <2>1 DEF Acquire, CreatorFits, Claimed, StillClaimed
      <3> QED BY <1>0, <1>1, <1>2, <1>3, <1>5, <1>11, <2>1, <3>1 DEF Acquire, CreatorKnows, HasRow, Undoing, At
    <2>2. ASSUME NEW p \in Entries, env[e].status = "creating", env' = [env EXCEPT ![e].cid = p, ![e].vol = p],
                 creator' = [creator EXCEPT ![e] = [pc |-> "transfer", cid |-> p, vol |-> p]]
          PROVE  CreatorKnows(e)'
      <3>1. env'[e].cid = p /\ env'[e].vol = p
        BY <1>0, <2>2 DEF EnvType
      <3>2. creator'[e].cid = p /\ creator'[e].vol = p /\ creator'[e].pc = "transfer"
        BY <1>0, <2>2
      <3> QED BY <3>1, <3>2 DEF CreatorKnows
    <2>3. Holds(e) \subseteq {e, Nothing} /\ ~Claimed(env[e].cid)
      BY <1>4, <1>5, <1>11 DEF Acquire
    <2> QED BY <1>11, <2>1, <2>2, <2>3 DEF Acquire
  <1>12. CASE Transfer(e) \/ Unclaim(e) \/ UndoContainer(e)
    <2>1. /\ env' = env /\ creator[e] # Idle
          /\ creator[e].pc \in {"transfer", "unclaim"} \cup Undoing
          /\ \E pc : Goto(e, pc) /\ pc \in {"commit", "unclaim", "reset"} \cup Undoing
      BY <1>12 DEF Transfer, Unclaim, UndoContainer, At, Idle, Undoing
    <2>2. /\ creator'[e].cid = creator[e].cid /\ creator'[e].vol = creator[e].vol
          /\ creator'[e].pc \in {"commit", "unclaim", "reset"} \cup Undoing
      BY <1>3, <2>1
    <2> QED BY <1>0, <1>1, <1>2, <2>1, <2>2 DEF CreatorKnows, HasRow, Undoing
  <1>13. CASE Reset(e)
    <2>1. ~StillClaimed(creator[e].cid)
      BY <1>0, <1>13 DEF Reset, CreatorFits, WithoutEntry, Claimed, StillClaimed
    <2>2. /\ creator[e] # Idle
          /\ creator'[e].pc = "volume" \/ (creator'[e].pc = "fail" /\ env' = env)
          /\ creator'[e].cid = creator[e].cid
      BY <1>3, <1>13 DEF Reset, Idle, At
    <2>3. \/ env' = env /\ (creator'[e].pc = "volume" => ~HasRow(e))
          \/ env'[e].cid = Nothing /\ env'[e].vol = e
      BY <1>0, <1>3, <1>13 DEF Reset, EnvType
    <2>4. ~StillClaimed(Nothing) /\ ~(Claimed(env[e].cid) /\ StillClaimed(env[e].cid))
      BY <1>0, <2>1, <2>2 DEF CreatorKnows, Claimed, StillClaimed
    <2> QED BY <1>0, <1>1, <1>2, <2>1, <2>2, <2>3, <2>4 DEF CreatorKnows, HasRow, Undoing
  <1>14. CASE MakeVolume(e)
    <2>1. env' = env /\ creator[e] # Idle /\ creator[e].pc = "volume"
      BY <1>14 DEF MakeVolume, Idle, At
    <2>2. \/ creator'[e].pc = "run" /\ creator'[e].cid = Nothing
          \/ creator'[e].pc = "fail" /\ creator'[e].cid = creator[e].cid
      BY <1>0, <1>3, <1>14 DEF MakeVolume
    <2>3. ~Claimed(env[e].cid) /\ ~StillClaimed(Nothing)
      BY <1>0, <2>1 DEF CreatorKnows, Claimed, StillClaimed
    <2> QED BY <1>0, <1>1, <1>2, <2>1, <2>2, <2>3 DEF CreatorKnows, HasRow, Undoing
  <1>15. CASE RunCold(e)
    <2>1. creator[e] # Idle /\ creator[e].pc = "run" /\ creator[e].vol = e
      BY <1>0, <1>15 DEF RunCold, Idle, At, CreatorFits
    <2>2. ~Claimed(env[e].cid)
      BY <1>0, <2>1 DEF CreatorKnows
    <2>3. ASSUME NEW c \in Unused, env' = env, creator' = [creator EXCEPT ![e].pc = "commit", ![e].cid = c]
          PROVE  CreatorKnows(e)'
      <3>1. creator'[e].pc = "commit" /\ creator'[e].cid = c /\ creator'[e].vol = e /\ c \notin Entries
        BY <1>0, <2>1, <2>3, EnvironmentsAssumption DEF CreatorType, Unused
      <3> QED BY <1>0, <1>1, <1>2, <2>1, <2>2, <2>3, <3>1 DEF CreatorKnows, HasRow
    <2>4. CASE env' = WithStatus(e, "failed") /\ Goto(e, "unvolume")
      BY <1>0, <1>1, <1>2, <1>3, <1>6, <2>1, <2>2, <2>4 DEF CreatorKnows, Undoing
    <2>5. env' = env \/ env' = WithStatus(e, "failed")
      BY <1>15 DEF RunCold
    <2> QED BY <1>2, <1>6, <1>15, <2>2, <2>3, <2>4, <2>5 DEF RunCold, HasRow
  <1>16. CASE RunFailed(e) \/ Fail(e)
    <2>1. creator'[e] = Idle /\ creator'[e].pc = "idle" /\ (env' = env \/ env' = WithStatus(e, "failed"))
      BY <1>7, <1>16 DEF RunFailed, Fail
    <2> QED BY <1>1, <1>2, <1>6, <2>1 DEF CreatorKnows, HasRow, Undoing
  <1>17. CASE Commit(e)
    <2>1. creator[e] # Idle /\ creator[e].pc = "commit"
      BY <1>17 DEF Commit, Idle, At
    <2>2. CASE env' = env /\ \E pc \in {"undo", "undoerror"} : Goto(e, pc)
      <3>1. /\ creator'[e].cid = creator[e].cid /\ creator'[e].vol = creator[e].vol
            /\ creator'[e].pc \in {"undo", "undoerror"}
        BY <1>3, <2>2
      <3> QED BY <1>0, <1>1, <1>2, <2>1, <2>2, <3>1 DEF CreatorKnows, HasRow
    <2>3. CASE /\ env[e].status = "creating" /\ env' = Created(e)
               /\ creator' = [creator EXCEPT ![e] = Idle]
      <3>1. env' = [env EXCEPT ![e] = [env[e] EXCEPT !.status = "running", !.cid = creator[e].cid,
                                                     !.lease = "live", !.used = TRUE]]
        BY <2>3, CommittedRow DEF Shape
      <3>2. env'[e].cid = creator[e].cid /\ env'[e].status = "running"
        BY <1>0, <3>1 DEF EnvType
      <3>3. creator[e].cid \in Entries => env[e].cid = creator[e].cid
        BY <1>0, <2>1, <2>3 DEF CreatorKnows
      <3>4. Claimed(env[e].cid) => env[e].cid = creator[e].cid
        BY <1>0, <2>1 DEF CreatorKnows
      <3>5. StillClaimed(env'[e].cid) => creator[e].cid \in Entries
        BY <3>2 DEF Claimed, StillClaimed
      <3> QED BY <1>0, <1>7, <2>3, <3>2, <3>3, <3>4, <3>5 DEF CreatorKnows, HasRow, Undoing
    <2> QED BY <1>17, <2>2, <2>3 DEF Commit, MayCommit
  <1>18. CASE UndoStorage(e)
    <2>1. ~StillClaimed(creator[e].cid)
      BY <1>0, <1>18 DEF UndoStorage, WithoutEntry, Claimed, StillClaimed
    <2>2. env' = env /\ creator'[e].pc \in {"droprow", "fail"} /\ creator'[e].cid = creator[e].cid /\ creator[e] # Idle
      BY <1>3, <1>18 DEF UndoStorage, At, Idle
    <2> QED BY <1>0, <1>1, <1>2, <2>1, <2>2 DEF CreatorKnows, HasRow, Undoing
  <1>19. CASE DropRow(e)
    <2>1. creator[e] # Idle /\ creator[e].pc = "droprow" /\ creator'[e].pc = "fail" /\ creator'[e].cid = creator[e].cid
      BY <1>3, <1>19 DEF DropRow, At, Idle
    <2>2. env' = env \/ env'[e].cid = Nothing
      BY <1>0, <1>19 DEF DropRow, Absent
    <2>3. ~Claimed(env[e].cid) /\ ~StillClaimed(Nothing)
      BY <1>0, <2>1 DEF CreatorKnows, Claimed, StillClaimed
    <2> QED BY <1>0, <1>1, <1>2, <2>1, <2>2, <2>3 DEF CreatorKnows, HasRow, Undoing
  <1> QED BY <1>8, <1>9, <1>10, <1>11, <1>12, <1>13, <1>14, <1>15, <1>16, <1>17, <1>18, <1>19 DEF Create

\* A request changes what a row names only if it commits a container for it or deletes it.
LEMMA RequestRow ==
  ASSUME Shape, OwnersInv, ClaimsInv, Next, Request, NEW e \in Envs
  PROVE  /\ env'[e].status = "creating" =>
              env[e].status = "creating" /\ env'[e].cid = env[e].cid /\ env'[e].vol = env[e].vol
         /\ StillClaimed(env'[e].cid) => env'[e].cid = env[e].cid
         /\ user'.pc # "idle" => env'[e].cid = env[e].cid
         /\ Claimed(env[e].cid) /\ Exists(env[e].cid) =>
              \/ env'[e].cid = env[e].cid /\ (HasRow(e) => HasRow(e)')
              \/ user.pc = "erase" /\ user.cid = Nothing
  <1>0. /\ env \in [Envs -> EnvType] /\ UserFits /\ UserKnows /\ user \in UserType /\ Nothing \notin Entries
    BY EnvironmentsAssumption DEF Shape, Fits, Typed, ClaimsInv
  <1>1. RowKept(e)
    BY RequestKeepsRows
  <1>2. CASE UNCHANGED env
    BY <1>2 DEF HasRow
  <1>3. ASSUME NEW d \in Envs, ExtendLease(d) \/ LeaseExpires(d)
        PROVE  env'[e].cid = env[e].cid /\ env'[e].vol = env[e].vol /\ env'[e].status = env[e].status
    BY <1>0, <1>3 DEF ExtendLease, LeaseExpires, EnvType
  <1>4. StartHold => env'[e].cid = env[e].cid /\ env'[e].vol = env[e].vol /\ env'[e].status = env[e].status
    BY <1>0 DEF StartHold, Hold, EnvType
  <1>5. CASE StopWrite
    <2>1. env'[e].cid = env[e].cid /\ (HasRow(e) => HasRow(e)') /\ (env'[e] = env[e] \/ env'[e].status = "stopped")
      BY <1>0, <1>5 DEF StopWrite, WithStatus, EnvType, HasRow
    <2> QED BY <2>1
  <1>6. CASE StartCommit
    <2>1. PICK d \in Envs : d = user.env
      BY <1>0, <1>6 DEF StartCommit, UserFits
    <2>2. CASE env' = Committed(user.env, user.cid) /\ user' = UserIdle
      <3>1. env' = [env EXCEPT ![d] = [env[d] EXCEPT !.status = "running", !.cid = user.cid,
                                                     !.lease = "live"]]
        BY <2>1, <2>2, CommittedRow DEF Shape
      <3>2. CASE e # d
        BY <1>0, <3>1, <3>2 DEF HasRow
      <3>3. CASE e = d
        <4>1. env'[e].cid = user.cid /\ env'[e].status = "running"
          BY <1>0, <3>1, <3>3 DEF EnvType
        <4>2. user.pc = "commit" /\ user.cid \in Containers /\ user.cid \in Holds(e)
          BY <1>0, <1>6, <2>1, <3>3 DEF StartCommit, UserFits, Holds
        <4>3. StillClaimed(user.cid) => env[e].cid = user.cid
          BY <1>0, <2>1, <3>3, <4>2, StaysClaimed DEF UserKnows
        <4>4. Claimed(env[e].cid) /\ Exists(env[e].cid) => env[e].cid = user.cid
          BY <1>0, <2>1, <3>3, <4>2, EnvironmentsAssumption DEF UserKnows, Containers
        <4> QED BY <2>2, <4>1, <4>3, <4>4 DEF UserIdle, HasRow
      <3> QED BY <3>2, <3>3
    <2> QED BY <1>2, <1>6, <2>2 DEF StartCommit
  <1>7. CASE DeleteRow
    <2>1. user.pc = "erase" /\ user.env \in Envs /\ ~user.made /\ user'.pc = "idle"
      BY <1>0, <1>7 DEF DeleteRow, UserFits, UserIdle
    <2>2. CASE e # user.env
      BY <1>0, <1>7, <2>2 DEF DeleteRow, HasRow
    <2>3. CASE e = user.env
      <3>1. env'[e].cid = Nothing /\ env'[e].status = "deleted"
        BY <1>0, <1>7, <2>3 DEF DeleteRow, Absent
      <3>2. ~StillClaimed(Nothing)
        BY <1>0 DEF StillClaimed
      <3>3. Claimed(env[e].cid) => user.cid = Nothing
        BY <1>0, <2>1, <2>3 DEF UserKnows
      <3> QED BY <2>1, <3>1, <3>2, <3>3
    <2> QED BY <2>2, <2>3
  <1> QED BY <1>2, <1>3, <1>4, <1>5, <1>6, <1>7 DEF Request, User, UserBegin, StartContainer, StartUndo, StopContainer,
             DeleteContainer, DeleteStorage, HasRow

\* Creates, requests and the others leave what every create knows.
LEMMA CreatorKnowsStep ==
  ASSUME Shape, OwnersInv, ClaimsInv, Next, NEW e \in Envs
  PROVE  CreatorKnows(e)'
  <1>0. /\ env \in [Envs -> EnvType] /\ CreatorKnows(e)
        /\ env[e].cid \in Holds(e) /\ creator[e].cid \in Holds(e)
        /\ Claimed(env[e].cid)' <=> StillClaimed(env'[e].cid)
        /\ Claimed(creator[e].cid)' <=> StillClaimed(creator'[e].cid)
    BY DEF Shape, Typed, ClaimsInv, Holds, Claimed, StillClaimed
  <1>1. \A c : c \in Holds(e) /\ StillClaimed(c) => Claimed(c)
    BY StaysClaimed
  <1>2. ASSUME creator'[e] = creator[e] \/ creator'[e] = Idle,
               RowKept(e), StillClaimed(env'[e].cid) => env'[e].cid = env[e].cid,
               env'[e].status = "creating" =>
                 env[e].status = "creating" /\ env'[e].cid = env[e].cid /\ env'[e].vol = env[e].vol
        PROVE  CreatorKnows(e)'
    <2>1. HasRow(e)' => HasRow(e) /\ env'[e].vol = env[e].vol
      BY <1>2 DEF RowKept, HasRow, Deleted, Absent
    <2>2. CASE creator'[e] = Idle
      BY <2>2 DEF CreatorKnows, Idle, Undoing
    <2>3. CASE creator'[e] = creator[e]
      BY <1>0, <1>1, <1>2, <2>1, <2>3 DEF CreatorKnows
    <2> QED BY <1>2, <2>2, <2>3
  <1>3. ASSUME NEW d \in Envs, CreateBegin(d) \/ Create(d)
        PROVE  CreatorKnows(e)'
    <2>1. CASE d = e
      BY <1>3, <2>1, CreateKnows
    <2>2. CASE d # e
      BY <1>2, <1>3, <2>2, CreateElsewhere DEF RowKept
    <2> QED BY <2>1, <2>2
  <1>4. CASE Request
    BY <1>2, <1>4, RequestRow, RequestKeepsRows
  <1>5. CASE Elsewhere
    <2>1. env'[e].status = "creating" => env[e].status = "creating"
      <3>1. UNCHANGED env \/ \E d \in Envs, status \in {"failed", "stopped"} : env' = WithStatus(d, status)
        BY <1>5 DEF Elsewhere, Reconcile, RecRead, RecFailStale, RecWatch, RecMark, RecInspect, RecRecheck, RecClaim,
           RecStop, UnchangedButRec, Refill, PruneRead, PruneInspect, Prune, PruneVolume, FillStart, FillRun,
           FillInsert, Collect, GcContainer, GcVolume, GcRemove, Exit, DockerPrune, Suspend, Reactivate, Sweep,
           SweepList, SweepStop, SweepWrite, SweepNext, UnchangedButSweep, Crash, Shape, Fits, OthersFit
      <3> QED BY <1>0, <3>1 DEF WithStatus, EnvType
    <2> QED BY <1>2, <1>5, <2>1, ElsewhereKeepsRows DEF RowKept
  <1> QED BY <1>3, <1>4, <1>5, NextSplits

\* A step that is no request leaves the goroutine with the mutex, or ends it.
LEMMA OthersKeepUser ==
  ASSUME Next, ~Request
  PROVE  user' = user \/ user' = UserIdle
  <1>1. ASSUME NEW d \in Envs, CreateBegin(d) \/ Create(d)
        PROVE  user' = user
    BY <1>1 DEF CreateBegin, Create, Insert, NoNetwork, Acquire, Transfer, Unclaim, Reset, MakeVolume, RunCold,
       RunFailed, Commit, UndoContainer, UndoStorage, DropRow, Fail
  <1>2. CASE Elsewhere
    BY <1>2 DEF Elsewhere, Reconcile, RecRead, RecFailStale, RecWatch, RecMark, RecInspect, RecRecheck, RecClaim,
       RecStop, UnchangedButRec, Refill, PruneRead, PruneInspect, Prune, PruneVolume, FillStart, FillRun,
       FillInsert, Collect, GcContainer, GcVolume, GcRemove, Exit, DockerPrune, Suspend, Reactivate, Sweep,
       SweepList, SweepStop, SweepWrite, SweepNext, UnchangedButSweep, Crash
  <1> QED BY <1>1, <1>2, NextSplits

\* What a step that is no request does to the row of any environment.
LEMMA OthersKeepClaims ==
  ASSUME Shape, OwnersInv, ClaimsInv, Next, ~Request, NEW e \in Envs
  PROVE  /\ Claimed(env[e].cid) /\ StillClaimed(env[e].cid) => env'[e].cid = env[e].cid /\ (HasRow(e) => HasRow(e)')
         /\ StillClaimed(env'[e].cid) => env'[e].cid = env[e].cid \/ Holds(e) \subseteq {e, Nothing}
  <1>1. ASSUME NEW d \in Envs, CreateBegin(d) \/ Create(d)
        PROVE  /\ Claimed(env[e].cid) /\ StillClaimed(env[e].cid) =>
                    env'[e].cid = env[e].cid /\ (HasRow(e) => HasRow(e)')
               /\ StillClaimed(env'[e].cid) => env'[e].cid = env[e].cid \/ Holds(e) \subseteq {e, Nothing}
    <2>1. CASE d = e
      BY <1>1, <2>1, CreateKnows
    <2>2. CASE d # e
      BY <1>1, <2>2, CreateElsewhere DEF HasRow
    <2> QED BY <2>1, <2>2
  <1>2. CASE Elsewhere
    BY <1>2, ElsewhereKeepsRows DEF HasRow
  <1> QED BY <1>1, <1>2, NextSplits

\* The goroutine with the mutex knows what it knew.
LEMMA UserKnowsStep ==
  ASSUME Shape, OwnersInv, ClaimsInv, Next
  PROVE  UserKnows'
  <1>0. /\ user \in UserType /\ UserFits /\ UserKnows /\ Nothing \notin Containers /\ Entries \subseteq Containers
        /\ \A e \in Envs : e \notin Containers
    BY EnvironmentsAssumption DEF Shape, Fits, Typed, ClaimsInv, Containers
  <1>1. CASE user' = UserIdle
    BY <1>1 DEF UserKnows, UserIdle
  <1>2. ASSUME NEW d \in Envs, user'.env = d
        PROVE  /\ Claimed(env[user.env].cid)' <=> StillClaimed(env'[d].cid)
               /\ Claimed(user.cid)' <=> StillClaimed(user'.cid)
    BY <1>2 DEF Claimed, StillClaimed
  <1>3. \A c : Claimed(c) => (Exists(c)' => Exists(c))
    BY ClaimedAges DEF Ages
  <1>4. ASSUME NEW e \in Envs, NEW c \in Holds(e), StillClaimed(c)
        PROVE  Claimed(c)
    BY <1>4, StaysClaimed
  <1>5. CASE ~Request /\ user' = user /\ user.pc # "idle"
    <2>1. PICK d \in Envs : d = user.env
      BY <1>0, <1>5 DEF UserFits
    <2>2. user.cid \in Holds(d) /\ env[d].cid \in Holds(d)
      BY <2>1 DEF Holds
    <2>3. Holds(d) \subseteq {d, Nothing} => user.cid = Nothing
      BY <1>0, <2>2 DEF UserType
    <2>4. StillClaimed(user.cid) => env[d].cid = user.cid /\ env'[d].cid = user.cid
      BY <1>0, <1>4, <1>5, <2>1, <2>2, OthersKeepClaims DEF UserKnows
    <2>5. ASSUME StillClaimed(env'[d].cid)
          PROVE  \/ user.cid \in {Nothing, env'[d].cid}
                 \/ user.made /\ ~Exists(env[d].cid)'
      <3>1. CASE Holds(d) \subseteq {d, Nothing}
        BY <2>3, <3>1
      <3>2. CASE env'[d].cid = env[d].cid
        <4>1. Claimed(env[d].cid)
          BY <1>4, <2>2, <2>5, <3>2
        <4>2. Exists(env[d].cid)' => Exists(env[d].cid)
          BY <1>3, <3>2, <4>1 DEF Exists
        <4> QED BY <1>0, <1>5, <2>1, <3>2, <4>1, <4>2 DEF UserKnows
      <3> QED BY <1>5, <2>5, <3>1, <3>2, OthersKeepClaims
    <2>6. user.pc = "erase" => ~StillClaimed(user.cid)
      BY <1>0, <1>4, <2>2 DEF UserKnows
    <2> QED BY <1>2, <1>5, <2>1, <2>4, <2>5, <2>6 DEF UserKnows
  <1>6. \A pc : UserGoto(pc) =>
          user'.pc = pc /\ user'.cid = user.cid /\ user'.env = user.env /\ user'.made = user.made
    BY <1>0 DEF UserGoto, UserType
  <1>7. ASSUME Request, user.pc # "idle", user'.env = user.env, user'.pc # "idle"
        PROVE  UserKnows'
    <2>1. PICK d \in Envs : d = user.env
      BY <1>0, <1>7 DEF UserFits
    <2>2. env'[d].cid = env[d].cid /\ (user.cid \in Holds(d) /\ env[d].cid \in Holds(d))
      BY <1>7, <2>1, RequestRow DEF Holds
    <2>3. /\ StillClaimed(user.cid) => Claimed(user.cid)
          /\ StillClaimed(env[d].cid) => Claimed(env[d].cid) /\ (Exists(env[d].cid)' => Exists(env[d].cid))
      <3>1. StillClaimed(user.cid) => Claimed(user.cid)
        BY <1>4, <2>2
      <3>2. StillClaimed(env[d].cid) => Claimed(env[d].cid)
        BY <1>4, <2>2
      <3>3. Claimed(env[d].cid) => (Exists(env[d].cid)' => Exists(env[d].cid))
        BY <1>3, <2>2 DEF Exists
      <3> QED BY <3>1, <3>2, <3>3
    <2>4. \/ user' = user
          \/ DeleteStorage
          \/ \E pc \in {"start", "commit", "undo", "write", "storage"} : UserGoto(pc)
          \/ /\ user.pc = "start" /\ user.cid # Nothing /\ ~Exists(user.cid)
             /\ \E n \in Unused : user' = [user EXCEPT !.pc = "commit", !.cid = n, !.made = TRUE]
      <3>1. user # UserIdle /\ user' # UserIdle
        BY <1>7 DEF UserIdle
      <3>2. CASE StartContainer
        BY <3>1, <3>2 DEF StartContainer
      <3>3. StartHold \/ StartCommit \/ StopContainer \/ DeleteContainer =>
              user' = UserIdle \/ \E pc \in {"start", "undo", "write", "storage"} : UserGoto(pc)
        BY DEF StartHold, Hold, StartCommit, StopContainer, DeleteContainer
      <3>4. StartUndo \/ StopWrite \/ DeleteRow => user' = UserIdle
        BY DEF StartUndo, StopWrite, DeleteRow
      <3>5. \A e \in Envs : UserBegin(e) \/ ExtendLease(e) \/ LeaseExpires(e) => user = UserIdle \/ user' = user
        BY DEF UserBegin, ExtendLease, LeaseExpires
      <3> QED BY <1>7, <3>1, <3>2, <3>3, <3>4, <3>5 DEF Request, User
    <2>5. CASE user'.cid = user.cid /\ user'.made = user.made
      <3>1. user'.pc = "erase" => ~StillClaimed(user.cid)
        <4>1. CASE user' = user
          <5>1. user.pc = "erase" => ~Claimed(user.cid)
            BY <1>0 DEF UserKnows
          <5> QED BY <2>3, <4>1, <5>1
        <4>2. CASE DeleteStorage
          BY <4>2 DEF DeleteStorage, WithoutEntry, StillClaimed
        <4>3. \A pc \in {"start", "commit", "undo", "write", "storage"} : UserGoto(pc) => user'.pc # "erase"
          BY <1>6
        <4>4. \A n : user' # [user EXCEPT !.pc = "commit", !.cid = n, !.made = TRUE] \/ user'.pc = "commit"
          BY <1>0 DEF UserType
        <4> QED BY <2>4, <4>1, <4>2, <4>4, <4>3
      <3> QED BY <1>0, <1>2, <1>7, <2>1, <2>2, <2>3, <2>5, <3>1 DEF UserKnows
    <2>6. ASSUME user.pc = "start", user.cid # Nothing, ~Exists(user.cid), NEW n \in Unused,
                 user' = [user EXCEPT !.pc = "commit", !.cid = n, !.made = TRUE]
          PROVE  UserKnows'
      <3>1. user'.cid = n /\ user'.made /\ user'.pc = "commit"
        BY <1>0, <2>6 DEF UserType
      <3>2. ~StillClaimed(n)
        BY EnvironmentsAssumption DEF StillClaimed, Unused
      <3>3. Claimed(env[d].cid) => ~Exists(env[d].cid)
        BY <1>0, <2>1, <2>6 DEF UserKnows, UserFits
      <3> QED BY <1>2, <1>7, <2>1, <2>2, <2>3, <3>1, <3>2, <3>3 DEF UserKnows
    <2>7. DeleteStorage => UserGoto("erase")
      BY DEF DeleteStorage
    <2> QED BY <1>6, <2>5, <2>6, <2>4, <2>7
  <1>8. ASSUME NEW e \in Envs, UserBegin(e)
        PROVE  UserKnows'
    <2>1. env' = env /\ user'.env = e /\ user'.cid = env[e].cid /\ user'.pc # "erase"
      BY <1>8 DEF UserBegin
    <2> QED BY <1>2, <2>1 DEF UserKnows
  <1>9. CASE Request
    <2>1. \/ user' = UserIdle \/ (user.pc # "idle" /\ user'.env = user.env /\ user'.pc # "idle")
          \/ (user' = user /\ user.pc = "idle") \/ \E e \in Envs : UserBegin(e)
      BY <1>0, <1>9 DEF Request, ExtendLease, LeaseExpires, User, StartHold, Hold, StartContainer, StartCommit,
         StartUndo, StopContainer, StopWrite, DeleteContainer, DeleteStorage, DeleteRow, UserGoto, UserType
    <2> QED BY <1>0, <1>1, <1>7, <1>8, <1>9, <2>1 DEF UserFits
  <1>10. CASE ~Request
    <2>1. user' = user \/ user' = UserIdle
      BY <1>10, OthersKeepUser
    <2>2. user.pc = "idle" => user = UserIdle
      BY <1>0 DEF UserFits
    <2> QED BY <1>1, <1>5, <1>10, <2>1, <2>2
  <1> QED BY <1>9, <1>10

\* Shape, ownership and claims hold at first, and every step keeps them.
Sound == Shape /\ OwnersInv /\ ClaimsInv

\* The whole invariant holds at first.
LEMMA SoundInit == Init => Sound
  <1>1. Init => ClaimsInv
    BY EnvironmentsAssumption DEF Init, ClaimsInv, CreatorKnows, UserKnows, Claimed, Absent, Idle, UserIdle, Undoing
  <1> QED BY <1>1, ShapeInit, OwnersInit DEF Sound

\* Every step keeps it.
LEMMA SoundStep == Sound /\ [Next]_vars => Sound'
  <1>1. ClaimsInv /\ UNCHANGED vars => ClaimsInv'
    BY DEF vars, ClaimsInv, CreatorKnows, UserKnows, Claimed, HasRow, Exists
  <1>2. Shape /\ OwnersInv /\ ClaimsInv /\ Next => ClaimsInv'
    BY CreatorKnowsStep, UserKnowsStep DEF ClaimsInv
  <1> QED BY <1>1, <1>2, ShapeStep, OwnersStep DEF Sound

\* Whatever fails, crashes or is suspended, a claimed container keeps its environment's row until its
\* pool row is gone, so that GC collects what could not be removed. The exception is a Delete that
\* has read the row before the create had claimed the container.
THEOREM ClaimedStay == Spec => ClaimedStaysOwned
  <1>1. Sound /\ [Next]_vars =>
          [\A p \in Entries : ~Hidden(p) /\ Hidden(p)' => user.pc = "erase" /\ user.cid = Nothing]_vars
    <2> SUFFICES ASSUME Shape, OwnersInv, ClaimsInv, Next, NEW p \in Entries, ~Hidden(p), Hidden(p)'
                 PROVE  user.pc = "erase" /\ user.cid = Nothing
      BY DEF Sound, vars, Hidden, Exists
    <2>1. StillClaimed(p) /\ Claimed(p) /\ Exists(p)
      <3>1. pool[p] = "claimed"
        <4>1. pool'[p] = "claimed" /\ ~\E e \in Envs : HasRow(e)' /\ env'[e].cid = p
          BY DEF Hidden
        <4>2. ASSUME NEW e \in Envs, env[e].status = "creating", env' = [env EXCEPT ![e].cid = p, ![e].vol = p]
              PROVE  HasRow(e)' /\ env'[e].cid = p
          BY <4>2 DEF HasRow, Shape, Typed, EnvType
        <4> QED BY <4>1, <4>2, NextPool
      <3>2. Claimed(p) /\ StillClaimed(p)
        BY <3>1 DEF Claimed, StillClaimed, Hidden
      <3> QED BY <3>2, ClaimedAges DEF Ages, Hidden
    <2>2. PICK e \in Envs : HasRow(e) /\ env[e].cid = p
      BY <2>1 DEF Hidden, Claimed
    <2>3. ~(env'[e].cid = p /\ HasRow(e)')
      BY DEF Hidden
    <2>4. CASE Request
      BY <2>1, <2>2, <2>3, <2>4, RequestRow
    <2>5. CASE ~Request
      BY <2>1, <2>2, <2>3, <2>5, OthersKeepClaims
    <2> QED BY <2>4, <2>5
  <1> QED BY <1>1, SoundInit, SoundStep, PTL DEF Spec, ClaimedStaysOwned

-----------------------------------------------------------------------------
(***************************************************************************)
(* What keeps an environment whose create has succeeded: the reconciler    *)
(* does not stop what a renewal or a Start has taken hold of before, and   *)
(* no one but a Delete drops the workspace, suspended or not.              *)
(*                                                                         *)
(* Nothing of the sort holds for the row of a create that has failed: a    *)
(* suspension marks rows "stopped" whatever they are by then, so that it   *)
(* can hand Start such a row while the refill is about to drop the volume  *)
(* that it had claimed.                                                    *)
(***************************************************************************)

-----------------------------------------------------------------------------
(* Rows that are settled: once created, a row is "running" or "stopped" until it is deleted. *)

Settled(e) == env[e].used

\* What Start and Stop have read is still so. A row that is no settled one never will be.
RequestKnows ==
  /\ user.pc \in {"hold", "start", "commit", "stop", "write"} => env[user.env].status \notin {"absent", "creating"}
  /\ user.pc \in {"hold", "start", "commit"} /\ Settled(user.env) =>
       /\ env[user.env].status = "stopped" /\ env[user.env].vol = user.vol
       /\ IF user.made THEN ~Exists(env[user.env].cid) ELSE env[user.env].cid = user.cid
  /\ user.pc \in {"start", "commit"} /\ Settled(user.env) => env[user.env].lease = "live"
  /\ user.made => user.cid \in Spare

Quiet ==
  /\ \A e \in Envs : Settled(e) => creator[e] = Idle /\ env[e].status \in {"running", "stopped"}
  /\ RequestKnows
  /\ rec.pc = "recheck" => rec.cid # Nothing

\* A container that an environment holds is not made again.
LEMMA HeldAges ==
  ASSUME Sound, Next, NEW e \in Envs, NEW c \in Containers, c \in Holds(e)
  PROVE  Ages(c)
  <1>1. ~Fresh(c)
    BY DEF Sound, OwnersInv, Apart
  <1>2. ~Makes(c)
    BY <1>1 DEF Sound, OwnersInv, PoolFits, Makes, Unused, Fresh
  <1> QED BY <1>2, NextAges DEF Sound

\* The create of an environment that is not settled settles it by its commit only.
LEMMA CreateSettles ==
  ASSUME Sound, Quiet, NEW e \in Envs, CreateBegin(e) \/ Create(e)
  PROVE  /\ ~Settled(e)
         /\ Settled(e)' => /\ At(e, "commit") /\ env[e].status = "creating" /\ creator'[e] = Idle
                           /\ env'[e].cid = creator[e].cid /\ env'[e].vol = env[e].vol
                           /\ env'[e].status = "running"
         /\ env'[e].status = "creating" => env[e].status \in {"absent", "creating"}
  <1>0. /\ env \in [Envs -> EnvType] /\ env[e] \in EnvType /\ creator \in [Envs -> CreatorType] /\ CreatorFits(e)
    BY DEF Sound, Shape, Fits, Typed
  <1>1. ~Settled(e)
    <2>1. Create(e) => ~At(e, "idle")
      BY DEF Create, Insert, NoNetwork, Acquire, Transfer, Unclaim, Reset, MakeVolume, RunCold, RunFailed, Commit,
         UndoContainer, UndoStorage, DropRow, Fail, At
    <2>2. CreateBegin(e) => ~Settled(e)
      BY DEF CreateBegin, Settled, Absent
    <2> QED BY <2>1, <2>2 DEF Quiet, Idle, At
  <1>2. CASE env' = env \/ env' = WithStatus(e, "failed")
    BY <1>0, <1>1, <1>2 DEF Settled, WithStatus, EnvType
  <1>3. CASE Insert(e) \/ DropRow(e)
    <2>1. env' = [env EXCEPT ![e] = [Absent EXCEPT !.status = "creating", !.vol = e]] => ~env'[e].used
      BY <1>0 DEF Absent
    <2>2. env' = [env EXCEPT ![e] = [Absent EXCEPT !.status = "deleted"]] =>
            env'[e].status = "deleted" /\ ~env'[e].used
      BY <1>0 DEF Absent
    <2>3. Insert(e) => env[e].status = "absent"
      BY <1>0 DEF Insert, CreatorFits, Absent
    <2>4. \/ env' = env
          \/ Insert(e) /\ env' = [env EXCEPT ![e] = [Absent EXCEPT !.status = "creating", !.vol = e]]
          \/ env' = [env EXCEPT ![e] = [Absent EXCEPT !.status = "deleted"]]
      BY <1>3 DEF Insert, DropRow
    <2> QED BY <1>1, <1>2, <2>1, <2>2, <2>3, <2>4 DEF Settled
  <1>4. CASE Acquire(e) \/ Reset(e)
    <2>1. \/ env' = env
          \/ \E p, v : env' = [env EXCEPT ![e].cid = p, ![e].vol = v]
      BY <1>4 DEF Acquire, Reset
    <2>2. \A p, v : env' = [env EXCEPT ![e].cid = p, ![e].vol = v] =>
                      env'[e].status = env[e].status /\ env'[e].used = env[e].used
      BY <1>0 DEF EnvType
    <2> QED BY <1>1, <1>2, <2>1, <2>2 DEF Settled
  <1>5. CASE Commit(e)
    <2>1. CASE env' = env
      BY <1>2, <2>1
    <2>2. CASE /\ env[e].status = "creating" /\ env' = Created(e)
               /\ creator' = [creator EXCEPT ![e] = Idle]
      <3>1. env' = [env EXCEPT ![e] = [env[e] EXCEPT !.status = "running", !.cid = creator[e].cid,
                                                     !.lease = "live", !.used = TRUE]]
        BY <2>2, CommittedRow DEF Sound, Shape
      <3>2. /\ env'[e].cid = creator[e].cid /\ env'[e].vol = env[e].vol /\ creator'[e] = Idle
            /\ env'[e].status = "running"
        BY <1>0, <2>2, <3>1 DEF EnvType
      <3> QED BY <1>1, <1>5, <2>2, <3>2 DEF Commit
    <2> QED BY <1>5, <2>1, <2>2 DEF Commit, MayCommit
  <1>6. Create(e) => \/ env' = env \/ env' = WithStatus(e, "failed") \/ Insert(e) \/ DropRow(e)
                     \/ Acquire(e) \/ Reset(e) \/ Commit(e)
    BY DEF Create, NoNetwork, Transfer, Unclaim, MakeVolume, RunCold, RunFailed, UndoContainer, UndoStorage, Fail
  <1> QED BY <1>2, <1>3, <1>4, <1>5, <1>6 DEF CreateBegin

\* A request keeps settled rows, but for the one that it deletes, and settles none. It gives a row
\* another container only if it is a Start that has made one.
LEMMA RequestSettles ==
  ASSUME Sound, Quiet, Request, NEW e \in Envs
  PROVE  /\ creator' = creator
         /\ Settled(e)' => /\ Settled(e) /\ env'[e].vol = env[e].vol /\ env'[e].status \in {"running", "stopped"}
                           /\ \/ env'[e].cid = env[e].cid
                              \/ user.env = e /\ user.made /\ user.pc = "commit" /\ env'[e].cid = user.cid
         /\ user'.pc # "idle" /\ user.env = e /\ user.pc # "idle" =>
              /\ env'[e].status = env[e].status /\ env'[e].cid = env[e].cid /\ env'[e].vol = env[e].vol
              /\ env'[e].used = env[e].used
              /\ user.pc \in {"start", "commit"} /\ Settled(e) => env'[e].lease = env[e].lease
  <1>0. /\ env \in [Envs -> EnvType] /\ env[e] \in EnvType /\ UserFits
        /\ Settled(e) => env[e].status \in {"running", "stopped"}
    BY DEF Sound, Shape, Fits, Typed, Quiet
  <1>1. creator' = creator
    BY DEF Request, UserBegin, ExtendLease, LeaseExpires, User, StartHold, Hold, StartContainer, StartCommit,
       StartUndo, StopContainer, StopWrite, DeleteContainer, DeleteStorage, DeleteRow
  <1>2. CASE env' = env
    BY <1>0, <1>1, <1>2 DEF Settled
  <1>3. ASSUME NEW d \in Envs, ExtendLease(d) \/ LeaseExpires(d)
        PROVE  /\ env'[e].status = env[e].status /\ env'[e].cid = env[e].cid /\ env'[e].vol = env[e].vol
               /\ env'[e].used = env[e].used
               /\ user.env = e /\ user.pc \in {"start", "commit"} /\ Settled(e) => env'[e].lease = env[e].lease
    <2>1. user.env = e /\ user.pc \in {"start", "commit"} /\ Settled(e) => e # d
      BY <1>3 DEF ExtendLease, LeaseExpires, Quiet, RequestKnows
    <2> QED BY <1>0, <1>3, <2>1 DEF ExtendLease, LeaseExpires, EnvType
  <1>4. StartHold => /\ env'[e].status = env[e].status /\ env'[e].cid = env[e].cid /\ env'[e].vol = env[e].vol
                     /\ env'[e].used = env[e].used /\ user.pc = "hold"
    BY <1>0 DEF StartHold, Hold, EnvType
  <1>5. CASE StopWrite
    <2>1. user'.pc = "idle"
      BY <1>5 DEF StopWrite, UserIdle
    <2>2. /\ env'[e].cid = env[e].cid /\ env'[e].vol = env[e].vol /\ env'[e].used = env[e].used
          /\ env'[e].status \in {env[e].status, "stopped"}
      BY <1>0, <1>5 DEF StopWrite, WithStatus, EnvType
    <2> QED BY <1>0, <1>1, <2>1, <2>2 DEF Settled
  <1>6. CASE StartCommit
    <2>1. PICK d \in Envs : d = user.env
      BY <1>0, <1>6 DEF StartCommit, UserFits
    <2>2. CASE env' = Committed(user.env, user.cid) /\ user' = UserIdle
      <3>1. env' = [env EXCEPT ![d] = [env[d] EXCEPT !.status = "running", !.cid = user.cid,
                                                     !.lease = "live"]]
        BY <2>1, <2>2, CommittedRow DEF Sound, Shape
      <3>2. user.pc = "commit" /\ (Settled(d) => user.made \/ env[d].cid = user.cid)
        BY <1>6, <2>1 DEF StartCommit, Quiet, RequestKnows
      <3>3. CASE e # d
        BY <1>0, <1>1, <2>1, <3>1, <3>3 DEF Settled
      <3>4. CASE e = d
        <4>1. /\ env'[e].cid = user.cid /\ env'[e].status = "running" /\ env'[e].vol = env[e].vol
              /\ env'[e].used = env[e].used /\ user'.pc = "idle"
          BY <1>0, <2>2, <3>1, <3>4 DEF EnvType, UserIdle
        <4> QED BY <1>1, <2>1, <3>2, <3>4, <4>1 DEF Settled
      <3> QED BY <3>3, <3>4
    <2> QED BY <1>2, <1>6, <2>2 DEF StartCommit
  <1>7. CASE DeleteRow
    <2>1. user'.pc = "idle" /\ user.env \in Envs
      BY <1>0, <1>7 DEF DeleteRow, UserIdle, UserFits
    <2>2. e # user.env => env'[e] = env[e]
      BY <1>0, <1>7 DEF DeleteRow
    <2>3. e = user.env => ~env'[e].used
      BY <1>0, <1>7 DEF DeleteRow, Absent
    <2> QED BY <1>0, <1>1, <1>7, <2>1, <2>2, <2>3 DEF Settled
  <1> QED BY <1>0, <1>1, <1>2, <1>3, <1>4, <1>5, <1>6, <1>7 DEF Request, User, UserBegin, StartContainer, StartUndo,
             StopContainer, DeleteContainer, DeleteStorage, Settled

\* The reconciler stops running rows and fails those that are being created, and a suspension marks
\* "stopped" whatever there is; nobody else writes rows.
LEMMA ElsewhereSettles ==
  ASSUME Sound, Elsewhere
  PROVE  /\ user' = user \/ user' = UserIdle
         /\ \A e \in Envs : \/ env'[e] = env[e]
                            \/ HasRow(e) /\ env'[e] = [env[e] EXCEPT !.status = "stopped"]
                            \/ env[e].status = "creating" /\ env'[e] = [env[e] EXCEPT !.status = "failed"]
  <1>0. /\ env \in [Envs -> EnvType] /\ OthersFit
    BY DEF Sound, Shape, Fits, Typed
  <1>1. user' = user \/ user' = UserIdle
    BY DEF Elsewhere, Reconcile, RecRead, RecFailStale, RecWatch, RecMark, RecInspect, RecRecheck, RecClaim,
       RecStop, UnchangedButRec, Refill, PruneRead, PruneInspect, Prune, PruneVolume, FillStart, FillRun,
       FillInsert, Collect, GcContainer, GcVolume, GcRemove, Exit, DockerPrune, Suspend, Reactivate, Sweep,
       SweepList, SweepStop, SweepWrite, SweepNext, UnchangedButSweep, Crash
  <1>2. \/ env' = env
        \/ \E d \in Envs : env' = WithStatus(d, "stopped")
        \/ \E d \in Envs : env[d].status = "creating" /\ env' = WithStatus(d, "failed")
    BY <1>0 DEF Elsewhere, Reconcile, RecRead, RecFailStale, RecWatch, RecMark, RecInspect, RecRecheck, RecClaim,
       RecStop, UnchangedButRec, Refill, PruneRead, PruneInspect, Prune, PruneVolume, FillStart, FillRun,
       FillInsert, Collect, GcContainer, GcVolume, GcRemove, Exit, DockerPrune, Suspend, Reactivate, Sweep,
       SweepList, SweepStop, SweepWrite, SweepNext, UnchangedButSweep, Crash, OthersFit, MayClaim
  <1>3. ASSUME NEW d \in Envs, NEW status, env' = WithStatus(d, status), NEW e \in Envs
        PROVE  env'[e] = env[e] \/ (e = d /\ HasRow(d) /\ env'[e] = [env[e] EXCEPT !.status = status])
    BY <1>0, <1>3 DEF WithStatus
  <1> QED BY <1>1, <1>2, <1>3

\* A row that is no longer being created is not created again.
LEMMA CreatedOnce ==
  ASSUME Sound, Quiet, Next, NEW e \in Envs, env[e].status \notin {"absent", "creating"}
  PROVE  /\ env'[e].status \notin {"absent", "creating"}
         /\ Settled(e)' => Settled(e)
  <1>0. env[e] \in EnvType
    BY DEF Sound, Shape, Typed
  <1>1. env'[e].status # "absent"
    BY CreatorsFit DEF Sound
  <1>2. ASSUME NEW d \in Envs, CreateBegin(d) \/ Create(d)
        PROVE  env'[e].status # "creating" /\ (Settled(e)' => Settled(e))
    BY <1>2, CreateElsewhere, CreateSettles DEF Sound, Settled
  <1>3. CASE Request
    BY <1>1, <1>3, RequestRow, RequestSettles DEF Sound
  <1>4. CASE Elsewhere
    BY <1>0, <1>4, ElsewhereSettles DEF Settled, EnvType
  <1> QED BY <1>1, <1>2, <1>3, <1>4, NextSplits

\* A Start in progress finds its row as it left it, and its lease extended.
LEMMA RequestKnowsStep ==
  ASSUME Sound, Quiet, Next
  PROVE  RequestKnows'
  <1>0. /\ env \in [Envs -> EnvType] /\ user \in UserType /\ UserFits /\ RequestKnows /\ Sound'
    BY SoundStep DEF Sound, Shape, Fits, Typed, Quiet
  <1>1. CASE user' = UserIdle
    BY <1>1 DEF RequestKnows, UserIdle
  <1>2. ASSUME NEW c, c \in {env[user.env].cid, user.cid}, user.env \in Envs, Exists(c)'
        PROVE  Exists(c)
    <2>1. c \in Holds(user.env) /\ c \in Containers \cup {Nothing}
      BY <1>0, <1>2 DEF Holds, UserType, EnvType
    <2> QED BY <1>2, <2>1, HeldAges DEF Ages, Exists
  <1>3. CASE ~Request /\ user' = user /\ user.pc # "idle"
    <2>1. PICK d \in Envs : d = user.env
      BY <1>0, <1>3 DEF UserFits
    <2>2. user.pc \in {"hold", "start", "commit", "stop", "write"} =>
            /\ env[d].status \notin {"absent", "creating"} /\ env'[d].status \notin {"absent", "creating"}
            /\ Settled(d)' => Settled(d)
      BY <1>0, <2>1, CreatedOnce DEF RequestKnows
    <2>3. CASE user.pc \in {"hold", "start", "commit"} /\ Settled(d)'
      <3>1. Settled(d) /\ env[d].status = "stopped"
        BY <1>0, <2>1, <2>2, <2>3 DEF RequestKnows
      <3>2. ASSUME NEW e \in Envs, CreateBegin(e) \/ Create(e)
            PROVE  env'[d] = env[d]
        BY <3>1, <3>2, CreateElsewhere, CreateSettles DEF Sound
      <3>3. Elsewhere => env'[d] = env[d] \/ env'[d] = [env[d] EXCEPT !.status = "stopped"]
        BY <3>1, ElsewhereSettles
      <3>4. env[d] \in EnvType
        BY <1>0
      <3>5. /\ env'[d].status = "stopped" /\ env'[d].vol = env[d].vol /\ env'[d].cid = env[d].cid
            /\ env'[d].lease = env[d].lease
        BY <1>3, <3>1, <3>2, <3>3, <3>4, NextSplits DEF EnvType
      <3>6. Exists(env[d].cid)' => Exists(env[d].cid)
        BY <1>2, <2>1, <3>5 DEF Exists
      <3>7. Exists(env[user.env].cid)' = Exists(env[d].cid)' /\ Exists(env[user.env].cid) = Exists(env[d].cid)
        BY <1>3, <2>1 DEF Exists
      <3> QED BY <1>0, <1>3, <2>1, <2>2, <3>1, <3>5, <3>6, <3>7 DEF RequestKnows
    <2>4. CASE ~(user.pc \in {"hold", "start", "commit"} /\ Settled(d)')
      <3>1. Settled(user.env)' = Settled(d)'
        BY <1>3, <2>1 DEF Settled
      <3> QED BY <1>0, <1>3, <2>1, <2>2, <2>4, <3>1 DEF RequestKnows
    <2> QED BY <2>3, <2>4
  <1>4. CASE Request
    <2>0. \A pc : UserGoto(pc) => /\ user'.pc = pc /\ user'.env = user.env /\ user'.cid = user.cid
                                 /\ user'.vol = user.vol /\ user'.made = user.made
      BY <1>0 DEF UserGoto, UserType
    <2>1. ASSUME NEW e \in Envs, UserBegin(e)
          PROVE  RequestKnows'
      <3>1. /\ env' = env /\ user'.env = e /\ user'.cid = env[e].cid /\ user'.vol = env[e].vol /\ ~user'.made
            /\ \/ env[e].status = "stopped" /\ user'.pc = "hold"
               \/ env[e].status = "running" /\ user'.pc = "stop"
               \/ user'.pc = "remove"
        BY <2>1 DEF UserBegin
      <3> QED BY <3>1 DEF RequestKnows, Settled
    <2>2. CASE user'.env = user.env /\ user'.pc # "idle" /\ user.pc # "idle"
      <3>1. PICK d \in Envs : d = user.env
        BY <1>0, <2>2 DEF UserFits
      <3>2. /\ env'[d].status = env[d].status /\ env'[d].cid = env[d].cid /\ env'[d].vol = env[d].vol
            /\ env'[d].used = env[d].used
            /\ user.pc \in {"start", "commit"} /\ Settled(d) => env'[d].lease = env[d].lease
        BY <1>4, <2>2, <3>1, RequestSettles
      <3>3. Exists(env[d].cid)' => Exists(env[d].cid)
        BY <1>2, <3>1, <3>2 DEF Exists
      <3>4. /\ Exists(env[user.env].cid)' = Exists(env[d].cid)' /\ Exists(env[user.env].cid) = Exists(env[d].cid)
            /\ Settled(user.env)' = Settled(d)' /\ Settled(user.env) = Settled(d) /\ Settled(d)' = Settled(d)
        BY <2>2, <3>1, <3>2 DEF Exists, Settled
      <3>5. CASE user' = user
        BY <1>0, <3>1, <3>2, <3>3, <3>4, <3>5 DEF RequestKnows
      <3>6. CASE StartHold
        <4>1. UserGoto("start") /\ user.pc = "hold" /\ (env[d].status = "stopped" => env'[d].lease = "live")
          BY <1>0, <3>1, <3>6 DEF StartHold, Hold, EnvType
        <4> QED BY <1>0, <2>0, <3>1, <3>2, <3>3, <3>4, <4>1 DEF RequestKnows
      <3>7. CASE StartContainer /\ UserGoto("commit")
        <4>1. user.pc = "start"
          BY <3>7 DEF StartContainer
        <4> QED BY <1>0, <2>0, <3>1, <3>2, <3>3, <3>4, <3>7, <4>1 DEF RequestKnows
      <3>8. ASSUME user.pc = "start", ~Exists(user.cid), NEW n \in Unused,
                   user' = [user EXCEPT !.pc = "commit", !.cid = n, !.made = TRUE]
            PROVE  RequestKnows'
        <4>1. user'.pc = "commit" /\ user'.cid = n /\ user'.made /\ user'.vol = user.vol /\ n \in Spare
          BY <1>0, <3>8 DEF UserType, Unused
        <4>2. ~user.made
          BY <1>0, <3>8 DEF UserFits
        <4>3. /\ env[d].status \notin {"absent", "creating"}
              /\ Settled(d) => /\ env[d].cid = user.cid /\ env[d].status = "stopped"
                               /\ env[d].vol = user.vol /\ env[d].lease = "live"
          BY <1>0, <3>1, <3>8, <4>2 DEF RequestKnows
        <4>4. Settled(d) => ~Exists(env[d].cid)'
          BY <3>3, <3>8, <4>3
        <4> QED BY <2>2, <3>1, <3>2, <3>4, <3>8, <4>1, <4>3, <4>4 DEF RequestKnows
      <3>9. CASE StopContainer /\ UserGoto("write")
        <4>1. user.pc = "stop"
          BY <3>9 DEF StopContainer
        <4> QED BY <1>0, <2>0, <3>1, <3>2, <3>9, <4>1 DEF RequestKnows, UserFits
      <3>10. CASE UserGoto("undo") \/ UserGoto("storage") \/ UserGoto("erase")
        BY <1>0, <2>0, <3>10 DEF RequestKnows
      <3>11. user # UserIdle /\ user' # UserIdle
        BY <2>2 DEF UserIdle
      <3>12. \A e \in Envs : UserBegin(e) \/ ExtendLease(e) \/ LeaseExpires(e) => user = UserIdle \/ user' = user
        BY DEF UserBegin, ExtendLease, LeaseExpires
      <3>13. User => \/ user' = UserIdle \/ StartHold \/ (StartContainer /\ UserGoto("commit"))
                     \/ (StopContainer /\ UserGoto("write"))
                     \/ UserGoto("undo") \/ UserGoto("storage") \/ UserGoto("erase")
                     \/ /\ user.pc = "start" /\ ~Exists(user.cid)
                        /\ \E n \in Unused : user' = [user EXCEPT !.pc = "commit", !.cid = n, !.made = TRUE]
        BY DEF User, StartContainer, StartCommit, StartUndo, StopContainer, StopWrite, DeleteContainer,
               DeleteStorage, DeleteRow
      <3> QED BY <1>4, <3>5, <3>6, <3>7, <3>8, <3>9, <3>10, <3>11, <3>12, <3>13 DEF Request
    <2>3. \/ user' = UserIdle \/ (user.pc # "idle" /\ user'.env = user.env /\ user'.pc # "idle")
          \/ (user' = user /\ user.pc = "idle") \/ \E e \in Envs : UserBegin(e)
      BY <1>0, <1>4 DEF Request, ExtendLease, LeaseExpires, User, StartHold, Hold, StartContainer, StartCommit,
         StartUndo, StopContainer, StopWrite, DeleteContainer, DeleteStorage, DeleteRow, UserGoto, UserType
    <2> QED BY <1>0, <1>1, <2>1, <2>2, <2>3 DEF UserFits
  <1>5. CASE ~Request
    <2>1. user.pc = "idle" => user = UserIdle
      BY <1>0 DEF UserFits
    <2> QED BY <1>1, <1>3, <1>5, <2>1, OthersKeepUser
  <1> QED BY <1>4, <1>5

\* What a step may do to the reconciler: it reads, goes on or ends, or a Start marks its history.
LEMMA NextRec ==
  ASSUME Sound, Next
  PROVE  \/ rec' = rec \/ rec' = RecIdle \/ \E e \in Envs : RecRead(e)
         \/ RecWatch \/ RecInspect \/ RecRecheck \/ RecClaim
         \/ StartHold /\ rec'.pc = rec.pc /\ rec'.env = rec.env /\ rec'.cid = rec.cid
  <1>1. StartHold => rec'.pc = rec.pc /\ rec'.env = rec.env /\ rec'.cid = rec.cid
    BY HistoryOnly DEF Sound
  <1>2. ASSUME NEW e \in Envs, CreateBegin(e) \/ Create(e)
        PROVE  rec' = rec
    BY <1>2 DEF CreateBegin, Create, Insert, NoNetwork, Acquire, Transfer, Unclaim, Reset, MakeVolume, RunCold,
       RunFailed, Commit, UndoContainer, UndoStorage, DropRow, Fail
  <1>3. Request => rec' = rec \/ StartHold
    BY DEF Request, UserBegin, ExtendLease, LeaseExpires, User, StartContainer, StartCommit,
       StartUndo, StopContainer, StopWrite, DeleteContainer, DeleteStorage, DeleteRow
  <1>4. Elsewhere => \/ rec' = rec \/ rec' = RecIdle \/ \E e \in Envs : RecRead(e)
                     \/ RecWatch \/ RecInspect \/ RecRecheck \/ RecClaim
    BY DEF Elsewhere, Reconcile, RecFailStale, RecMark, RecStop,
       Refill, PruneRead, PruneInspect, Prune, PruneVolume, FillStart, FillRun, FillInsert,
       Collect, GcContainer, GcVolume, GcRemove, Exit, DockerPrune, Suspend, Reactivate, Sweep, SweepList,
       SweepStop, SweepWrite, SweepNext, UnchangedButSweep, Crash
  <1> QED BY <1>1, <1>2, <1>3, <1>4, NextSplits

\* Settled environments stay without a create, and what is known is known.
LEMMA QuietStep ==
  ASSUME Sound, Quiet, [Next]_vars
  PROVE  Quiet'
  <1>0. rec \in RecType
    BY DEF Sound, Shape, Typed
  <1>1. CASE UNCHANGED vars
    BY <1>1 DEF vars, Quiet, RequestKnows, Settled, Exists
  <1>2. CASE Next
    <2>1. ASSUME NEW e \in Envs, Settled(e)'
          PROVE  creator'[e] = Idle /\ env'[e].status \in {"running", "stopped"}
      <3>1. ASSUME NEW d \in Envs, CreateBegin(d) \/ Create(d)
            PROVE  creator'[e] = Idle /\ env'[e].status \in {"running", "stopped"}
        <4>1. CASE d = e
          BY <2>1, <3>1, <4>1, CreateSettles
        <4>2. CASE d # e
          BY <2>1, <3>1, <4>2, CreateElsewhere DEF Sound, Quiet, Settled
        <4> QED BY <4>1, <4>2
      <3>2. Request => creator'[e] = Idle /\ env'[e].status \in {"running", "stopped"}
        BY <2>1, RequestSettles DEF Quiet
      <3>3. CASE Elsewhere
        <4>0. env[e] \in EnvType
          BY DEF Sound, Shape, Typed
        <4>1. Settled(e)
          BY <2>1, <3>3, <4>0, ElsewhereSettles DEF Settled, EnvType
        <4>2. env[e].status \in {"running", "stopped"} /\ creator[e] = Idle
          BY <4>1 DEF Quiet
        <4>3. env'[e].status \in {"running", "stopped"}
          BY <3>3, <4>0, <4>2, ElsewhereSettles DEF EnvType
        <4>4. creator'[e] = Idle
          BY <3>3, <4>2, ElsewhereKeepsRows DEF Sound
        <4> QED BY <4>3, <4>4
      <3> QED BY <1>2, <3>1, <3>2, <3>3, NextSplits
    <2>2. rec'.pc = "recheck" => rec'.cid # Nothing
      <3>1. CASE rec' = rec \/ (rec'.pc = rec.pc /\ rec'.cid = rec.cid)
        BY <3>1 DEF Quiet
      <3>2. CASE RecInspect
        <4>1. rec' = [rec EXCEPT !.pc = "recheck"] => rec'.cid = rec.cid /\ Up(rec.cid)
          BY <1>0, <3>2 DEF RecInspect, RecType, RecIdle
        <4> QED BY <3>2, <4>1 DEF RecInspect, RecIdle, Up
      <3>3. RecWatch \/ RecRecheck \/ RecClaim => rec' = RecIdle \/ \E pc \in {"mark", "stop"} : rec' = [rec EXCEPT !.pc = pc]
        BY DEF RecWatch, RecRecheck, RecClaim
      <3>4. rec' = RecIdle \/ (\E pc \in {"mark", "stop"} : rec' = [rec EXCEPT !.pc = pc]) => rec'.pc # "recheck"
        BY <1>0 DEF RecType, RecIdle
      <3>5. \A e \in Envs : RecRead(e) => rec'.pc \in {"watch", "inspect", "claim"}
        BY DEF RecRead
      <3> QED BY <1>2, <3>1, <3>2, <3>3, <3>4, <3>5, NextRec
    <2> QED BY <1>2, <2>1, <2>2, RequestKnowsStep DEF Quiet
  <1> QED BY <1>1, <1>2

\* A step by which the reconciler decides to stop a container.
LEMMA DecidesToStop ==
  ASSUME Sound, Next, rec.pc # "stop", rec'.pc = "stop"
  PROVE  /\ rec.env \in Envs /\ rec'.env = rec.env /\ UNCHANGED user
         /\ \/ MayClaim(rec.env) /\ env' = WithStatus(rec.env, "stopped")
            \/ /\ rec.pc = "recheck" /\ env' = env
               /\ \E e \in Envs : env[e].cid = rec.cid /\ env[e].status = "stopped" /\ env[e].lease = "expired"
  <1>0. rec \in RecType /\ OthersFit
    BY DEF Sound, Shape, Fits, Typed
  <1>1. rec' # rec /\ rec' # RecIdle
    BY DEF RecIdle
  <1>2. \A pc : rec' = [rec EXCEPT !.pc = pc] => pc = "stop" /\ rec'.env = rec.env
    BY <1>0 DEF RecType
  <1>3. \A e \in Envs : ~RecRead(e)
    BY <1>1 DEF RecRead
  <1>4. RecRecheck \/ RecClaim
    BY <1>1, <1>2, <1>3, NextRec DEF RecWatch, RecInspect
  <1>5. rec.env \in Envs /\ rec'.env = rec.env
    BY <1>0, <1>1, <1>2, <1>4 DEF RecRecheck, RecClaim, OthersFit
  <1> QED BY <1>1, <1>4, <1>5 DEF RecRecheck, RecClaim, UnchangedButRec

\* What the reconciler has decided to stop is stopped by its row, with an expired lease, and no Start
\* is about to bring it up, unless one has begun since.
Expiring(d) ==
  /\ env[d].status = "stopped" /\ env[d].lease = "expired"
  /\ ~(user.env = d /\ user.pc \in {"start", "commit"})

Decided ==
  rec.pc = "stop" =>
    /\ env[rec.env].status \notin {"absent", "creating"}
    /\ ~rec.late /\ Settled(rec.env) => Expiring(rec.env)

\* When the reconciler decides, it has just asked for the row.
LEMMA DecidedBegins ==
  ASSUME Sound, Quiet, Next, rec.pc # "stop", rec'.pc = "stop"
  PROVE  Decided'
  <1>0. /\ env \in [Envs -> EnvType] /\ env' \in [Envs -> EnvType]
    BY SoundStep DEF Sound, Shape, Typed
  <1>1. PICK d \in Envs : d = rec.env /\ rec'.env = d /\ user' = user
    BY DecidesToStop
  <1>2. user.env = d /\ user.pc \in {"start", "commit"} /\ Settled(d) =>
          env[d].status = "stopped" /\ env[d].lease = "live"
    BY DEF Quiet, RequestKnows
  <1>3. CASE MayClaim(d) /\ env' = WithStatus(d, "stopped")
    <2>1. env[d].status = "running" /\ env[d].lease = "expired"
      BY <1>3 DEF MayClaim
    <2>2. env'[d].status = "stopped" /\ env'[d].lease = "expired" /\ env'[d].used = env[d].used
      BY <1>0, <1>3, <2>1 DEF WithStatus, HasRow, EnvType
    <2> QED BY <1>1, <1>2, <2>1, <2>2 DEF Decided, Expiring, Settled
  <1>4. ASSUME rec.pc = "recheck", env' = env,
               NEW e \in Envs, env[e].cid = rec.cid, env[e].status = "stopped", env[e].lease = "expired"
        PROVE  Decided'
    <2>1. rec.cid # Nothing
      BY <1>4 DEF Quiet
    <2>2. rec.cid \in Holds(d) /\ rec.cid \in Holds(e)
      BY <1>1, <1>4 DEF Holds
    <2>3. e = d
      BY <2>1, <2>2 DEF Sound, OwnersInv, Apart
    <2> QED BY <1>1, <1>2, <1>4, <2>3 DEF Decided, Expiring, Settled
  <1> QED BY <1>1, <1>3, <1>4, DecidesToStop

\* While a stop is decided and no Start begins, the row and its lease stay as they are.
LEMMA ExpiringStays ==
  ASSUME Sound, Quiet, Next, NEW d \in Envs, Expiring(d), Settled(d), Settled(d)',
         ~(StartHold /\ user.env = d)
  PROVE  Expiring(d)'
  <1>0. /\ env \in [Envs -> EnvType] /\ user \in UserType /\ UserFits /\ env[d] \in EnvType
    BY DEF Sound, Shape, Fits, Typed
  <1>1. CASE env'[d] = env[d] /\ (user' = user \/ user' = UserIdle)
    BY <1>1 DEF Expiring, UserIdle
  <1>2. ASSUME NEW e \in Envs, CreateBegin(e) \/ Create(e)
        PROVE  env'[d] = env[d] /\ user' = user
    <2>1. e # d
      BY <1>2, CreateSettles
    <2>2. user' = user
      BY <1>2 DEF CreateBegin, Create, Insert, NoNetwork, Acquire, Transfer, Unclaim, Reset, MakeVolume, RunCold,
         RunFailed, Commit, UndoContainer, UndoStorage, DropRow, Fail
    <2> QED BY <1>2, <2>1, <2>2, CreateElsewhere DEF Sound
  <1>3. CASE Elsewhere
    <2>1. env'[d] = env[d] \/ env'[d] = [env[d] EXCEPT !.status = "stopped"]
      BY <1>3, ElsewhereSettles DEF Expiring
    <2>2. env'[d].status = "stopped" /\ env'[d].lease = "expired"
      BY <1>0, <2>1 DEF Expiring, EnvType
    <2> QED BY <1>3, <2>2, ElsewhereSettles DEF Expiring, UserIdle
  <1>4. ASSUME NEW e \in Envs, UserBegin(e) \/ ExtendLease(e) \/ LeaseExpires(e)
        PROVE  Expiring(d)'
    <2>1. CASE UserBegin(e)
      <3>1. env' = env /\ user'.pc \in {"hold", "stop", "remove"}
        BY <2>1 DEF UserBegin
      <3> QED BY <3>1 DEF Expiring
    <2>2. CASE ExtendLease(e) \/ LeaseExpires(e)
      <3>1. e # d /\ user' = user
        BY <2>2 DEF ExtendLease, LeaseExpires, Expiring
      <3>2. env'[d] = env[d]
        BY <1>0, <2>2, <3>1 DEF ExtendLease, LeaseExpires
      <3> QED BY <1>1, <3>1, <3>2
    <2> QED BY <1>4, <2>1, <2>2
  <1>5. CASE User
    <2>0. \A pc : UserGoto(pc) => user'.pc = pc /\ user'.env = user.env
      BY <1>0 DEF UserGoto, UserType
    <2>1. CASE user.env # d
      <3>1. user.env \in Envs
        <4>1. user.pc # "idle"
          BY <1>5 DEF User, StartHold, Hold, StartContainer, StartCommit, StartUndo, StopContainer, StopWrite,
             DeleteContainer, DeleteStorage, DeleteRow
        <4> QED BY <1>0, <4>1 DEF UserFits
      <3>2. env'[d] = env[d]
        <4>1. Committed(user.env, user.cid)[d] = env[d]
          BY <1>0, <2>1, <3>1 DEF Committed
        <4>2. CASE env' = env \/ env' = Committed(user.env, user.cid)
          BY <4>1, <4>2
        <4>3. StartHold \/ StopWrite \/ DeleteRow => env'[d] = env[d]
          BY <1>0, <2>1 DEF StartHold, Hold, StopWrite, DeleteRow, WithStatus
        <4>4. env' = env \/ env' = Committed(user.env, user.cid) \/ StartHold \/ StopWrite \/ DeleteRow
          BY <1>5 DEF User, StartContainer, StartCommit, StartUndo, StopContainer, DeleteContainer, DeleteStorage
        <4> QED BY <4>2, <4>3, <4>4
      <3>3. user' = UserIdle \/ user'.env = user.env
        <4>1. \A n : user' = [user EXCEPT !.pc = "commit", !.cid = n, !.made = TRUE] => user'.env = user.env
          BY <1>0 DEF UserType
        <4>2. \/ user' = UserIdle \/ (\E pc : UserGoto(pc))
              \/ \E n : user' = [user EXCEPT !.pc = "commit", !.cid = n, !.made = TRUE]
          BY <1>5 DEF User, StartHold, Hold, StartContainer, StartCommit, StartUndo, StopContainer, StopWrite,
             DeleteContainer, DeleteStorage, DeleteRow
        <4> QED BY <2>0, <4>1, <4>2
      <3> QED BY <2>1, <3>2, <3>3 DEF Expiring, UserIdle
    <2>2. CASE user.env = d
      <3>1. user.pc \notin {"start", "commit"} /\ ~StartHold
        BY <2>2 DEF Expiring
      <3>2. user' = UserIdle \/ user'.pc \in {"write", "storage", "erase"}
        BY <1>5, <2>0, <3>1 DEF User, StartContainer, StartCommit, StartUndo, StopContainer, StopWrite,
           DeleteContainer, DeleteStorage, DeleteRow
      <3>3. ~DeleteRow
        BY <1>0, <2>2 DEF DeleteRow, Settled, Absent
      <3>4. env' = env \/ env' = WithStatus(d, "stopped")
        BY <1>5, <2>2, <3>1, <3>3 DEF User, StartContainer, StartCommit, StartUndo, StopContainer, StopWrite,
           DeleteContainer, DeleteStorage
      <3>5. env'[d].status = "stopped" /\ env'[d].lease = "expired"
        BY <1>0, <3>4 DEF WithStatus, Expiring, EnvType
      <3> QED BY <3>2, <3>5 DEF Expiring, UserIdle
    <2> QED BY <2>1, <2>2
  <1> QED BY <1>1, <1>2, <1>3, <1>4, <1>5, NextSplits DEF Request

\* What is decided stays so until the stop.
LEMMA DecidedStep ==
  ASSUME Sound, Quiet, Decided, [Next]_vars
  PROVE  Decided'
  <1>0. rec \in RecType /\ OthersFit
    BY DEF Sound, Shape, Fits, Typed
  <1>1. CASE UNCHANGED vars
    BY <1>1 DEF vars, Decided, Expiring, Settled
  <1>2. CASE Next /\ rec.pc = "stop" /\ rec'.pc = "stop"
    <2>1. PICK d \in Envs : d = rec.env
      BY <1>0, <1>2 DEF OthersFit
    <2>2. rec' = rec \/ (StartHold /\ rec'.env = rec.env)
      BY <1>2, NextRec DEF RecIdle, RecRead, RecWatch, RecInspect, RecRecheck, RecClaim
    <2>3. /\ env'[d].status \notin {"absent", "creating"}
          /\ Settled(d)' => Settled(d)
      BY <1>2, <2>1, CreatedOnce DEF Decided
    <2>4. ~rec'.late => ~rec.late /\ ~(StartHold /\ user.env = d)
      BY <1>0, <1>2, <2>1, <2>2 DEF StartHold, RecType
    <2>5. ~rec'.late /\ Settled(d)' => Expiring(d)'
      BY <1>2, <2>1, <2>3, <2>4, ExpiringStays DEF Decided
    <2>6. rec'.env = d /\ (Expiring(rec.env)' <=> Expiring(d)') /\ (Settled(rec.env)' <=> Settled(d)')
      BY <2>1, <2>2 DEF Expiring, Settled
    <2> QED BY <2>3, <2>5, <2>6 DEF Decided
  <1>3. CASE Next /\ rec'.pc # "stop"
    BY <1>3 DEF Decided
  <1> QED BY <1>1, <1>2, <1>3, DecidedBegins

\* A renewal wins cleanly, and is never followed by a stop: whatever Start, renewals, expiry and
\* suspensions do, the reconciler stops no container whose environment has a live lease, but for a
\* Start that begins after the reconciler has decided.
THEOREM RenewalsWin == Spec => RenewalWins
  <1>1. Init => Quiet /\ Decided
    BY DEF Init, Quiet, RequestKnows, Settled, Absent, UserIdle, RecIdle, Decided
  <1>2. Sound /\ Decided /\ [Next]_vars =>
          [rec.pc = "stop" /\ cont' # cont /\ rec' = RecIdle =>
             rec.late \/ ~(env[rec.env].used /\ env[rec.env].lease = "live")]_vars
    BY DEF Decided, Settled, Expiring
  <1> QED BY <1>1, <1>2, QuietStep, DecidedStep, SoundInit, SoundStep, PTL DEF Spec, RenewalWins

-----------------------------------------------------------------------------
(* Volumes: whose they are, and what marks them for removal. *)

\* Every row names a volume, and an environment's own volume is there only if its row names it. A
\* warm container is on the volume of its name. What GC has listed belongs to nobody.
Vols ==
  /\ \A e \in Envs : HasRow(e) => env[e].vol # Nothing
  /\ \A e \in Envs : vol[e] => env[e].status # "absent" /\ (HasRow(e) => env[e].vol = e)
  /\ \A e \in Envs : At(e, "acquire") => ~vol[e]
  /\ gc.kind = "volume" /\ gc.name \in Envs => env[gc.name].status = "deleted"
  /\ \A p \in Entries : cont[p].state # "none" => cont[p].vol = p
  /\ gc.kind = "container" => ~Fresh(gc.name) /\ \A e \in Envs : gc.name \notin Names(e)

\* A row names another volume only if its create claims one or falls back on the environment's own.
LEMMA RowVolume ==
  ASSUME Sound, Next, NEW e \in Envs
  PROVE  /\ HasRow(e)' => \/ HasRow(e) /\ env'[e].vol = env[e].vol
                          \/ env'[e].vol = e
                          \/ At(e, "acquire") /\ env'[e].vol \in Entries
         /\ env[e].status = "deleted" => env'[e].status = "deleted"
  <1>0. /\ env \in [Envs -> EnvType] /\ env[e] \in EnvType /\ CreatorFits(e) /\ Shape
    BY DEF Sound, Shape, Fits, Typed
  <1>1. CASE RowKept(e)
    BY <1>1 DEF RowKept, HasRow, Deleted, Absent
  <1>2. ASSUME CreateBegin(e) \/ Create(e)
        PROVE  /\ HasRow(e)' => \/ HasRow(e) /\ env'[e].vol = env[e].vol
                                \/ env'[e].vol = e
                                \/ At(e, "acquire") /\ env'[e].vol \in Entries
               /\ env[e].status = "deleted" => env'[e].status = "deleted"
    <2>1. CASE env' = env \/ env' = WithStatus(e, "failed")
      BY <1>0, <2>1 DEF WithStatus, HasRow, EnvType
    <2>2. CASE Insert(e)
      <3>1. env[e].status = "absent"
        BY <1>0, <2>2 DEF Insert, CreatorFits, Absent
      <3>2. env' = [env EXCEPT ![e] = [Absent EXCEPT !.status = "creating", !.vol = e]] => env'[e].vol = e
        BY <1>0 DEF Absent
      <3> QED BY <2>1, <2>2, <3>1, <3>2 DEF Insert
    <2>3. CASE DropRow(e)
      <3>1. env' = env \/ (env[e].status = "stopped" /\ env'[e].status = "deleted")
        BY <1>0, <2>3 DEF DropRow, Absent
      <3> QED BY <2>1, <3>1 DEF HasRow
    <2>4. CASE Acquire(e)
      <3>1. ASSUME NEW p \in Entries, env' = [env EXCEPT ![e].cid = p, ![e].vol = p], env[e].status = "creating"
            PROVE  env'[e].vol \in Entries
        BY <1>0, <3>1 DEF EnvType
      <3> QED BY <2>1, <2>4, <3>1 DEF Acquire
    <2>5. CASE Reset(e)
      <3>1. env' = env \/ (HasRow(e) /\ env' = [env EXCEPT ![e].cid = Nothing, ![e].vol = e])
        BY <2>5 DEF Reset
      <3>2. env' = [env EXCEPT ![e].cid = Nothing, ![e].vol = e] => env'[e].vol = e
        BY <1>0 DEF EnvType
      <3> QED BY <2>1, <3>1, <3>2 DEF HasRow
    <2>6. CASE Commit(e)
      <3>1. ASSUME env[e].status = "creating", env' = Created(e)
            PROVE  env'[e].vol = env[e].vol
        <4>1. env' = [env EXCEPT ![e] = [env[e] EXCEPT !.status = "running", !.cid = creator[e].cid,
                                                       !.lease = "live", !.used = TRUE]]
          BY <3>1, CommittedRow DEF Sound, Shape
        <4> QED BY <1>0, <4>1 DEF EnvType
      <3>2. env' = env \/ (env[e].status = "creating" /\ env' = Created(e))
        BY <2>6 DEF Commit, MayCommit
      <3> QED BY <2>1, <3>1, <3>2 DEF HasRow
    <2>7. \/ env' = env \/ env' = WithStatus(e, "failed") \/ Insert(e) \/ DropRow(e)
          \/ Acquire(e) \/ Reset(e) \/ Commit(e)
      BY <1>2 DEF CreateBegin, Create, NoNetwork, Transfer, Unclaim, MakeVolume, RunCold, RunFailed, UndoContainer,
         UndoStorage, Fail
    <2> QED BY <2>1, <2>2, <2>3, <2>4, <2>5, <2>6, <2>7
  <1>3. ASSUME NEW d \in Envs, CreateBegin(d) \/ Create(d), d # e
        PROVE  RowKept(e)
    BY <1>0, <1>3, CreateElsewhere DEF RowKept
  <1>4. Request => RowKept(e)
    BY <1>0, RequestKeepsRows
  <1>5. Elsewhere => RowKept(e)
    BY <1>0, ElsewhereKeepsRows DEF RowKept
  <1> QED BY <1>1, <1>2, <1>3, <1>4, <1>5, NextSplits

\* Only a create makes the own volume of an environment.
LEMMA VolumeMade ==
  ASSUME Sound, Next, NEW e \in Envs, vol'[e], ~vol[e]
  PROVE  At(e, "volume") \/ At(e, "run")
  <1>0. /\ vol \in [Volumes -> BOOLEAN] /\ OthersFit /\ e \in Volumes /\ e \notin Entries
    BY EnvironmentsAssumption DEF Sound, Shape, Fits, Typed, Volumes
  <1>1. vol' # vol
    OBVIOUS
  <1>2. \A v : ~DropVolume(v)
    BY <1>0 DEF DropVolume
  <1>3. \A v : vol' = [vol EXCEPT ![v] = TRUE] => v = e
    BY <1>0
  <1>4. ASSUME NEW d \in Envs, CreateBegin(d) \/ Create(d)
        PROVE  At(e, "volume") \/ At(e, "run")
    <2>1. MakeVolume(d) \/ RunCold(d)
      BY <1>1, <1>2, <1>4 DEF CreateBegin, Create, Insert, NoNetwork, Acquire, Transfer, Unclaim, Reset,
         RunFailed, Commit, UndoContainer, UndoStorage, DropRow, Fail
    <2>2. vol' = [vol EXCEPT ![d] = TRUE]
      BY <1>1, <2>1 DEF MakeVolume, RunCold, Run
    <2> QED BY <1>3, <2>1, <2>2 DEF MakeVolume, RunCold
  <1>5. ~Request
    <2>1. Request => StartContainer
      BY <1>1, <1>2 DEF Request, UserBegin, ExtendLease, LeaseExpires, User, StartHold, Hold, StartCommit,
         StartUndo, StopContainer, StopWrite, DeleteContainer, DeleteStorage, DeleteRow
    <2>2. StartContainer => vol' = [vol EXCEPT ![user.vol] = TRUE] /\ vol[user.vol]
      BY <1>1 DEF StartContainer, Run
    <2> QED BY <1>3, <2>1, <2>2
  <1>6. ~Elsewhere
    <2>1. Elsewhere => GcRemove \/ FillRun \/ \E p \in Entries : FillStart(p)
      BY <1>1, <1>2 DEF Elsewhere, Reconcile, RecRead, RecFailStale, RecWatch, RecMark, RecInspect, RecRecheck, RecClaim,
         RecStop, UnchangedButRec, Refill, PruneRead, PruneInspect, Prune, PruneVolume,
         FillInsert, Collect, GcContainer, GcVolume, Exit, DockerPrune, Suspend, Reactivate, Sweep,
         SweepList, SweepStop, SweepWrite, SweepNext, UnchangedButSweep, Crash
    <2>2. ~GcRemove
      BY <1>0, <1>1 DEF GcRemove
    <2>3. ~FillRun
      BY <1>0, <1>1, <1>3 DEF FillRun, Run, OthersFit
    <2>4. \A p \in Entries : ~FillStart(p)
      BY <1>0, <1>3 DEF FillStart
    <2> QED BY <2>1, <2>2, <2>3, <2>4
  <1> QED BY <1>4, <1>5, <1>6, NextSplits

\* The collector lists one thing at a time.
LEMMA NextGc ==
  ASSUME Sound, Next
  PROVE  \/ (gc'.kind = gc.kind /\ gc'.name = gc.name) \/ gc' = GcIdle
         \/ \E c \in Containers : GcContainer(c)
         \/ \E v \in Volumes : GcVolume(v)
  <1>1. ASSUME NEW d \in Envs, CreateBegin(d) \/ Create(d)
        PROVE  gc' = gc
    BY <1>1 DEF CreateBegin, Create, Insert, NoNetwork, Acquire, Transfer, Unclaim, Reset, MakeVolume, RunCold,
       RunFailed, Commit, UndoContainer, UndoStorage, DropRow, Fail
  <1>2. Request => gc' = gc
    BY DEF Request, UserBegin, ExtendLease, LeaseExpires, User, StartHold, Hold, StartContainer, StartCommit,
       StartUndo, StopContainer, StopWrite, DeleteContainer, DeleteStorage, DeleteRow
  <1>3. \A c \in Containers : DockerPrune(c) => gc'.kind = gc.kind /\ gc'.name = gc.name
    BY HistoryOnly DEF Sound
  <1>4. Elsewhere => \/ gc' = gc \/ gc' = GcIdle
                     \/ \E c \in Containers : GcContainer(c) \/ DockerPrune(c)
                     \/ \E v \in Volumes : GcVolume(v)
    BY DEF Elsewhere, Reconcile, RecRead, RecFailStale, RecWatch, RecMark, RecInspect, RecRecheck, RecClaim,
       RecStop, UnchangedButRec, Refill, PruneRead, PruneInspect, Prune, PruneVolume, FillStart, FillRun, FillInsert,
       Collect, GcRemove, Exit, Suspend, Reactivate, Sweep, SweepList, SweepStop, SweepWrite,
       SweepNext, UnchangedButSweep, Crash
  <1> QED BY <1>1, <1>2, <1>3, <1>4, NextSplits

\* What the collector lists.
LEMMA GcLists ==
  /\ GcIdle.kind = "none"
  /\ \A c : GcContainer(c) => gc'.kind = "container" /\ gc'.name = c
  /\ \A v : GcVolume(v) => gc'.kind = "volume" /\ gc'.name = v
  <1>1. \A k, n : /\ [GcIdle EXCEPT !.kind = k, !.name = n].kind = k
                 /\ [GcIdle EXCEPT !.kind = k, !.name = n].name = n
    BY DEF GcIdle
  <1> QED BY <1>1 DEF GcIdle, GcContainer, GcVolume

\* Volumes and what GC has listed fit after a step as before.
LEMMA VolsStep ==
  ASSUME Sound, Vols, [Next]_vars
  PROVE  Vols'
  <1>0. /\ gc \in GcType /\ OthersFit /\ Nothing \notin Volumes /\ Nothing \notin Containers
        /\ Entries \subseteq Volumes /\ Envs \subseteq Volumes /\ Entries \subseteq Containers
        /\ \A e \in Envs : CreatorFits(e) /\ CreatorKnows(e) /\ e \notin Entries
        /\ cont \in [Containers -> ContType]
    BY EnvironmentsAssumption DEF Sound, Shape, Fits, Typed, ClaimsInv, Volumes, Containers
  <1>1. CASE UNCHANGED vars
    BY <1>1 DEF vars, Vols, HasRow, At, Fresh, Names
  <1>2. CASE Next
    <2>1. \A e \in Envs : HasRow(e)' => env'[e].vol # Nothing
      BY <1>0, <1>2, RowVolume DEF Vols
    <2>2. ASSUME NEW e \in Envs, vol'[e]
          PROVE  env'[e].status # "absent" /\ (HasRow(e)' => env'[e].vol = e) /\ ~At(e, "acquire")'
      <3>1. env[e].status # "absent" /\ (HasRow(e) => env[e].vol = e) /\ ~At(e, "acquire")
        <4>1. CASE vol[e]
          BY <4>1 DEF Vols
        <4>2. CASE ~vol[e]
          <5>1. At(e, "volume") \/ At(e, "run")
            BY <1>2, <2>2, <4>2, VolumeMade
          <5> QED BY <1>0, <5>1 DEF CreatorFits, CreatorKnows, At
        <4> QED BY <4>1, <4>2
      <3>2. env'[e].status # "absent"
        BY <1>2, <3>1, CreatorsFit DEF Sound
      <3>3. HasRow(e)' => env'[e].vol = e
        BY <1>2, <3>1, RowVolume
      <3>4. ~At(e, "acquire")'
        BY <1>2, <3>1, AcquireBegins DEF Sound
      <3> QED BY <3>2, <3>3, <3>4
    <2>3. ASSUME NEW p \in Entries, cont'[p].state # "none"
          PROVE  cont'[p].vol = p
      BY <1>0, <1>2, <2>3, NextAges DEF Ages, Vols, Sound
    <2>4. gc'.kind = "volume" /\ gc'.name \in Envs => env'[gc'.name].status = "deleted"
      <3>1. CASE gc'.kind = gc.kind /\ gc'.name = gc.name
        BY <1>2, <3>1, RowVolume DEF Vols
      <3>2. ASSUME NEW v \in Volumes, GcVolume(v)
            PROVE  gc'.kind = "volume" /\ gc'.name \in Envs => env'[gc'.name].status = "deleted"
        BY <3>2, GcLists DEF GcVolume, Vols, OwnedVolume, HasRow
      <3>3. gc' = GcIdle \/ (\E c \in Containers : GcContainer(c)) => gc'.kind # "volume"
        BY GcLists
      <3> QED BY <1>2, <3>1, <3>2, <3>3, NextGc
    <2>5. gc'.kind = "container" => ~Fresh(gc.name)' /\ \A e \in Envs : gc'.name \notin Names(e)'
      <3>1. CASE gc'.kind = gc.kind /\ gc'.name = gc.name /\ gc.kind = "container"
        <4>1. gc.name \in Containers /\ gc.name # Nothing
          BY <1>0, <3>1 DEF OthersFit
        <4>2. \A c \in Containers : c = gc.name => ~Fresh(c)'
          BY <1>2, <3>1, FreshShrinks DEF Vols, Sound, OwnersInv
        <4>3. ~Fresh(gc.name)'
          BY <3>1, <4>1, <4>2 DEF Fresh
        <4>4. \A e \in Envs : gc.name \notin Names(e)'
          <5>1. \A e \in Envs, c \in Containers : Takes(e, c) => c # gc.name
            BY <3>1 DEF Takes, Vols
          <5>2. ASSUME NEW e \in Envs
                PROVE  Keeps(e) \/ \E c \in Containers : Takes(e, c)
            BY <1>2, OneTakes DEF Sound
          <5> QED BY <3>1, <4>1, <5>1, <5>2 DEF Keeps, Takes, Vols
        <4> QED BY <3>1, <4>3, <4>4
      <3>2. ASSUME NEW c \in Containers, GcContainer(c)
            PROVE  ~Fresh(gc.name)' /\ \A e \in Envs : gc'.name \notin Names(e)'
        <4>1. /\ gc'.name = c /\ UNCHANGED <<env, pool, cont, creator, user, fill>>
              /\ Exists(c) /\ ~Owned(c) /\ c \notin InFlight
          BY <3>2, GcLists DEF GcContainer
        <4>2. ~Fresh(c)
          BY <4>1 DEF Fresh, Exists, Owned, InFlight
        <4>3. ASSUME NEW e \in Envs
              PROVE  c \notin Names(e)
          <5>1. c # env[e].cid
            BY <1>0, <4>1 DEF Owned, HasRow, CreatorFits, Absent, Deleted
          <5> QED BY <4>1, <5>1 DEF InFlight, Names
        <4> QED BY <4>1, <4>2, <4>3 DEF Fresh, Names
      <3>3. gc' = GcIdle \/ (\E v \in Volumes : GcVolume(v)) => gc'.kind # "container"
        BY GcLists
      <3> QED BY <1>2, <3>1, <3>2, <3>3, NextGc
    <2>6. \A e \in Envs : At(e, "acquire")' => ~vol'[e]
      BY <2>2
    <2> QED BY <2>1, <2>2, <2>3, <2>4, <2>5, <2>6 DEF Vols
  <1> QED BY <1>1, <1>2


\* At first the pool has what is ready, and nobody else has anything.
LEMMA VolsInit == Init => Vols
  <1> SUFFICES ASSUME Init PROVE Vols
    OBVIOUS
  <1>1. /\ \A e \in Envs : env[e] = Absent /\ creator[e] = Idle /\ e \in Volumes /\ e \notin Warm
        /\ \A p \in Entries : p \in Containers
    BY EnvironmentsAssumption DEF Init, Volumes, Containers
  <1>2. \A e \in Envs : ~vol[e]
    BY <1>1 DEF Init
  <1>3. \A p \in Entries : cont[p].state # "none" => cont[p].vol = p
    BY <1>1 DEF Init
  <1>4. gc.kind = "none"
    BY DEF Init, GcIdle
  <1> QED BY <1>1, <1>2, <1>3, <1>4 DEF Vols, HasRow, Absent

-----------------------------------------------------------------------------
(* The volumes of the pool that are about to be dropped. *)

\* The refill or GC may drop the volume of entry p without asking again whose it is, and no operator
\* has taken the container off it since they listed it.
Marked(p) ==
  \/ /\ fill.entry = p /\ ~fill.late
     /\ fill.pc = "unvolume" \/ (fill.pc \in {"inspect", "prune"} /\ fill.was = "ready")
  \/ gc.kind = "volume" /\ gc.name = p /\ ~gc.late

\* The row of e is settled, or its create has a container and is about to commit.
Binds(e) == Settled(e) \/ (At(e, "commit") /\ env[e].status = "creating")

Deleting(e) == user.env = e /\ user.pc \in {"storage", "erase"}

\* A settled row on a volume of the pool names the container that came with it, unless that one is
\* gone. If the volume of such a row may be dropped, that container is there to prevent it.
KeptInv ==
  /\ \A e \in Envs : Settled(e) /\ env[e].vol \in Entries => env[e].cid = env[e].vol \/ ~Exists(env[e].vol)
  /\ \A p \in Entries, e \in Envs : Marked(p) /\ env[e].vol = p /\ Binds(e) => Exists(p) \/ Deleting(e)

\* The volume of an entry is listed for removal only while no row names it.
LEMMA MarksNobody ==
  ASSUME Sound, Next, NEW p \in Entries, ~Marked(p), Marked(p)'
  PROVE  env' = env /\ \A e \in Envs : HasRow(e) => env[e].vol # p
  <1>0. /\ OthersFit /\ fill \in FillType /\ gc \in GcType /\ p \in Containers
        /\ \A e \in Envs : Fresh(p) => env[e].vol # p
    BY DEF Sound, Shape, Fits, Typed, OwnersInv, Apart, Holds, Containers
  <1>7. ASSUME NEW c \in Containers, DockerPrune(c)
        PROVE  FALSE
    <2>1. /\ fill'.pc = fill.pc /\ fill'.entry = fill.entry /\ fill'.was = fill.was
          /\ gc'.kind = gc.kind /\ gc'.name = gc.name
      BY <1>7, HistoryOnly DEF Sound
    <2>2. (fill.late => fill'.late) /\ (gc.late => gc'.late)
      BY <1>0, <1>7 DEF DockerPrune, FillType, GcType
    <2> QED BY <2>1, <2>2 DEF Marked
  <1>1. fill' # fill \/ gc' # gc
    BY DEF Marked
  <1>2. ~Crash
    BY DEF Crash, Marked, FillIdle, GcIdle
  <1>3. Refill \/ Collect
    <2>1. \A d \in Envs : CreateBegin(d) \/ Create(d) => UNCHANGED <<fill, gc>>
      BY DEF CreateBegin, Create, Insert, NoNetwork, Acquire, Transfer, Unclaim, Reset, MakeVolume, RunCold,
         RunFailed, Commit, UndoContainer, UndoStorage, DropRow, Fail
    <2>2. Request => UNCHANGED <<fill, gc>>
      BY DEF Request, UserBegin, ExtendLease, LeaseExpires, User, StartHold, Hold, StartContainer, StartCommit,
         StartUndo, StopContainer, StopWrite, DeleteContainer, DeleteStorage, DeleteRow
    <2>3. Elsewhere => \/ Refill \/ Collect \/ Crash \/ UNCHANGED <<fill, gc>>
                       \/ \E c \in Containers : DockerPrune(c)
      BY DEF Elsewhere, Reconcile, RecRead, RecFailStale, RecWatch, RecMark, RecInspect, RecRecheck, RecClaim,
         RecStop, UnchangedButRec, Exit, Suspend, Reactivate, Sweep, SweepList, SweepStop, SweepWrite,
         SweepNext, UnchangedButSweep
    <2> QED BY <1>1, <1>2, <1>7, <2>1, <2>2, <2>3, NextSplits
  <1>4. env' = env
    BY <1>3 DEF Refill, Collect, PruneRead, PruneInspect, Prune, PruneVolume, FillStart, FillRun, FillInsert,
       GcContainer, GcVolume, GcRemove
  <1>5. CASE Refill
    <2>1. gc' = gc
      BY <1>5 DEF Refill, PruneRead, PruneInspect, Prune, PruneVolume, FillStart, FillRun, FillInsert
    <2>2. fill'.entry = p /\ fill'.pc \in {"inspect", "prune", "unvolume"}
      BY <2>1 DEF Marked
    <2>3. CASE \E q \in Entries : PruneRead(q) \/ FillStart(q)
      <3>1. PICK q \in Entries : PruneRead(q) \/ FillStart(q)
        BY <2>3
      <3>2. FillStart(q) => fill'.pc = "run"
        BY <1>0 DEF FillStart, FillType
      <3>3. PruneRead(q) /\ fill' = [pc |-> "inspect", entry |-> q, was |-> pool[q], late |-> FALSE]
        BY <2>2, <3>1, <3>2 DEF PruneRead
      <3>4. q = p /\ pool[p] = "ready"
        BY <2>1, <2>2, <3>3 DEF Marked
      <3> QED BY <1>0, <1>4, <3>4 DEF Fresh
    <2>4. CASE PruneInspect
      <3>1. fill' = [fill EXCEPT !.pc = "prune"] /\ fill.pc = "inspect"
        BY <2>2, <2>4 DEF PruneInspect, FillIdle
      <3>2. fill'.entry = fill.entry /\ fill'.was = fill.was /\ fill'.pc = "prune" /\ fill'.late = fill.late
        BY <1>0, <3>1 DEF FillType
      <3> QED BY <2>1, <3>1, <3>2 DEF Marked
    <2>5. CASE Prune
      <3>1. fill' = [fill EXCEPT !.pc = "unvolume"] /\ fill.was = "ready" /\ fill.pc = "prune"
        BY <2>2, <2>5 DEF Prune, FillIdle
      <3>2. fill.entry = p /\ fill'.late = fill.late
        BY <1>0, <2>2, <3>1 DEF FillType
      <3> QED BY <2>1, <3>1, <3>2 DEF Marked
    <2>6. CASE PruneVolume
      BY <2>2, <2>6 DEF PruneVolume, FillIdle
    <2>7. CASE FillRun \/ FillInsert
      <3>1. fill.pc \in {"run", "insert"} /\ fill' \in {FillIdle, [fill EXCEPT !.pc = "insert"], [fill EXCEPT !.pc = "unvolume"]}
        BY <2>7 DEF FillRun, FillInsert
      <3>2. fill.entry = p
        BY <1>0, <2>2, <3>1 DEF FillType, FillIdle
      <3>3. Fresh(p)
        BY <3>1, <3>2 DEF Fresh, Sound, OwnersInv, PoolFits
      <3> QED BY <1>0, <1>4, <3>3
    <2> QED BY <1>5, <2>3, <2>4, <2>5, <2>6, <2>7 DEF Refill
  <1>6. CASE Collect
    <2>1. fill' = fill
      BY <1>6 DEF Collect, GcContainer, GcVolume, GcRemove
    <2>2. gc'.kind = "volume" /\ gc'.name = p /\ gc' # gc
      BY <2>1 DEF Marked
    <2>3. PICK v \in Volumes : GcVolume(v)
      BY <1>6, <2>2, GcLists DEF Collect, GcRemove
    <2>4. v = p
      BY <2>2, <2>3, GcLists
    <2> QED BY <1>4, <2>3, <2>4 DEF GcVolume, OwnedVolume
  <1> QED BY <1>3, <1>5, <1>6

\* Who removes a container.
Removes(c) ==
  \/ \E d \in Envs : (Unclaim(d) \/ UndoContainer(d)) /\ creator[d].cid = c
  \/ FillInsert /\ fill.entry = c
  \/ DeleteContainer /\ user.cid = c
  \/ StartUndo /\ user.made /\ user.cid = c
  \/ gc.kind = "container" /\ gc.name = c
  \/ DockerPrune(c)

\* A container is removed by those who have it in hand, and by an operator.
LEMMA Vanishes ==
  ASSUME Sound, Next, NEW c \in Containers, Exists(c), ~Exists(c)'
  PROVE  Removes(c)
  <1>0. cont \in [Containers -> ContType] /\ OthersFit
    BY DEF Sound, Shape, Fits, Typed
  <1>1. cont' # cont
    BY DEF Exists
  <1>2. \A x : cont' # Stopped(x)
    BY <1>0 DEF Stopped, Up, Exists, ContType
  <1>3. \A x : cont' = Removed(x) => x = c
    BY <1>0 DEF Removed, Exists, ContType
  <1>4. \A x : Discard(x) => x = c
    BY <1>1, <1>2, <1>3 DEF Discard
  <1>5. ASSUME NEW d, NEW n, NEW v, Run(d, n, v), d \in Containers
        PROVE  FALSE
    BY <1>0, <1>5 DEF Run, Exists, ContType
  <1>6. ASSUME NEW d, cont' = [cont EXCEPT ![d].state = "running"] \/ \E e : cont' = [cont EXCEPT ![d].name = e]
        PROVE  FALSE
    BY <1>0, <1>6 DEF Exists, ContType
  <1>7. ASSUME NEW e \in Envs, CreateBegin(e) \/ Create(e)
        PROVE  Removes(c)
    <2>1. Unclaim(e) \/ UndoContainer(e) \/ Transfer(e) \/ RunCold(e)
      BY <1>1, <1>7 DEF CreateBegin, Create, Insert, NoNetwork, Acquire, Reset, MakeVolume, RunFailed, Commit,
         UndoStorage, DropRow, Fail
    <2>2. ~Transfer(e)
      BY <1>1, <1>6 DEF Transfer
    <2>3. ~RunCold(e)
      BY <1>1, <1>5 DEF RunCold, Unused, Containers
    <2>4. creator[e].cid = c
      BY <1>4, <2>1, <2>2, <2>3 DEF Unclaim, UndoContainer
    <2> QED BY <2>1, <2>2, <2>3, <2>4 DEF Removes
  <1>8. CASE Request
    <2>1. StartContainer \/ StartUndo \/ DeleteContainer
      BY <1>1, <1>2, <1>8 DEF Request, UserBegin, ExtendLease, LeaseExpires, User, StartHold, Hold, StartCommit,
         StopContainer, StopWrite, DeleteStorage, DeleteRow
    <2>2. ~StartContainer
      BY <1>1, <1>5, <1>6 DEF StartContainer, Unused, Containers
    <2>3. StartUndo => user.made /\ user.cid = c
      BY <1>1, <1>2, <1>4 DEF StartUndo
    <2>4. DeleteContainer => user.cid = c
      BY <1>4 DEF DeleteContainer
    <2> QED BY <2>1, <2>2, <2>3, <2>4 DEF Removes
  <1>9. CASE Elsewhere
    <2>1. FillRun \/ FillInsert \/ GcRemove \/ \E d \in Containers : DockerPrune(d)
      BY <1>1, <1>2, <1>9 DEF Elsewhere, Reconcile, RecRead, RecFailStale, RecWatch, RecMark, RecInspect, RecRecheck,
         RecClaim, RecStop, UnchangedButRec, Refill, PruneRead, PruneInspect, Prune, PruneVolume, FillStart,
         Collect, GcContainer, GcVolume, Exit, Suspend, Reactivate, Sweep, SweepList, SweepStop, SweepWrite,
         SweepNext, UnchangedButSweep, Crash
    <2>2. ~FillRun
      BY <1>0, <1>1, <1>5 DEF FillRun, OthersFit, Containers
    <2>3. FillInsert => fill.entry = c
      BY <1>1, <1>4 DEF FillInsert
    <2>4. GcRemove => gc.kind = "container" /\ gc.name = c
      BY <1>1, <1>3 DEF GcRemove
    <2>5. \A d \in Containers : DockerPrune(d) => d = c
      BY <1>3 DEF DockerPrune
    <2> QED BY <2>1, <2>2, <2>3, <2>4, <2>5 DEF Removes
  <1> QED BY <1>7, <1>8, <1>9, NextSplits

\* A create comes to have a row on a volume of the pool, and a container to commit, when it takes
\* the container over from the pool.
LEMMA BindsBegins ==
  ASSUME Sound, Quiet, Next, NEW e \in Envs, Binds(e)', env'[e].vol \in Entries
  PROVE  /\ env'[e].vol = env[e].vol
         /\ Binds(e) \/ Exists(env[e].vol)'
  <1>0. /\ env \in [Envs -> EnvType] /\ env[e] \in EnvType /\ creator \in [Envs -> CreatorType]
        /\ cont \in [Containers -> ContType] /\ CreatorFits(e) /\ CreatorKnows(e) /\ e \notin Entries
        /\ Nothing \notin Entries /\ Entries \subseteq Containers
    BY EnvironmentsAssumption DEF Sound, Shape, Fits, Typed, ClaimsInv, Containers
  <1>1. CASE CreateBegin(e) \/ Create(e)
    <2>1. CASE Settled(e)'
      BY <1>1, <2>1, CreateSettles DEF Binds
    <2>2. CASE At(e, "commit")' /\ env'[e].status = "creating"
      <3>1. Transfer(e) \/ RunCold(e)
        <4>1. ~At(e, "commit")
          BY <1>0, <1>1, <2>2 DEF CreateBegin, Create, Insert, NoNetwork, Acquire, Transfer, Unclaim, Reset, MakeVolume,
             RunCold, RunFailed, Commit, UndoContainer, UndoStorage, DropRow, Fail, At, Goto, Idle, CreatorType
        <4>2. \A pc : Goto(e, pc) => pc = "commit"
          BY <1>0, <2>2 DEF Goto, At, CreatorType
        <4>3. /\ creator' # creator /\ creator' # [creator EXCEPT ![e] = Idle]
              /\ \A pc, c, v : creator' = [creator EXCEPT ![e] = [pc |-> pc, cid |-> c, vol |-> v]] => pc = "commit"
          BY <1>0, <2>2, <4>1 DEF At, Idle
        <4>4. ~(CreateBegin(e) \/ Insert(e) \/ NoNetwork(e) \/ DropRow(e) \/ RunFailed(e) \/ Fail(e) \/ Commit(e))
          BY <4>2, <4>3 DEF CreateBegin, Insert, NoNetwork, RunFailed, Commit, DropRow, Fail
        <4>5. ~(Unclaim(e) \/ Reset(e) \/ UndoContainer(e) \/ UndoStorage(e))
          BY <4>2 DEF Unclaim, Reset, UndoContainer, UndoStorage
        <4>6. ~Acquire(e)
          <5>1. Acquire(e) => \/ Goto(e, "volume")
                              \/ \E q : creator' = [creator EXCEPT ![e] = [pc |-> "transfer", cid |-> q, vol |-> q]]
            BY DEF Acquire
          <5> QED BY <4>2, <4>3, <5>1
        <4>7. ~MakeVolume(e)
          BY <4>2, <4>3 DEF MakeVolume
        <4> QED BY <1>1, <4>4, <4>5, <4>6, <4>7 DEF Create
      <3>2. CASE Transfer(e)
        <4>1. env' = env /\ At(e, "transfer") /\ env[e].vol = creator[e].vol
          BY <1>0, <2>2, <3>2 DEF Transfer, CreatorKnows, At
        <4>2. creator[e].cid = env[e].vol /\ creator[e].cid \in Containers
          BY <1>0, <4>1 DEF CreatorFits, At
        <4>3. Exists(creator[e].cid) /\ cont' = [cont EXCEPT ![creator[e].cid].name = e]
          <5>1. ~Goto(e, "unclaim")
            BY <1>0, <2>2 DEF Goto, At, CreatorType
          <5> QED BY <3>2, <5>1 DEF Transfer
        <4> QED BY <1>0, <4>1, <4>2, <4>3 DEF Exists, ContType
      <3>3. CASE RunCold(e)
        <4>1. At(e, "run") /\ (env' = env \/ env' = WithStatus(e, "failed"))
          BY <3>3 DEF RunCold
        <4>2. HasRow(e) /\ env'[e].vol = env[e].vol
          BY <1>0, <2>2, <4>1 DEF WithStatus, HasRow, EnvType
        <4> QED BY <1>0, <4>1, <4>2 DEF CreatorKnows, At
      <3> QED BY <3>1, <3>2, <3>3
    <2> QED BY <2>1, <2>2 DEF Binds, Settled
  <1>2. ASSUME NEW d \in Envs, CreateBegin(d) \/ Create(d), d # e
        PROVE  env'[e].vol = env[e].vol /\ Binds(e)
    BY <1>2, CreateElsewhere DEF Sound, Binds, Settled, At
  <1>3. CASE Request
    <2>1. env'[e].status = "creating" => env[e].status = "creating" /\ env'[e].vol = env[e].vol
      BY <1>3, RequestRow DEF Sound
    <2> QED BY <1>3, <2>1, RequestSettles DEF Binds, Settled, At
  <1>4. CASE Elsewhere
    <2>1. /\ env'[e].vol = env[e].vol /\ (env'[e].status = "creating" => env[e].status = "creating")
          /\ Settled(e)' => Settled(e)
      BY <1>0, <1>4, ElsewhereSettles DEF Settled, EnvType
    <2>2. creator'[e] = creator[e] \/ creator'[e] = Idle
      BY <1>4, ElsewhereKeepsRows DEF Sound
    <2> QED BY <2>1, <2>2 DEF Binds, Settled, At, Idle
  <1> QED BY <1>1, <1>2, <1>3, <1>4, NextSplits

\* Who holds the volume of an entry holds nothing else of the pool, and it is not fresh.
LEMMA HeldEntry ==
  ASSUME Sound, NEW e \in Envs, NEW p \in Entries, p \in Holds(e)
  PROVE  /\ \A d \in Envs : p \in Holds(d) => d = e
         /\ ~Fresh(p) /\ p # Nothing
  BY EnvironmentsAssumption DEF Sound, OwnersInv, Apart, Containers

\* The container of a settled row on a pool volume is its own, or gone, after a step as before.
LEMMA SettledOwnStep ==
  ASSUME Sound, Quiet, KeptInv, Next, NEW e \in Envs, Settled(e)', env'[e].vol \in Entries
  PROVE  env'[e].cid = env'[e].vol \/ ~Exists(env[e].vol)'
  <1>0. CreatorFits(e) /\ CreatorKnows(e) /\ env \in [Envs -> EnvType] /\ Entries \subseteq Containers
    BY DEF Sound, Shape, Fits, Typed, ClaimsInv, Containers
  <1>1. ASSUME Settled(e), env'[e].vol = env[e].vol, env'[e].cid = env[e].cid \/ ~Exists(env[e].cid)
        PROVE  env'[e].cid = env'[e].vol \/ ~Exists(env[e].vol)'
    <2>1. env'[e].cid = env'[e].vol \/ ~Exists(env[e].vol)
      BY <1>1 DEF KeptInv
    <2>2. PICK p \in Entries : p = env[e].vol
      BY <1>1
    <2>3. Exists(p)' => Exists(p)
      BY <1>0, <2>2, HeldAges DEF Holds, Ages
    <2> QED BY <1>1, <2>1, <2>2, <2>3 DEF Exists
  <1>2. CASE CreateBegin(e) \/ Create(e)
    <2>1. /\ At(e, "commit") /\ env[e].status = "creating"
          /\ env'[e].cid = creator[e].cid /\ env'[e].vol = env[e].vol
      BY <1>2, CreateSettles
    <2>2. creator[e].vol = env[e].vol
      BY <1>0, <2>1 DEF CreatorKnows, At
    <2>3. creator[e].cid = creator[e].vol
      BY <1>0, <2>1, <2>2 DEF CreatorFits, At
    <2> QED BY <2>1, <2>2, <2>3
  <1>3. ASSUME NEW d \in Envs, CreateBegin(d) \/ Create(d), d # e
        PROVE  env'[e] = env[e]
    BY <1>3, CreateElsewhere DEF Sound
  <1>4. CASE Request
    <2>1. /\ Settled(e) /\ env'[e].vol = env[e].vol
          /\ env'[e].cid = env[e].cid \/ (user.env = e /\ user.made /\ user.pc = "commit")
      BY <1>4, RequestSettles
    <2>2. user.env = e /\ user.made /\ user.pc = "commit" => ~Exists(env[e].cid)
      BY <2>1 DEF Quiet, RequestKnows
    <2> QED BY <1>1, <2>1, <2>2
  <1>5. CASE Elsewhere
    <2>1. \/ env'[e] = env[e]
          \/ env'[e] = [env[e] EXCEPT !.status = "stopped"]
          \/ env'[e] = [env[e] EXCEPT !.status = "failed"]
      BY <1>5, ElsewhereSettles
    <2>2. env[e] \in EnvType
      BY <1>0
    <2>3. env'[e].vol = env[e].vol /\ env'[e].cid = env[e].cid
      BY <2>1, <2>2 DEF EnvType
    <2>4. env'[e].used = env[e].used
      BY <2>1, <2>2 DEF EnvType
    <2>5. Settled(e)
      BY <2>4 DEF Settled
    <2> QED BY <1>1, <2>3, <2>5
  <1> QED BY <1>1, <1>2, <1>3, <1>4, <1>5, NextSplits DEF Settled

\* Who has a row on a pool volume that may be dropped keeps the container that prevents it.
LEMMA BoundStays ==
  ASSUME Sound, Quiet, Vols, KeptInv, NEW p \in Entries, NEW e \in Envs,
         Marked(p), Marked(p)', env[e].vol = p, Binds(e), Exists(p)
  PROVE  Removes(p) => DeleteContainer /\ user.env = e
  <1>0. /\ CreatorFits(e) /\ CreatorKnows(e) /\ UserFits /\ p \in Containers /\ p \notin Spare
        /\ \A d \in Envs : CreatorFits(d)
    BY EnvironmentsAssumption DEF Sound, Shape, Fits, ClaimsInv, Containers
  <1>1. /\ \A d \in Envs : p \in Holds(d) => d = e
        /\ ~Fresh(p) /\ p # Nothing
    BY HeldEntry DEF Holds
  <1>2. creator[e].pc \in {"idle", "commit"}
    BY DEF Binds, At, Quiet, Idle
  <1>3. \A d \in Envs : creator[d].cid = p => ~Unclaim(d) /\ ~UndoContainer(d)
    BY <1>1, <1>2 DEF Holds, Unclaim, UndoContainer, At
  <1>4. ~(FillInsert /\ fill.entry = p)
    BY <1>1 DEF FillInsert, Fresh
  <1>5. DeleteContainer /\ user.cid = p => user.env = e
    BY <1>0, <1>1 DEF DeleteContainer, UserFits, Holds
  <1>6. ~(user.made /\ user.cid = p)
    BY <1>0 DEF Quiet, RequestKnows
  <1>7. p \in Names(e)
    <2>1. CASE Settled(e)
      BY <2>1 DEF KeptInv, Names
    <2>2. CASE At(e, "commit") /\ env[e].status = "creating"
      <3>1. creator[e].vol = p
        BY <1>0, <2>2 DEF CreatorKnows, At
      <3> QED BY <1>0, <2>2, <3>1 DEF CreatorFits, At, Names
    <2> QED BY <2>1, <2>2 DEF Binds
  <1>8. ~(gc.kind = "container" /\ gc.name = p)
    BY <1>7 DEF Vols
  <1>9. ~DockerPrune(p)
    <2>1. cont[p].vol = p
      BY DEF Vols, Exists
    <2>2. fill \in FillType /\ gc \in GcType
      BY DEF Sound, Shape, Typed
    <2>3. ASSUME DockerPrune(p)
          PROVE  ~Marked(p)'
      <3>1. fill'.entry = fill.entry /\ gc'.kind = gc.kind /\ gc'.name = gc.name
        BY <1>0, <2>3, HistoryOnly DEF Sound
      <3>2. (fill.entry = p => fill'.late) /\ (gc.kind = "volume" /\ gc.name = p => gc'.late)
        BY <2>1, <2>2, <2>3 DEF DockerPrune, FillType, GcType
      <3> QED BY <3>1, <3>2 DEF Marked
    <2> QED BY <2>3
  <1> QED BY <1>3, <1>4, <1>5, <1>6, <1>8, <1>9 DEF Removes

\* A Delete that has removed the container goes on to the end, or the process restarts.
LEMMA DeletingStays ==
  ASSUME Sound, Next, NEW e \in Envs, Deleting(e) \/ (DeleteContainer /\ user.env = e)
  PROVE  \/ Deleting(e)' \/ env'[e].vol = Nothing
         \/ \A p \in Entries : ~Marked(p)'
  <1>0. /\ env \in [Envs -> EnvType] /\ user \in UserType /\ Nothing \notin Entries /\ OthersFit
    BY EnvironmentsAssumption DEF Sound, Shape, Fits, Typed
  <1>1. CASE user' = user
    BY <1>0, <1>1 DEF Deleting, DeleteContainer, UserGoto, UserType
  <1>2. \A pc : UserGoto(pc) => user'.pc = pc /\ user'.env = user.env
    BY <1>0 DEF UserGoto, UserType
  <1>3. CASE DeleteContainer \/ DeleteStorage
    BY <1>2, <1>3 DEF Deleting, DeleteContainer, DeleteStorage
  <1>4. CASE DeleteRow
    BY <1>0, <1>4 DEF Deleting, DeleteRow, DeleteContainer, Absent
  <1>5. CASE Crash
    BY <1>0, <1>5 DEF Crash, Marked, FillIdle, GcIdle
  <1>6. user' = user \/ DeleteContainer \/ DeleteStorage \/ DeleteRow \/ Crash
    <2>1. user.pc \in {"remove", "storage", "erase"}
      BY DEF Deleting, DeleteContainer
    <2>2. \A d \in Envs : CreateBegin(d) \/ Create(d) => user' = user
      BY DEF CreateBegin, Create, Insert, NoNetwork, Acquire, Transfer, Unclaim, Reset, MakeVolume, RunCold,
         RunFailed, Commit, UndoContainer, UndoStorage, DropRow, Fail
    <2>3. Request => user' = user \/ DeleteContainer \/ DeleteStorage \/ DeleteRow
      <3>1. \A d \in Envs : ~UserBegin(d)
        BY <2>1 DEF UserBegin, UserIdle
      <3>2. ~(StartHold \/ StartContainer \/ StartCommit \/ StartUndo \/ StopContainer \/ StopWrite)
        BY <2>1 DEF StartHold, Hold, StartContainer, StartCommit, StartUndo, StopContainer, StopWrite
      <3>3. \A d \in Envs : ExtendLease(d) \/ LeaseExpires(d) => user' = user
        BY DEF ExtendLease, LeaseExpires
      <3> QED BY <3>1, <3>2, <3>3 DEF Request, User
    <2>4. Elsewhere => user' = user \/ Crash
      BY DEF Elsewhere, Reconcile, RecRead, RecFailStale, RecWatch, RecMark, RecInspect, RecRecheck, RecClaim,
         RecStop, UnchangedButRec, Refill, PruneRead, PruneInspect, Prune, PruneVolume, FillStart, FillRun,
         FillInsert, Collect, GcContainer, GcVolume, GcRemove, Exit, DockerPrune, Suspend, Reactivate, Sweep,
         SweepList, SweepStop, SweepWrite, SweepNext, UnchangedButSweep
    <2> QED BY <2>2, <2>3, <2>4, NextSplits
  <1> QED BY <1>1, <1>3, <1>4, <1>5, <1>6

\* What keeps the workspace of a settled environment keeps it after a step.
LEMMA KeptStep ==
  ASSUME Sound, Quiet, Vols, KeptInv, [Next]_vars
  PROVE  KeptInv'
  <1>1. CASE UNCHANGED vars
    BY <1>1 DEF vars, KeptInv, Settled, Binds, At, Exists, Marked, Deleting
  <1>2. CASE Next
    <2>1. ASSUME NEW e \in Envs, Settled(e)', env'[e].vol \in Entries
          PROVE  env'[e].cid = env'[e].vol \/ ~Exists(env[e].vol)'
      BY <1>2, <2>1, SettledOwnStep
    <2>2. ASSUME NEW p \in Entries, NEW e \in Envs, Marked(p)', env'[e].vol = p, Binds(e)'
          PROVE  Exists(p)' \/ Deleting(e)'
      <3>0. p # Nothing /\ p \in Containers
        BY EnvironmentsAssumption DEF Containers
      <3>1. env[e].vol = p /\ (Binds(e) \/ Exists(p)')
        BY <1>2, <2>2, BindsBegins DEF Exists
      <3>2. CASE Binds(e) /\ ~Marked(p)
        <4>1. env[e].vol # p
          BY <1>2, <2>2, <3>2, MarksNobody DEF Binds, Quiet, HasRow
        <4> QED BY <3>1, <4>1
      <3>3. CASE Binds(e) /\ Marked(p)
        <4>1. Deleting(e) \/ (DeleteContainer /\ user.env = e) => Deleting(e)'
          BY <1>2, <2>2, <3>0, DeletingStays
        <4>2. Exists(p) \/ Deleting(e)
          BY <3>1, <3>3 DEF KeptInv
        <4>3. Exists(p) /\ ~Exists(p)' => DeleteContainer /\ user.env = e
          BY <1>2, <2>2, <3>0, <3>1, <3>3, Vanishes, BoundStays
        <4> QED BY <4>1, <4>2, <4>3
      <3> QED BY <3>1, <3>2, <3>3
    <2> QED BY <2>1, <2>2 DEF KeptInv
  <1> QED BY <1>1, <1>2

\* A volume goes when whoever drops it says so, and no container is on it.
LEMMA VolumeDropped ==
  ASSUME Sound, Next, NEW v \in Volumes, vol[v], ~vol'[v]
  PROVE  /\ ~InUse(v)
         /\ \/ \E d \in Envs : (Reset(d) \/ UndoStorage(d)) /\ creator[d].vol = v
            \/ v \in Envs /\ RunFailed(v)
            \/ DeleteStorage /\ user.vol = v
            \/ PruneVolume /\ fill.entry = v
            \/ GcRemove /\ gc.kind = "volume" /\ gc.name = v
  <1>0. vol \in [Volumes -> BOOLEAN]
    BY DEF Sound, Shape, Typed
  <1>1. vol' # vol
    OBVIOUS
  <1>2. \A w : DropVolume(w) => w = v /\ ~InUse(v)
    BY <1>1 DEF DropVolume
  <1>3. \A w : vol' # [vol EXCEPT ![w] = TRUE]
    BY <1>0
  <1>4. ASSUME NEW d \in Envs, CreateBegin(d) \/ Create(d)
        PROVE  /\ ~InUse(v)
               /\ \/ (Reset(d) \/ UndoStorage(d)) /\ creator[d].vol = v
                  \/ v \in Envs /\ RunFailed(v)
    <2>1. Reset(d) \/ UndoStorage(d) \/ RunFailed(d)
      BY <1>1, <1>3, <1>4 DEF CreateBegin, Create, Insert, NoNetwork, Acquire, Transfer, Unclaim, MakeVolume, RunCold,
         Run, Commit, UndoContainer, DropRow, Fail
    <2> QED BY <1>2, <2>1 DEF Reset, UndoStorage, RunFailed
  <1>5. Request => ~InUse(v) /\ DeleteStorage /\ user.vol = v
    <2>1. Request => DeleteStorage
      BY <1>1, <1>3 DEF Request, UserBegin, ExtendLease, LeaseExpires, User, StartHold, Hold, StartContainer, Run,
         StartCommit, StartUndo, StopContainer, StopWrite, DeleteContainer, DeleteRow
    <2> QED BY <1>2, <2>1 DEF DeleteStorage
  <1>6. CASE Elsewhere
    <2>1. PruneVolume \/ GcRemove
      BY <1>1, <1>3, <1>6 DEF Elsewhere, Reconcile, RecRead, RecFailStale, RecWatch, RecMark, RecInspect, RecRecheck,
         RecClaim, RecStop, UnchangedButRec, Refill, PruneRead, PruneInspect, Prune, FillStart, FillRun, Run,
         FillInsert, Collect, GcContainer, GcVolume, Exit, DockerPrune, Suspend, Reactivate, Sweep,
         SweepList, SweepStop, SweepWrite, SweepNext, UnchangedButSweep, Crash
    <2>2. PruneVolume => ~InUse(v) /\ fill.entry = v
      BY <1>2 DEF PruneVolume
    <2>3. GcRemove => ~InUse(v) /\ gc.kind = "volume" /\ gc.name = v
      BY <1>0, <1>1 DEF GcRemove
    <2> QED BY <2>1, <2>2, <2>3
  <1> QED BY <1>4, <1>5, <1>6, NextSplits

\* Refill, GC, suspensions and the creates of other environments leave the workspace of an environment
\* alone: once its create has succeeded it is removed by its Delete only. The exception is what an
\* operator has pruned the container of, after the refill or GC has listed it.
THEOREM WorkspacesAreKept == Spec => WorkspaceKept
  <1>1. Init => Quiet /\ KeptInv
    BY DEF Init, Quiet, RequestKnows, Settled, Absent, UserIdle, RecIdle, KeptInv, Binds, At, Idle
  <1>2. Sound /\ Quiet /\ Vols /\ KeptInv /\ [Next]_vars =>
          [\A e \in Envs : WorkspaceGoes(e) =>
             ItsDelete(e) \/ (fill.late /\ fill' = FillIdle) \/ (gc.late /\ gc' = GcIdle)]_vars
    <2> SUFFICES ASSUME Sound, Quiet, Vols, KeptInv, Next, NEW e \in Envs, Settled(e),
                        vol[env[e].vol], ~vol'[env[e].vol], ~Deleting(e),
                        ~(fill.late /\ fill' = FillIdle), ~(gc.late /\ gc' = GcIdle)
                 PROVE  FALSE
      BY DEF vars, Settled, Deleting, WorkspaceGoes, ItsDelete
    <2>0. /\ Envs \cap Containers = {} /\ Entries \subseteq Containers /\ env[e].vol \in Volumes \cup {Nothing}
          /\ env[e].vol # Nothing /\ UserFits /\ env[e].vol \in Holds(e)
          /\ \A d \in Envs : CreatorFits(d)
          /\ creator[e] = Idle /\ env[e].status \in {"running", "stopped"}
      BY EnvironmentsAssumption DEF Sound, Shape, Fits, Typed, EnvType, Vols, Quiet, HasRow, Holds, Containers
    <2>1. PICK v \in Volumes : v = env[e].vol
      BY <2>0
    <2>2. /\ \A d \in Envs : v \in Holds(d) => d = e
          /\ v \in Envs => v = e
      BY <2>0, <2>1 DEF Sound, OwnersInv, Apart
    <2>3. \A d \in Envs : ~((Reset(d) \/ UndoStorage(d)) /\ creator[d].vol = v)
      BY <2>0, <2>2 DEF Holds, Reset, UndoStorage, At, Idle
    <2>4. ~(v \in Envs /\ RunFailed(v))
      BY <2>0, <2>2 DEF RunFailed, At, Idle
    <2>5. ~(DeleteStorage /\ user.vol = v)
      BY <2>0, <2>2 DEF DeleteStorage, UserFits, Holds, Deleting
    <2>6. /\ ~InUse(v)
          /\ \/ PruneVolume /\ fill.entry = v /\ ~fill.late
             \/ gc.kind = "volume" /\ gc.name = v /\ ~gc.late
      <3>1. vol[v] /\ ~vol'[v]
        BY <2>1
      <3>2. (PruneVolume => fill' = FillIdle) /\ (GcRemove => gc' = GcIdle)
        BY DEF PruneVolume, GcRemove
      <3> QED BY <2>3, <2>4, <2>5, <3>1, <3>2, VolumeDropped
    <2>7. v \in Entries => Marked(v)
      BY <2>6 DEF Marked, PruneVolume
    <2>8. v \in Entries => Exists(v)
      BY <2>1, <2>7 DEF KeptInv, Binds
    <2>9. v \notin Entries
      BY <2>0, <2>6, <2>8 DEF InUse, Vols, Exists
    <2>10. v \in Envs /\ v = e
      BY <2>2, <2>9 DEF Volumes
    <2>11. gc.kind = "volume" /\ gc.name = e
      <3>1. PruneVolume => fill.entry \in Entries
        BY DEF PruneVolume, Sound, Shape, Fits, OthersFit
      <3> QED BY <2>6, <2>9, <2>10, <3>1
    <2> QED BY <2>0, <2>11 DEF Vols
  <1> QED BY <1>1, <1>2, QuietStep, VolsInit, VolsStep, KeptStep, SoundInit, SoundStep, PTL DEF Spec, WorkspaceKept

=============================================================================
