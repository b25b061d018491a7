------------------------ MODULE ServiceLifecycleProofs ------------------------
(***************************************************************************)
(* Facts about the service lifecycle for any number of services, workers   *)
(* and containers, with and without faults: the types, the circuit         *)
(* breaker's promise, mutual exclusion on a service, the closing of        *)
(* deployment rows and the routes of deleted services; and where the       *)
(* containers are: every container that exists is one that somebody knows  *)
(* of, and a suspension that was swept leaves nothing running.             *)
(***************************************************************************)
EXTENDS ServiceLifecycle, TLAPS
-----------------------------------------------------------------------------
(* What the helpers return. *)

\* Constant sets that the steps draw values from.
LEMMA Constants ==
  /\ Ids \subseteq Cids
  /\ NoCid \in Cids
  /\ Watched \subseteq Statuses
  /\ CrashThreshold \in 0..CrashThreshold
  /\ 0 \in 0..CrashThreshold
  BY LifecycleAssumption DEF Ids, Cids, NoCid, Watched, Statuses

\* Giving a service a new row keeps the type of the rows.
LEMMA SetRowType ==
  ASSUME row \in [Services -> RowType], NEW s, NEW r, s \in Services => r \in RowType
  PROVE  [row EXCEPT ![s] = r] \in [Services -> RowType]
  OBVIOUS

\* The same for a status alone.
LEMMA SetStatusType ==
  ASSUME row \in [Services -> RowType], NEW s, NEW st \in Statuses
  PROVE  [row EXCEPT ![s].status = st] \in [Services -> RowType]
  BY DEF RowType

\* The same for an operation.
LEMMA SetOpType ==
  ASSUME op \in [Workers -> OpType], NEW w \in Workers, NEW o \in OpType
  PROVE  [op EXCEPT ![w] = o] \in [Workers -> OpType]
  OBVIOUS

\* A status update keeps the type of the rows.
LEMMA WithStatusType ==
  ASSUME row \in [Services -> RowType], NEW s, NEW st \in Statuses
  PROVE  WithStatus(s, st) \in [Services -> RowType]
  BY SetStatusType DEF WithStatus

\* So does a compare-and-swap on the container id.
LEMMA CasClearType ==
  ASSUME row \in [Services -> RowType], NEW s, NEW c, NEW st \in Statuses
  PROVE  CasClear(s, c, st) \in [Services -> RowType]
  <1>1. s \in Services => [row[s] EXCEPT !.cid = NoCid, !.status = st] \in RowType
    BY Constants DEF RowType
  <1> QED BY <1>1, SetRowType DEF CasClear

\* Changing the state of one container keeps the type of docker.
LEMMA SetContainerType ==
  ASSUME docker \in [Services -> [Ids -> ContainerStates]], NEW s, NEW c, NEW st \in ContainerStates
  PROVE  [docker EXCEPT ![s][c] = st] \in [Services -> [Ids -> ContainerStates]]
  OBVIOUS

\* Removing containers keeps the type of docker.
LEMMA WithoutType ==
  ASSUME docker \in [Services -> [Ids -> ContainerStates]], NEW s, NEW C
  PROVE  Without(s, C) \in [Services -> [Ids -> ContainerStates]]
  <1>1. CASE s \in Services
    BY <1>1 DEF Without, ContainerStates
  <1>2. CASE s \notin Services
    BY <1>2 DEF Without
  <1> QED BY <1>1, <1>2

\* And so does a removal that fails half-way.
LEMMA HalfRemovedType ==
  ASSUME docker \in [Services -> [Ids -> ContainerStates]], NEW s, NEW c,
         NEW d \in HalfRemoved(s, c)
  PROVE  d \in [Services -> [Ids -> ContainerStates]]
  <1>1. CASE s \in Services
    BY <1>1 DEF HalfRemoved, ContainerStates
  <1>2. CASE s \notin Services
    BY <1>2 DEF HalfRemoved
  <1> QED BY <1>1, <1>2

\* A worker that moves to another step is still a worker.
LEMMA GotoType ==
  ASSUME op \in [Workers -> OpType], NEW w \in Workers, NEW pc \in Steps, Goto(w, pc)
  PROVE  op' \in [Workers -> OpType]
  BY DEF Goto, OpType

\* An idle worker is a worker.
LEMMA IdleType == Idle \in OpType
  BY Constants DEF Idle, OpType, Steps, Statuses

\* Returning and unlocking keep the types of the workers and of the locks.
LEMMA ReturnType ==
  ASSUME op \in [Workers -> OpType], lock \in [Services -> Workers \cup {Nobody}],
         NEW w \in Workers, Return(w)
  PROVE  /\ op' \in [Workers -> OpType]
         /\ lock' \in [Services -> Workers \cup {Nobody}]
  BY IdleType DEF Return

\* An idle reconciler is a reconciler.
LEMMA RecIdleType == RecIdle \in RecType
  BY Constants DEF RecIdle, RecType, RecSteps, Statuses

-----------------------------------------------------------------------------
(* Type correctness. *)

\* A worker that is busy has a service.
BusyHasService == \A w \in Workers : op[w].pc # "idle" => op[w].svc \in Services

\* A worker about to install or to discard a container has one.
NewContainer == \A w \in Workers : op[w].pc \in {"activate", "discard"} => op[w].new \in Ids

\* The initial state has the types.
LEMMA InitTypeOK == Init => TypeOK
  <1> SUFFICES ASSUME Init PROVE TypeOK
    OBVIOUS
  <1>1. row \in [Services -> RowType]
    BY Constants DEF Init, RowType, Statuses
  <1>2. docker \in [Services -> [Ids -> ContainerStates]]
    BY DEF Init, ContainerStates
  <1>3. sweep \in SweepType
    BY Constants DEF Init, SweepType, SweepIdle
  <1>4. op \in [Workers -> OpType] /\ rec \in RecType
    BY IdleType, RecIdleType DEF Init
  <1>5. leaked \in [Services -> SUBSET Ids]
    BY DEF Init
  <1> QED BY <1>1, <1>2, <1>3, <1>4, <1>5 DEF Init, TypeOK

\* The steps at which an operation may find itself when it has the lock.
Entries == {"reject", "mark", "dstart", "dstop", "remove"}

\* Who gets the lock finds it free and the service there; who does not returns.
LEMMA LockServiceEnters ==
  ASSUME NEW w \in Workers, LockService(w)
  PROVE  \/ Return(w)
         \/ /\ Present(op[w].svc)
            /\ lock[op[w].svc] = Nobody
            /\ \E pc \in Entries : Enter(w, pc)
  BY Zenon DEF LockService, LockFree, Entries

\* The steps at which an operation is admitted or refused keep the types.
LEMMA AdmissionTypeOK ==
  ASSUME TypeOK, BusyHasService, NEW w \in Workers,
         CheckAgain(w) \/ Reject(w) \/ LockService(w)
  PROVE  TypeOK'
  <1>1. CASE CheckAgain(w)
    <2>1. ASSUME NEW pc \in Admitted(w, "rdeploy"), Goto(w, pc), UNCHANGED lock PROVE TypeOK'
      <3>1. pc \in Steps
        BY <2>1 DEF Admitted, Steps
      <3> QED BY <1>1, <2>1, <3>1, GotoType DEF CheckAgain, TypeOK
    <2>2. CASE Return(w)
      BY <1>1, <2>2, ReturnType DEF CheckAgain, TypeOK
    <2> QED BY <1>1, <2>1, <2>2 DEF CheckAgain
  <1>2. CASE Reject(w)
    <2>1. row' \in [Services -> RowType]
      BY <1>2, WithStatusType DEF Reject, TypeOK, Statuses
    <2> QED BY <1>2, <2>1, ReturnType DEF Reject, TypeOK
  <1>3. CASE LockService(w)
    <2>1. CASE Return(w)
      BY <1>3, <2>1, ReturnType DEF LockService, TypeOK
    <2>2. ASSUME NEW pc \in Entries, Enter(w, pc) PROVE TypeOK'
      <3>1. row[op[w].svc] \in RowType
        BY <1>3 DEF LockService, At, TypeOK, BusyHasService
      <3>2. row[op[w].svc].cid \in Cids /\ row[op[w].svc].status \in Statuses /\ pc \in Steps
        BY <3>1 DEF RowType, Entries, Steps
      <3>3. op' \in [Workers -> OpType]
        <4>1. op[w] \in OpType
          BY DEF TypeOK
        <4>2. [op[w] EXCEPT !.pc = pc, !.cid = row[op[w].svc].cid,
                 !.was = IF op[w].kind = "restart" THEN row[op[w].svc].status ELSE op[w].was] \in OpType
          BY <3>2, <4>1 DEF OpType
        <4> QED BY <2>2, <4>2 DEF TypeOK, Enter
      <3>4. lock' \in [Services -> Workers \cup {Nobody}]
        BY <2>2 DEF TypeOK, Enter
      <3> QED BY <1>3, <3>3, <3>4 DEF LockService, TypeOK
    <2> QED BY <1>3, <2>1, <2>2, LockServiceEnters DEF Enter
  <1> QED BY <1>1, <1>2, <1>3

\* FailDeployment keeps the types of what it changes.
LEMMA FailDeploymentType ==
  ASSUME TypeOK, NEW w \in Workers, FailDeployment(w)
  PROVE  /\ row' \in [Services -> RowType]
         /\ open' \in [Workers -> BOOLEAN]
         /\ op' \in [Workers -> OpType]
         /\ lock' \in [Services -> Workers \cup {Nobody}]
  BY WithStatusType, ReturnType DEF FailDeployment, Close, TypeOK, Statuses

\* The steps of a deploy up to the new container keep the types.
LEMMA DeployTypeOK ==
  ASSUME TypeOK, BusyHasService, NEW w \in Workers,
         Mark(w) \/ Prep(w) \/ Teardown(w) \/ Clear(w) \/ Recheck(w)
  PROVE  TypeOK'
  <1> USE DEF TypeOK
  <1>0. op[w] \in OpType
    OBVIOUS
  <1>1. CASE Mark(w)
    <2>1. {"teardown", "prep"} \subseteq Steps /\ MarkStatus(w) \in Statuses /\ "failed" \in Statuses
      BY DEF Steps, MarkStatus, Statuses
    <2>2. row' \in [Services -> RowType]
      BY <1>1, <2>1, WithStatusType DEF Mark
    <2>3. op' \in [Workers -> OpType] /\ lock' \in [Services -> Workers \cup {Nobody}]
      <3>1. CASE Return(w)
        BY <3>1, ReturnType
      <3>2. CASE \E pc \in Steps : Goto(w, pc) /\ UNCHANGED lock
        BY <3>2, GotoType
      <3> QED BY <1>1, <2>1, <3>1, <3>2 DEF Mark
    <2>4. open' \in [Workers -> BOOLEAN]
      BY <1>1 DEF Mark, Close
    <2> QED BY <1>1, <2>2, <2>3, <2>4 DEF Mark
  <1>2. CASE Prep(w)
    <2>1. CASE FailDeployment(w)
      BY <1>2, <2>1, FailDeploymentType DEF Prep
    <2>2. CASE /\ op' = [op EXCEPT ![w] = [op[w] EXCEPT !.pc = "teardown",
                                                       !.cid = row[op[w].svc].cid]]
               /\ UNCHANGED <<row, open, lock>>
      <3>1. row[op[w].svc].cid \in Cids
        BY <1>2 DEF Prep, At, BusyHasService, RowType
      <3>2. [op[w] EXCEPT !.pc = "teardown", !.cid = row[op[w].svc].cid] \in OpType
        BY <1>0, <3>1 DEF OpType, Steps
      <3>3. op' \in [Workers -> OpType]
        BY <2>2, <3>2, SetOpType
      <3> QED BY <1>2, <2>2, <3>3 DEF Prep
    <2> QED BY <1>2, <2>1, <2>2 DEF Prep
  <1>3. CASE Teardown(w)
    <2>1. docker' \in [Services -> [Ids -> ContainerStates]]
      BY <1>3, WithoutType, HalfRemovedType DEF Teardown
    <2>2. CASE Goto(w, "clear") /\ UNCHANGED <<row, open, lock>>
      <3>1. op' \in [Workers -> OpType]
        BY <2>2, GotoType DEF Steps
      <3> QED BY <1>3, <2>1, <2>2, <3>1 DEF Teardown
    <2>3. CASE FailDeployment(w)
      BY <1>3, <2>1, <2>3, FailDeploymentType DEF Teardown
    <2>4. CASE /\ Close(w)
               /\ Return(w)
               /\ \/ row' = row
                  \/ row' = [row EXCEPT ![op[w].svc].status = op[w].was]
      <3>1. op[w].was \in Statuses
        BY DEF OpType
      <3>2. row' \in [Services -> RowType]
        BY <2>4, <3>1, SetStatusType
      <3> QED BY <1>3, <2>1, <2>4, <3>2, ReturnType DEF Teardown, Close
    <2> QED BY <1>3, <2>2, <2>3, <2>4 DEF Teardown
  <1>4. CASE Clear(w)
    <2>1. op' \in [Workers -> OpType]
      <3>1. [op[w] EXCEPT !.pc = "recheck", !.cid = NoCid, !.was = Idle.was] \in OpType
        BY <1>0, Constants DEF OpType, Steps, Idle, Statuses
      <3> QED BY <1>4, <3>1, SetOpType DEF Clear
    <2>2. CASE DeployPath(w)
      <3>1. CASE op[w].svc \in Services
        <4>1. row[op[w].svc].status \in Statuses
          BY <3>1 DEF RowType
        <4> QED BY <1>4, <2>1, <2>2, <4>1, CasClearType DEF Clear
      <3> QED BY <1>4, <3>1 DEF Clear, At, BusyHasService
    <2>3. CASE ~DeployPath(w)
      <3>1. row' \in [Services -> RowType]
        <4>1. op[w].svc \in Services =>
                [row[op[w].svc] EXCEPT !.cid = NoCid, !.status = "restarting"] \in RowType
          BY Constants DEF RowType, Statuses
        <4> QED BY <1>4, <2>3, <4>1, SetRowType DEF Clear
      <3> QED BY <1>4, <2>1, <3>1 DEF Clear
    <2> QED BY <2>2, <2>3
  <1>5. CASE Recheck(w)
    <2>1. CASE FailDeployment(w)
      BY <1>5, <2>1, FailDeploymentType DEF Recheck
    <2>2. CASE Goto(w, "run") /\ UNCHANGED <<row, open, lock>>
      BY <1>5, <2>2, GotoType DEF Recheck, Steps
    <2>3. CASE Close(w) /\ Return(w) /\ UNCHANGED row
      BY <1>5, <2>3, ReturnType DEF Recheck, Close
    <2> QED BY <1>5, <2>1, <2>2, <2>3 DEF Recheck
  <1> QED BY <1>1, <1>2, <1>3, <1>4, <1>5

\* The steps from the new container to the end of a deploy keep the types.
LEMMA RunTypeOK ==
  ASSUME TypeOK, BusyHasService, NewContainer, NEW w \in Workers,
         Run(w) \/ Activate(w) \/ Discard(w) \/ WriteRoute(w)
  PROVE  TypeOK'
  <1> USE DEF TypeOK
  <1>0. op[w] \in OpType
    OBVIOUS
  <1>1. CASE Run(w)
    <2>1. route' \in [Services -> BOOLEAN]
      BY <1>1 DEF Run
    <2> DEFINE s == op[w].svc
    <2>2. docker' \in [Services -> [Ids -> ContainerStates]]
      <3>1. CASE docker' = docker
        BY <3>1
      <3>2. ASSUME NEW c \in Ids, NEW st \in {"running", "exited"}, docker' = [docker EXCEPT ![s][c] = st]
            PROVE  docker' \in [Services -> [Ids -> ContainerStates]]
        BY <3>2, SetContainerType DEF ContainerStates
      <3> QED BY <1>1, <3>1, <3>2 DEF Run, Fresh
    <2>3. leaked' \in [Services -> SUBSET Ids]
      <3>1. \A c \in Ids : [leaked EXCEPT ![s] = @ \cup {c}] \in [Services -> SUBSET Ids]
        OBVIOUS
      <3>2. leaked' = leaked \/ \E c \in Ids : leaked' = [leaked EXCEPT ![s] = @ \cup {c}]
        BY <1>1 DEF Run, Fresh
      <3> QED BY <3>1, <3>2
    <2>4. CASE FailDeployment(w)
      BY <1>1, <2>1, <2>2, <2>3, <2>4, FailDeploymentType DEF Run
    <2>5. CASE UNCHANGED <<row, open, lock>>
               /\ \E c \in Ids : op' = [op EXCEPT ![w] = [op[w] EXCEPT !.pc = "activate", !.new = c]]
      <3>1. \A c \in Ids : [op[w] EXCEPT !.pc = "activate", !.new = c] \in OpType
        BY <1>0, Constants DEF OpType, Steps
      <3>2. op' \in [Workers -> OpType]
        BY <2>5, <3>1, SetOpType
      <3> QED BY <1>1, <2>1, <2>2, <2>3, <2>5, <3>2 DEF Run
    <2> QED BY <1>1, <2>4, <2>5 DEF Run, Fresh
  <1>2. CASE Activate(w)
    <2>1. row' \in [Services -> RowType]
      <3>1. op[w].svc \in Services =>
              [row[op[w].svc] EXCEPT !.status = "running", !.cid = op[w].new] \in RowType
        <4>1. op[w].new \in Cids /\ "running" \in Statuses
          BY <1>0 DEF OpType, Statuses, Watched
        <4> QED BY <4>1 DEF RowType
      <3> QED BY <1>2, <3>1, SetRowType DEF Activate
    <2>2. op' \in [Workers -> OpType]
      <3>1. [op[w] EXCEPT !.pc = "discard", !.interrupted = TRUE] \in OpType
        BY <1>0 DEF OpType, Steps
      <3>2. {"route", "discard"} \subseteq Steps
        BY DEF Steps
      <3>3. CASE \E pc \in Steps : Goto(w, pc)
        BY <3>3, GotoType
      <3> QED BY <1>2, <3>1, <3>2, <3>3, SetOpType DEF Activate
    <2>3. open' \in [Workers -> BOOLEAN]
      BY <1>2 DEF Activate, Close
    <2> QED BY <1>2, <2>1, <2>2, <2>3 DEF Activate
  <1>3. CASE Discard(w)
    <2>1. row' \in [Services -> RowType]
      BY <1>3, WithStatusType DEF Discard, Statuses
    <2>2. docker' \in [Services -> [Ids -> ContainerStates]]
      BY <1>3, WithoutType, HalfRemovedType DEF Discard
    <2>3. leaked' \in [Services -> SUBSET Ids]
      <3>1. op[w].new \in Ids
        BY <1>3 DEF Discard, At, NewContainer
      <3>2. leaked' = leaked \/ leaked' = [leaked EXCEPT ![op[w].svc] = @ \cup {op[w].new}]
        BY <1>3 DEF Discard
      <3> QED BY <3>1, <3>2
    <2>4. route' \in [Services -> BOOLEAN] /\ open' \in [Workers -> BOOLEAN]
      BY <1>3 DEF Discard, Close
    <2> QED BY <1>3, <2>1, <2>2, <2>3, <2>4, ReturnType DEF Discard
  <1>4. CASE WriteRoute(w)
    <2>1. route' \in [Services -> BOOLEAN]
      BY <1>4 DEF WriteRoute
    <2> QED BY <1>4, <2>1, ReturnType DEF WriteRoute
  <1> QED BY <1>1, <1>2, <1>3, <1>4

\* The steps of Start, Stop, Delete and ResetCircuitBreaker keep the types.
LEMMA StartStopTypeOK ==
  ASSUME TypeOK, BusyHasService, NEW w \in Workers,
         \/ StartContainer(w) \/ RestoreStarted(w) \/ StartWrite(w)
         \/ StopContainer(w) \/ StopWrite(w) \/ RemoveAll(w) \/ Erase(w)
  PROVE  TypeOK'
  <1> USE DEF TypeOK
  <1>0. {"restore", "startwrite", "stopwrite", "erase"} \subseteq Steps
        /\ {"running", "stopped"} \subseteq Statuses
    BY DEF Steps, Statuses, Watched
  <1>1. CASE StartContainer(w)
    <2>1. row' \in [Services -> RowType]
      BY <1>0, <1>1, CasClearType DEF StartContainer
    <2>2. docker' \in [Services -> [Ids -> ContainerStates]]
      BY <1>1 DEF StartContainer, ContainerStates
    <2>3. CASE Goto(w, "restore") /\ UNCHANGED lock
      BY <1>0, <1>1, <2>1, <2>2, <2>3, GotoType DEF StartContainer
    <2>4. CASE Return(w)
      BY <1>1, <2>1, <2>2, <2>4, ReturnType DEF StartContainer
    <2> QED BY <1>1, <2>3, <2>4 DEF StartContainer
  <1>2. CASE RestoreStarted(w)
    <2>1. route' \in [Services -> BOOLEAN]
      BY <1>2 DEF RestoreStarted
    <2>2. docker' \in [Services -> [Ids -> ContainerStates]]
      BY <1>2, HalfRemovedType DEF RestoreStarted
    <2>3. CASE Goto(w, "startwrite") /\ UNCHANGED lock
      BY <1>0, <1>2, <2>1, <2>2, <2>3, GotoType DEF RestoreStarted
    <2>4. CASE Return(w)
      BY <1>2, <2>1, <2>2, <2>4, ReturnType DEF RestoreStarted
    <2> QED BY <1>2, <2>3, <2>4 DEF RestoreStarted
  <1>3. CASE StartWrite(w)
    BY <1>0, <1>3, WithStatusType, ReturnType DEF StartWrite
  <1>4. CASE StopContainer(w)
    <2>1. row' \in [Services -> RowType]
      BY <1>0, <1>4, CasClearType DEF StopContainer
    <2>2. docker' \in [Services -> [Ids -> ContainerStates]]
      BY <1>4 DEF StopContainer, ContainerStates
    <2>3. CASE Goto(w, "stopwrite") /\ UNCHANGED lock
      BY <1>0, <1>4, <2>1, <2>2, <2>3, GotoType DEF StopContainer
    <2>4. CASE Return(w)
      BY <1>4, <2>1, <2>2, <2>4, ReturnType DEF StopContainer
    <2> QED BY <1>4, <2>3, <2>4 DEF StopContainer
  <1>5. CASE StopWrite(w)
    BY <1>0, <1>5, WithStatusType, ReturnType DEF StopWrite
  <1>6. CASE RemoveAll(w)
    <2>1. route' \in [Services -> BOOLEAN]
      BY <1>6 DEF RemoveAll
    <2>2. docker' \in [Services -> [Ids -> ContainerStates]]
      BY <1>6, WithoutType, HalfRemovedType DEF RemoveAll
    <2>3. CASE Goto(w, "erase") /\ UNCHANGED lock
      BY <1>0, <1>6, <2>1, <2>2, <2>3, GotoType DEF RemoveAll
    <2>4. CASE Return(w)
      BY <1>6, <2>1, <2>2, <2>4, ReturnType DEF RemoveAll
    <2> QED BY <1>6, <2>3, <2>4 DEF RemoveAll
  <1>7. CASE Erase(w)
    <2>1. \A st \in {"deleted", "stopped"} :
            [status |-> st, cid |-> NoCid, circuit |-> FALSE, crash |-> 0] \in RowType
      BY Constants DEF RowType, Statuses
    <2>2. row' \in [Services -> RowType]
      BY <1>7, <2>1, SetRowType DEF Erase
    <2> QED BY <1>7, <2>2, ReturnType DEF Erase
  <1> QED BY <1>1, <1>2, <1>3, <1>4, <1>5, <1>6, <1>7

\* The steps of the reconciler keep the types.
LEMMA ReconcilerTypeOK ==
  ASSUME TypeOK, Reconcile \/ RecoverStale
  PROVE  TypeOK'
  <1> USE DEF TypeOK, UnchangedButRecRow
  <1>0. /\ rec.svc \in Services \cup {"none"} /\ rec.cid \in Cids /\ rec.was \in Statuses
        /\ rec.crash \in 0..CrashThreshold
    BY DEF RecType
  <1>1. \A pc \in RecSteps : RecGoto(pc) => rec' \in RecType
    BY <1>0, Constants, RecIdleType DEF RecGoto, RecType, RecIdle, Statuses
  <1>2. {"trip", "open", "restart", "again", "undo"} \subseteq RecSteps
    BY DEF RecSteps
  <1>3. {"running", "stopped", "failed", "crashed"} \subseteq Statuses
    BY DEF Statuses, Watched
  <1>4. ASSUME NEW s \in Services, RecWatch(s) PROVE TypeOK'
    <2>1. row[s] \in RowType
      OBVIOUS
    <2>2. rec' \in RecType
      BY <1>4, <2>1 DEF RecWatch, RecType, RowType, RecSteps
    <2> QED BY <1>4, <2>2 DEF RecWatch
  <1>5. CASE RecInspect
    <2>1. ASSUME NEW why \in {"down", "restarts", "unhealthy"},
                 rec' = [rec EXCEPT !.pc = "record", !.why = why]
          PROVE  rec' \in RecType
      BY <2>1 DEF RecType, RecSteps
    <2>2. [rec EXCEPT !.pc = "recover"] \in RecType
      BY DEF RecType, RecSteps
    <2>3. rec' \in RecType
      BY <1>1, <1>2, <1>5, <2>1, <2>2, RecIdleType DEF RecInspect
    <2> QED BY <1>5, <2>3 DEF RecInspect
  <1>6. CASE RecRecord
    <2>1. rec' \in RecType
      <3>1. rec' = RecIdle \/ RecGoto("trip") \/ RecGoto("restart")
        BY <1>6 DEF RecRecord
      <3> QED BY <1>1, <1>2, <3>1, RecIdleType
    <2>2. row' \in [Services -> RowType]
      <3>1. ASSUME NEW n \in Counted,
                   row' = [row EXCEPT ![rec.svc] = [row[rec.svc] EXCEPT !.status = "crashed", !.crash = Tally(n)]]
            PROVE  row' \in [Services -> RowType]
        <4>1. n \in Nat
          BY <1>0, LifecycleAssumption DEF Counted
        <4>2. Tally(n) \in 0..CrashThreshold
          BY <4>1, LifecycleAssumption DEF Tally
        <4>3. rec.svc \in Services => row[rec.svc] \in RowType
          OBVIOUS
        <4>4. rec.svc \in Services =>
                [row[rec.svc] EXCEPT !.status = "crashed", !.crash = Tally(n)] \in RowType
          BY <1>3, <4>2, <4>3 DEF RowType
        <4> QED BY <3>1, <4>4, SetRowType
      <3>2. CASE UNCHANGED row
        BY <3>2
      <3> QED BY <1>6, <3>1, <3>2 DEF RecRecord
    <2> QED BY <1>6, <2>1, <2>2 DEF RecRecord
  <1>7. CASE RecRecover
    <2>1. row' \in [Services -> RowType]
      BY <1>3, <1>7, SetStatusType DEF RecRecover
    <2> QED BY <1>7, <2>1, RecIdleType DEF RecRecover
  <1>8. CASE RecTrip
    <2>1. docker' \in [Services -> [Ids -> ContainerStates]]
      BY <1>8, WithoutType, HalfRemovedType DEF RecTrip
    <2>2. rec' \in RecType
      BY <1>1, <1>2, <1>8, RecIdleType DEF RecTrip
    <2> QED BY <1>8, <2>1, <2>2 DEF RecTrip
  <1>9. CASE RecOpen
    <2>1. rec.svc \in Services => [row[rec.svc] EXCEPT !.circuit = TRUE, !.cid = NoCid] \in RowType
      BY Constants DEF RowType
    <2>2. row' \in [Services -> RowType]
      BY <1>9, <2>1, SetRowType DEF RecOpen
    <2> QED BY <1>9, <2>2, RecIdleType DEF RecOpen
  <1>10. CASE RecRestart
    <2>1. docker' \in [Services -> [Ids -> ContainerStates]]
      <3>1. CASE docker' = [docker EXCEPT ![rec.svc][rec.cid] = "running"]
        BY <3>1, SetContainerType DEF ContainerStates
      <3>2. CASE docker' = docker
        BY <3>2
      <3> QED BY <1>10, <3>1, <3>2 DEF RecRestart
    <2>2. rec' \in RecType
      BY <1>1, <1>2, <1>10, RecIdleType DEF RecRestart
    <2> QED BY <1>10, <2>1, <2>2 DEF RecRestart
  <1>11. CASE RecAgain
    BY <1>1, <1>2, <1>11, RecIdleType DEF RecAgain
  <1>12. CASE RecUndo
    <2>1. docker' \in [Services -> [Ids -> ContainerStates]]
      <3>1. CASE docker' = [docker EXCEPT ![rec.svc][rec.cid] = IF @ = "running" THEN "exited" ELSE @]
        BY <3>1 DEF ContainerStates
      <3>2. CASE docker' = docker
        BY <3>2
      <3> QED BY <1>12, <3>1, <3>2 DEF RecUndo
    <2> QED BY <1>12, <2>1, RecIdleType DEF RecUndo
  <1>13. ASSUME NEW s \in Services, RecoverCircuit(s) \/ FailStaleDeploy(s) \/ RecoverStaleRestart(s)
         PROVE  TypeOK'
    <2>1. [row[s] EXCEPT !.circuit = FALSE, !.crash = 0, !.status = "stopped"] \in RowType
      BY <1>3, Constants DEF RowType
    <2>2. row' \in [Services -> RowType]
      <3>1. CASE RecoverCircuit(s)
        BY <2>1, <3>1, SetRowType DEF RecoverCircuit
      <3>2. CASE FailStaleDeploy(s)
        BY <1>3, <3>2, SetStatusType DEF FailStaleDeploy
      <3>3. CASE RecoverStaleRestart(s)
        <4>1. (IF row[s].cid # NoCid THEN "running" ELSE "failed") \in Statuses
          BY <1>3
        <4> QED BY <3>3, <4>1, SetStatusType DEF RecoverStaleRestart
      <3> QED BY <1>13, <3>1, <3>2, <3>3
    <2> QED BY <1>13, <2>2 DEF RecoverCircuit, FailStaleDeploy, RecoverStaleRestart
  <1> QED BY <1>4, <1>5, <1>6, <1>7, <1>8, <1>9, <1>10, <1>11, <1>12, <1>13 DEF Reconcile, RecoverStale

\* The steps of StopAllForTenant keep the types.
LEMMA SweepTypeOK ==
  ASSUME TypeOK, Sweep
  PROVE  TypeOK'
  <1> USE DEF TypeOK
  <1>0. {"stopped", "failed"} \subseteq Statuses
    BY DEF Statuses
  <1>1. CASE SweepLabel
    <2>1. [s \in Services |-> Without(s, Ids)[s]] \in [Services -> [Ids -> ContainerStates]]
      BY WithoutType
    <2>2. sweep' \in SweepType
      BY <1>1 DEF SweepLabel, SweepType
    <2> QED BY <1>1, <2>1, <2>2 DEF SweepLabel
  <1>2. CASE SweepRows
    <2>1. [s \in Services |-> row[s].cid] \in [Services -> Cids]
      BY DEF RowType
    <2>2. sweep' \in SweepType
      BY <1>2, <2>1 DEF SweepRows, SweepType
    <2> QED BY <1>2, <2>2 DEF SweepRows
  <1>3. CASE SweepClear
    <2>1. sweep' \in SweepType
      BY <1>3 DEF SweepClear, SweepType
    <2>2. row' \in [Services -> RowType]
      BY <1>0, <1>3, CasClearType DEF SweepClear
    <2> QED BY <1>3, <2>1, <2>2 DEF SweepClear
  <1>4. CASE SweepDone
    <2>1. SweepIdle \in SweepType
      BY Constants DEF SweepIdle, SweepType
    <2> QED BY <1>4, <2>1 DEF SweepDone
  <1>5. ASSUME NEW s \in Services, SweepStop(s) PROVE TypeOK'
    <2> DEFINE c == sweep.cid[s]
               next == [sweep EXCEPT !.todo = @ \ {s}]
    <2>1. c \in Cids
      BY DEF SweepType
    <2>2. next \in SweepType /\ [next EXCEPT !.pc = "clear", !.svc = s] \in SweepType
      BY DEF SweepType
    <2>3. sweep' \in SweepType
      BY <1>5, <2>2 DEF SweepStop
    <2>4. docker' \in [Services -> [Ids -> ContainerStates]]
      BY <1>5, WithoutType, HalfRemovedType DEF SweepStop
    <2>5. row' \in [Services -> RowType]
      BY <1>0, <1>5, WithStatusType DEF SweepStop
    <2>6. leaked' \in [Services -> SUBSET Ids]
      <3>1. CASE c # NoCid /\ leaked' = [leaked EXCEPT ![s] = @ \cup {c}]
        BY <2>1, <3>1 DEF Cids
      <3>2. CASE leaked' = leaked
        BY <3>2
      <3> QED BY <1>5, <3>1, <3>2 DEF SweepStop
    <2> QED BY <1>5, <2>3, <2>4, <2>5, <2>6 DEF SweepStop
  <1> QED BY <1>1, <1>2, <1>3, <1>4, <1>5 DEF Sweep

\* What happens outside the operations keeps the types.
LEMMA WorldTypeOK ==
  ASSUME TypeOK,
         \/ \E s \in Services : Create(s)
         \/ \E w \in Workers, k \in Kinds, s \in Services : Begin(w, k, s)
         \/ Suspend \/ Reactivate
         \/ \E s \in Services, c \in Ids : ContainerExit(s, c)
         \/ Crash
  PROVE  TypeOK'
  <1> USE DEF TypeOK
  <1>1. ASSUME NEW s \in Services, Create(s) PROVE TypeOK'
    <2>1. row' \in [Services -> RowType]
      BY <1>1, SetStatusType DEF Create, Statuses
    <2> QED BY <1>1, <2>1 DEF Create
  <1>2. ASSUME NEW w \in Workers, NEW k \in Kinds, NEW s \in Services, Begin(w, k, s) PROVE TypeOK'
    <2>1. ASSUME NEW kind \in AllKinds \cup {"rdeploy"}, NEW pc \in Steps
          PROVE  [Idle EXCEPT !.kind = kind, !.svc = s, !.pc = pc] \in OpType
      BY Constants DEF Idle, OpType, Statuses
    <2>2. Admitted(w, k) \subseteq Steps /\ "check" \in Steps /\ k \in AllKinds
      BY LifecycleAssumption DEF Admitted, Steps
    <2>3. \E kind \in AllKinds \cup {"rdeploy"}, pc \in Steps : Goes(w, s, kind, pc)
      BY <1>2, <2>2 DEF Begin
    <2>4. ASSUME NEW kind \in AllKinds \cup {"rdeploy"}, NEW pc \in Steps, Goes(w, s, kind, pc)
          PROVE  op' \in [Workers -> OpType]
      BY <2>1, <2>4, SetOpType DEF Goes
    <2>5. op' \in [Workers -> OpType]
      BY <2>3, <2>4, Zenon
    <2> QED BY <1>2, <2>5 DEF Begin
  <1>3. CASE Suspend
    <2>1. sweep' \in SweepType
      BY <1>3, Constants DEF Suspend, SweepIdle, SweepType
    <2> QED BY <1>3, <2>1 DEF Suspend
  <1>4. CASE Reactivate
    BY <1>4 DEF Reactivate
  <1>5. ASSUME NEW s \in Services, NEW c \in Ids, ContainerExit(s, c) PROVE TypeOK'
    <2>1. docker' \in [Services -> [Ids -> ContainerStates]]
      BY <1>5, SetContainerType DEF ContainerExit, ContainerStates
    <2> QED BY <1>5, <2>1 DEF ContainerExit
  <1>6. CASE Crash
    <2>1. sweep' \in SweepType
      BY <1>6, Constants DEF Crash, SweepIdle, SweepType
    <2>2. op' \in [Workers -> OpType] /\ rec' \in RecType
      BY <1>6, IdleType, RecIdleType DEF Crash
    <2>3. leaked' \in [Services -> SUBSET Ids]
      <3>1. \A w \in Workers : op[w].new # NoCid => op[w].new \in Ids
        BY DEF OpType, Cids
      <3> QED BY <1>6, <3>1 DEF Crash
    <2> QED BY <1>6, <2>1, <2>2, <2>3 DEF Crash
  <1> QED BY <1>1, <1>2, <1>3, <1>4, <1>5, <1>6

-----------------------------------------------------------------------------
(* How a worker advances. *)

\* The steps a worker takes under the lock of its service, and those of them at which a deploy
\* or a restart takes the old container down and brings the new one up.
Working == {"prep", "teardown", "clear", "recheck", "run", "activate"}
Locked == Working \cup {"mark", "discard", "route", "dstart", "restore", "startwrite", "dstop",
                        "stopwrite", "remove", "erase"}

\* Within an operation the service, the kind and the locks stay what they are.
Proceeds(w) ==
  /\ op[w].pc # "idle"
  /\ \/ op[w].pc = "check" /\ op'[w].pc \in {"lock", "reject"}
     \/ op[w].pc \in Locked \ {"erase"} /\ op'[w].pc \in Locked
  /\ op'[w].svc = op[w].svc
  /\ op'[w].kind = op[w].kind
  /\ op'[w].pc \in {"activate", "discard"} => op'[w].new \in Ids
  /\ UNCHANGED lock

\* A worker returns, is given the lock, or goes on with its operation; the others stand still.
Advance(w) ==
  /\ \A v \in Workers \ {w} : op'[v] = op[v]
  /\ \/ Return(w)
     \/ /\ op[w].pc = "lock"
        /\ Present(op[w].svc)
        /\ lock[op[w].svc] = Nobody
        /\ \E pc \in Entries : Enter(w, pc)
     \/ Proceeds(w)

\* A worker that returns advances.
LEMMA ReturnAdvance ==
  ASSUME op \in [Workers -> OpType], NEW w \in Workers, Return(w)
  PROVE  Advance(w)
  BY DEF Return, Advance

\* A worker that moves on under the lock, to a step without a new container, advances.
LEMMA GotoAdvance ==
  ASSUME op \in [Workers -> OpType], NEW w \in Workers, NEW pc \in Locked \ {"activate", "discard"},
         op[w].pc \in Locked \ {"erase"}, UNCHANGED lock, Goto(w, pc)
  PROVE  Advance(w)
  <1>1. op[w] \in OpType
    OBVIOUS
  <1>2. Proceeds(w)
    BY <1>1 DEF Goto, Proceeds, OpType, Locked, Working
  <1>3. \A v \in Workers \ {w} : op'[v] = op[v]
    BY DEF Goto
  <1> QED BY <1>2, <1>3 DEF Advance

\* The same for an operation whose record changes in some other field too.
LEMMA RecordAdvance ==
  ASSUME op \in [Workers -> OpType], NEW w \in Workers, NEW o, op' = [op EXCEPT ![w] = o],
         o.svc = op[w].svc, o.kind = op[w].kind, o.pc \in Locked,
         o.pc \in {"activate", "discard"} => o.new \in Ids,
         op[w].pc \in Locked \ {"erase"}, UNCHANGED lock
  PROVE  Advance(w)
  <1>1. Proceeds(w)
    BY DEF Proceeds, Locked, Working
  <1>2. \A v \in Workers \ {w} : op'[v] = op[v]
    OBVIOUS
  <1> QED BY <1>1, <1>2 DEF Advance

\* Every step of an operation advances its worker.
LEMMA OperateAdvance ==
  ASSUME TypeOK, NewContainer, NEW w \in Workers, Operate(w)
  PROVE  Advance(w)
  <1>0. op \in [Workers -> OpType] /\ op[w] \in OpType
    BY DEF TypeOK
  <1>1. CASE Return(w)
    BY <1>0, <1>1, ReturnAdvance
  <1>2. ASSUME NEW pc \in Locked \ {"activate", "discard"},
               op[w].pc \in Locked \ {"erase"}, UNCHANGED lock, Goto(w, pc)
        PROVE  Advance(w)
    BY <1>0, <1>2, GotoAdvance
  <1> USE DEF At, FailDeployment, Locked, Working
  <1>3. CASE CheckAgain(w)
    <2>1. ASSUME NEW pc \in {"lock", "reject"}, Goto(w, pc), UNCHANGED lock
          PROVE  Advance(w)
      <3>1. Proceeds(w)
        BY <1>0, <1>3, <2>1 DEF Goto, Proceeds, OpType, CheckAgain
      <3> QED BY <2>1, <3>1 DEF Advance, Goto
    <2> QED BY <1>1, <1>3, <2>1 DEF CheckAgain, Admitted
  <1>4. CASE Reject(w) \/ StartWrite(w) \/ StopWrite(w) \/ Erase(w) \/ WriteRoute(w) \/ Discard(w)
    BY <1>1, <1>4 DEF Reject, StartWrite, StopWrite, Erase, WriteRoute, Discard
  <1>5. CASE LockService(w)
    <2>1. op[w].pc = "lock"
      BY <1>5 DEF LockService
    <2>2. \/ Return(w)
          \/ /\ Present(op[w].svc)
             /\ lock[op[w].svc] = Nobody
             /\ \E pc \in Entries : Enter(w, pc)
      BY <1>5, LockServiceEnters
    <2>3. CASE \E pc \in Entries : Enter(w, pc)
      <3>1. \A v \in Workers \ {w} : op'[v] = op[v]
        BY <2>3 DEF Enter
      <3> QED BY <1>1, <2>1, <2>2, <2>3, <3>1 DEF Advance
    <2> QED BY <1>1, <2>2, <2>3
  <1>6. CASE Mark(w)
    BY <1>1, <1>2, <1>6 DEF Mark
  <1>7. CASE Prep(w)
    <2>1. CASE UNCHANGED lock /\ op' = [op EXCEPT ![w] = [op[w] EXCEPT !.pc = "teardown", !.cid = row[op[w].svc].cid]]
      BY <1>0, <1>7, <2>1, RecordAdvance DEF Prep, OpType
    <2> QED BY <1>1, <1>7, <2>1 DEF Prep
  <1>8. CASE Teardown(w)
    BY <1>1, <1>2, <1>8 DEF Teardown
  <1>9. CASE Clear(w)
    BY <1>0, <1>9, RecordAdvance DEF Clear, OpType
  <1>10. CASE Recheck(w)
    BY <1>1, <1>2, <1>10 DEF Recheck
  <1>11. CASE Run(w)
    <2>1. ASSUME NEW c \in Ids, UNCHANGED lock,
                 op' = [op EXCEPT ![w] = [op[w] EXCEPT !.pc = "activate", !.new = c]]
          PROVE  Advance(w)
      BY <1>0, <1>11, <2>1, RecordAdvance DEF Run, OpType
    <2> QED BY <1>1, <1>11, <2>1 DEF Run, Fresh
  <1>12. CASE Activate(w)
    <2>1. op[w].new \in Ids /\ op[w].pc = "activate" /\ UNCHANGED lock
      BY <1>12 DEF Activate, NewContainer
    <2>2. CASE Goto(w, "route")
      BY <1>2, <2>1, <2>2
    <2>3. CASE Goto(w, "discard")
      BY <1>0, <2>1, <2>3, RecordAdvance DEF Goto, OpType
    <2>4. CASE op' = [op EXCEPT ![w] = [op[w] EXCEPT !.pc = "discard", !.interrupted = TRUE]]
      BY <1>0, <2>1, <2>4, RecordAdvance DEF OpType
    <2> QED BY <1>12, <2>2, <2>3, <2>4 DEF Activate
  <1>13. CASE StartContainer(w) \/ RestoreStarted(w) \/ StopContainer(w) \/ RemoveAll(w)
    BY <1>1, <1>2, <1>13 DEF StartContainer, RestoreStarted, StopContainer, RemoveAll
  <1> QED BY <1>3, <1>4, <1>5, <1>6, <1>7, <1>8, <1>9, <1>10, <1>11, <1>12, <1>13 DEF Operate

\* Outside the operations, a worker stands still, starts one, or is lost in a crash.
OthersAdvance ==
  \A w \in Workers :
    \/ op'[w] = op[w]
    \/ op'[w] = Idle /\ ~open'[w]
    \/ \E s \in Services : /\ Present(s)
                          /\ op'[w].svc = s
                          /\ op'[w].pc \in {"check", "lock", "reject"}
                          /\ op[w].pc = "idle"

\* Everything that happens outside the operations.
World ==
  \/ \E s \in Services : Create(s)
  \/ \E w \in Workers, k \in Kinds, s \in Services : Begin(w, k, s)
  \/ Reconcile \/ RecoverStale
  \/ Suspend \/ Reactivate \/ Sweep
  \/ \E s \in Services, c \in Ids : ContainerExit(s, c)
  \/ Crash

\* It leaves the workers as OthersAdvance says.
LEMMA WorldAdvance ==
  ASSUME op \in [Workers -> OpType], World
  PROVE  OthersAdvance
  <1>1. CASE UNCHANGED op
    BY <1>1 DEF OthersAdvance
  <1>2. ASSUME NEW w \in Workers, NEW k \in Kinds, NEW s \in Services, Begin(w, k, s)
        PROVE  OthersAdvance
    <2>1. op[w].pc = "idle" /\ Present(s)
      BY <1>2 DEF Begin, At
    <2>2. ASSUME NEW kind, NEW pc \in {"check", "lock", "reject"}, Goes(w, s, kind, pc)
          PROVE  OthersAdvance
      <3>1. op'[w].svc = s /\ op'[w].pc = pc /\ \A v \in Workers \ {w} : op'[v] = op[v]
        BY <2>2 DEF Goes, Idle
      <3> QED BY <2>1, <3>1 DEF OthersAdvance
    <2>3. \/ \E pc \in Admitted(w, k) : Goes(w, s, k, pc)
          \/ Goes(w, s, "rdeploy", "check")
      BY <1>2 DEF Begin
    <2>4. Admitted(w, k) \subseteq {"check", "lock", "reject"}
      BY DEF Admitted
    <2> QED BY <2>2, <2>3, <2>4
  <1>3. CASE Crash
    BY <1>3 DEF Crash, OthersAdvance
  <1>4. CASE Reconcile
    BY <1>1, <1>4 DEF Reconcile, RecWatch, RecInspect, RecRecord, RecRecover, RecTrip, RecOpen,
                      RecRestart, RecAgain, RecUndo, UnchangedButRecRow
  <1>5. CASE RecoverStale
    BY <1>1, <1>5 DEF RecoverStale, RecoverCircuit, FailStaleDeploy, RecoverStaleRestart, UnchangedButRecRow
  <1>6. CASE Sweep
    BY <1>1, <1>6 DEF Sweep, SweepLabel, SweepRows, SweepStop, SweepClear, SweepDone
  <1>7. CASE \E s \in Services : Create(s)
    BY <1>1, <1>7 DEF Create
  <1>8. CASE \E s \in Services, c \in Ids : ContainerExit(s, c)
    BY <1>1, <1>8 DEF ContainerExit
  <1>9. CASE Suspend \/ Reactivate
    BY <1>1, <1>9 DEF Suspend, Reactivate
  <1> QED BY <1>2, <1>3, <1>4, <1>5, <1>6, <1>7, <1>8, <1>9 DEF World

\* The types, and what a worker's step says of its record.
Typed == TypeOK /\ BusyHasService /\ NewContainer

\* Typed holds initially.
LEMMA TypedInit == Init => Typed
  BY InitTypeOK DEF Init, Typed, BusyHasService, NewContainer, Idle

\* Every step keeps Typed.
LEMMA TypedStep == Typed /\ [Next]_vars => Typed'
  <1> SUFFICES ASSUME Typed, [Next]_vars PROVE Typed'
    OBVIOUS
  <1>0. TypeOK /\ BusyHasService /\ NewContainer /\ op \in [Workers -> OpType]
    BY DEF Typed, TypeOK
  <1>1. ASSUME NEW w \in Workers, Operate(w) PROVE Typed'
    <2>1. TypeOK'
      <3>1. CASE CheckAgain(w) \/ Reject(w) \/ LockService(w)
        BY <1>0, <3>1, AdmissionTypeOK
      <3>2. CASE Mark(w) \/ Prep(w) \/ Teardown(w) \/ Clear(w) \/ Recheck(w)
        BY <1>0, <3>2, DeployTypeOK
      <3>3. CASE Run(w) \/ Activate(w) \/ Discard(w) \/ WriteRoute(w)
        BY <1>0, <3>3, RunTypeOK
      <3>4. CASE \/ StartContainer(w) \/ RestoreStarted(w) \/ StartWrite(w)
                 \/ StopContainer(w) \/ StopWrite(w) \/ RemoveAll(w) \/ Erase(w)
        BY <1>0, <3>4, StartStopTypeOK
      <3> QED BY <1>1, <3>1, <3>2, <3>3, <3>4 DEF Operate
    <2>2. Advance(w)
      BY <1>0, <1>1, OperateAdvance
    <2>3. ASSUME NEW v \in Workers
          PROVE  /\ op'[v].pc # "idle" => op'[v].svc \in Services
                 /\ op'[v].pc \in {"activate", "discard"} => op'[v].new \in Ids
      <3>1. CASE v # w
        BY <1>0, <2>2, <3>1 DEF Advance, BusyHasService, NewContainer
      <3>2. CASE v = w /\ Return(w)
        BY <1>0, <3>2 DEF Return, Idle
      <3>3. CASE v = w /\ op[w].pc = "lock" /\ \E pc \in Entries : Enter(w, pc)
        <4>1. op[w] \in OpType
          BY <1>0
        <4> QED BY <1>0, <3>3, <4>1 DEF Enter, Entries, OpType, BusyHasService
      <3>4. CASE v = w /\ Proceeds(w)
        BY <1>0, <3>4 DEF Proceeds, BusyHasService
      <3> QED BY <2>2, <3>1, <3>2, <3>3, <3>4 DEF Advance
    <2> QED BY <2>1, <2>3 DEF Typed, BusyHasService, NewContainer
  <1>2. CASE World
    <2>1. TypeOK'
      BY <1>0, <1>2, ReconcilerTypeOK, SweepTypeOK, WorldTypeOK DEF World
    <2>2. OthersAdvance
      BY <1>0, <1>2, WorldAdvance
    <2> QED BY <1>0, <2>1, <2>2 DEF Typed, BusyHasService, NewContainer, OthersAdvance, Idle
  <1>3. CASE UNCHANGED vars
    BY <1>3 DEF vars, Typed, TypeOK, BusyHasService, NewContainer
  <1> QED BY <1>1, <1>2, <1>3 DEF Next, World

\* Every reachable state has the types, for any number of services, workers and containers.
THEOREM TypeCorrect == Spec => []TypeOK
  <1>1. Typed => TypeOK
    BY DEF Typed
  <1> QED BY <1>1, TypedInit, TypedStep, PTL DEF Spec

-----------------------------------------------------------------------------
(* Mutual exclusion on a service, and what holds because of it. *)

\* A worker at a locked step holds the lock of its service, and the service is there.
Exclusion(w) == op[w].pc \in Locked => lock[op[w].svc] = w /\ Present(op[w].svc)

\* Only deploys and restarts take a container down to bring up another.
Purpose(w) == op[w].pc \in Working \cup {"mark"} => DeployPath(w) \/ op[w].kind = "restart"

\* The status a restart may give back is one that a service has.
Remembers(w) ==
  op[w].kind = "restart" /\ op[w].pc \in {"mark", "prep", "teardown"} =>
    op[w].was \notin {"absent", "deleted"}

\* While a worker exchanges the container the row is out of the reconciler's watch, and what
\* recoverStaleRestarts puts back is never a deploy's row.
Quiet(w) ==
  op[w].pc \in Working =>
    row[op[w].svc].status \notin (Watched \cup (IF DeployPath(w) THEN {"restarting"} ELSE {}))

\* A deployment row is open only between the mark and the activation.
Closed(w) == open[w] => op[w].pc \in Working \cup {"discard"}

\* A service with an open circuit is there and has no container.
Broken(s) == row[s].circuit => Present(s) /\ row[s].cid = NoCid

\* What the reconciler compares the row with is a watched status.
WatchedRead == rec.pc \in {"inspect", "record", "recover"} => rec.was \in Watched

\* The inductive invariant.
LifecycleInv ==
  /\ Typed
  /\ WatchedRead
  /\ \A s \in Services : Broken(s)
  /\ \A w \in Workers : Exclusion(w) /\ Purpose(w) /\ Remembers(w) /\ Quiet(w) /\ Closed(w)

\* What a write to the row of service s may do to it, other than erasing it.
Touches(s) ==
  /\ \A t \in Services \ {s} : row'[t] = row[t]
  /\ s \in Services =>
       /\ row[s].status \notin {"absent", "deleted"} => row'[s].status \notin {"absent", "deleted"}
       /\ row'[s].circuit => row[s].circuit /\ row'[s].cid \in {NoCid, row[s].cid}
       /\ row'[s].crash = row[s].crash

\* A new status does that much.
LEMMA SetStatusTouches ==
  ASSUME row \in [Services -> RowType], NEW s, NEW st \in Statuses \ {"absent", "deleted"},
         row' = [row EXCEPT ![s].status = st]
  PROVE  Touches(s)
  BY DEF Touches, RowType

\* So does an UPDATE of the status.
LEMMA WithStatusTouches ==
  ASSUME row \in [Services -> RowType], NEW s, NEW st \in Statuses \ {"absent", "deleted"},
         row' = WithStatus(s, st)
  PROVE  Touches(s)
  <1>1. CASE row' = row
    BY <1>1 DEF Touches
  <1>2. CASE row' = [row EXCEPT ![s].status = st]
    BY <1>2, SetStatusTouches
  <1> QED BY <1>1, <1>2 DEF WithStatus

\* So does the compare-and-swap on the container id.
LEMMA CasClearTouches ==
  ASSUME row \in [Services -> RowType], NEW s, NEW c, NEW st,
         Present(s) => st \in Statuses \ {"absent", "deleted"},
         row' = CasClear(s, c, st)
  PROVE  Touches(s)
  <1>1. CASE row' = row
    BY <1>1 DEF Touches
  <1>2. CASE Present(s) /\ row' = [row EXCEPT ![s] = [row[s] EXCEPT !.cid = NoCid, !.status = st]]
    BY <1>2 DEF Touches, RowType
  <1> QED BY <1>1, <1>2 DEF CasClear

\* Every step of an operation but its erasing touches the row of its own service only.
LEMMA OperateTouches ==
  ASSUME TypeOK, NEW w \in Workers, Remembers(w), Operate(w), ~Erase(w)
  PROVE  Touches(op[w].svc)
  <1> DEFINE s == op[w].svc
  <1>0. row \in [Services -> RowType]
        /\ {"failed", "deploying", "restarting", "running", "stopped"} \subseteq Statuses \ {"absent", "deleted"}
    BY DEF TypeOK, Statuses, Watched
  <1>1. CASE UNCHANGED row
    BY <1>1 DEF Touches
  <1>2. CASE FailDeployment(w)
    BY <1>0, <1>2, WithStatusTouches DEF FailDeployment
  <1>3. CASE CheckAgain(w) \/ LockService(w) \/ WriteRoute(w) \/ RestoreStarted(w) \/ RemoveAll(w)
    BY <1>1, <1>3 DEF CheckAgain, LockService, WriteRoute, RestoreStarted, RemoveAll
  <1>4. CASE Reject(w) \/ StartWrite(w) \/ StopWrite(w)
    BY <1>0, <1>4, WithStatusTouches DEF Reject, StartWrite, StopWrite
  <1>5. CASE Mark(w)
    <2>1. MarkStatus(w) \in Statuses \ {"absent", "deleted"}
      BY <1>0 DEF MarkStatus
    <2> QED BY <1>0, <1>1, <1>5, <2>1, WithStatusTouches DEF Mark
  <1>6. CASE Prep(w) \/ Recheck(w) \/ Run(w)
    BY <1>1, <1>2, <1>6 DEF Prep, Recheck, Run
  <1>7. CASE Teardown(w)
    <2>1. CASE op[w].kind = "restart" /\ row' = [row EXCEPT ![s].status = op[w].was]
      <3>1. op[w].was \in Statuses \ {"absent", "deleted"}
        BY <1>7, <2>1 DEF Teardown, At, Remembers, TypeOK, OpType
      <3> QED BY <1>0, <2>1, <3>1, SetStatusTouches
    <2> QED BY <1>1, <1>2, <1>7, <2>1 DEF Teardown
  <1>8. CASE Clear(w)
    <2>1. CASE DeployPath(w)
      <3>1. Present(s) => row[s].status \in Statuses \ {"absent", "deleted"} \/ s \notin Services
        BY <1>0 DEF RowType, Present
      <3>2. row' = CasClear(s, op[w].cid, row[s].status)
        BY <1>8, <2>1 DEF Clear
      <3>3. CASE s \in Services
        BY <1>0, <3>1, <3>2, <3>3, CasClearTouches
      <3>4. CASE s \notin Services
        <4>1. row' = row
          BY <1>0, <3>2, <3>4 DEF CasClear
        <4> QED BY <1>1, <4>1
      <3> QED BY <3>3, <3>4
    <2>2. CASE ~DeployPath(w) /\ Present(s)
      <3>1. row' = [row EXCEPT ![s] = [row[s] EXCEPT !.cid = NoCid, !.status = "restarting"]]
        BY <1>8, <2>2 DEF Clear
      <3> QED BY <1>0, <3>1 DEF Touches, RowType
    <2>3. CASE ~DeployPath(w) /\ ~Present(s)
      BY <1>1, <1>8, <2>3 DEF Clear
    <2> QED BY <2>1, <2>2, <2>3
  <1>9. CASE Activate(w)
    <2>1. CASE /\ ~row[s].circuit
               /\ row' = [row EXCEPT ![s] = [row[s] EXCEPT !.status = "running", !.cid = op[w].new]]
      BY <1>0, <2>1 DEF Touches, RowType
    <2> QED BY <1>1, <1>9, <2>1 DEF Activate, MayActivate
  <1>10. CASE Discard(w)
    BY <1>0, <1>1, <1>10, WithStatusTouches DEF Discard
  <1>11. CASE StartContainer(w) \/ StopContainer(w)
    BY <1>0, <1>1, <1>11, CasClearTouches DEF StartContainer, StopContainer
  <1> QED BY <1>3, <1>4, <1>5, <1>6, <1>7, <1>8, <1>9, <1>10, <1>11 DEF Operate

\* What the rest of the system may do to the row of a service: it stays, a broken one stays
\* broken in the same sense, and a status becomes watched or restarting only when it was watched,
\* or when a restart has left it behind.
WorldTouches(s) ==
  /\ row[s].status \notin {"absent", "deleted"} => row'[s].status \notin {"absent", "deleted"}
  /\ Broken(s) => Broken(s)'
  /\ row'[s].crash > row[s].crash => row[s].status \in Watched
  /\ \/ row'[s].status = row[s].status
     \/ row'[s].status \notin Watched \cup {"restarting"}
     \/ row[s].status \in Watched
     \/ row[s].status = "restarting" /\ \A w \in Workers : lock[s] = w => op[w].kind # "restart"

\* An unchanged row is such a change.
LEMMA SameRowWorldTouches ==
  ASSUME NEW s \in Services, row[s] \in RowType, row'[s] = row[s]
  PROVE  WorldTouches(s)
  BY DEF RowType, WorldTouches, Broken, Present

\* So is a write that keeps the circuit and the container, or drops the container.
LEMMA StatusWorldTouches ==
  ASSUME NEW s \in Services, NEW st \in {"stopped", "failed", "created"},
         row[s] \in RowType, row'[s].status = st, row'[s].crash \in {0, row[s].crash},
         row'[s].circuit => row[s].circuit /\ row'[s].cid \in {NoCid, row[s].cid}
  PROVE  WorldTouches(s)
  BY DEF RowType, WorldTouches, Broken, Present, Watched

\* So is every step outside the operations.
LEMMA WorldRow ==
  ASSUME TypeOK, WatchedRead, World, NEW s \in Services
  PROVE  WorldTouches(s)
  <1>0. row \in [Services -> RowType] /\ row[s] \in RowType
    BY DEF TypeOK
  <1>1. CASE row'[s] = row[s]
    BY <1>0, <1>1, SameRowWorldTouches
  <1>2. ASSUME NEW t \in Services, Create(t) PROVE WorldTouches(s)
    <2>1. CASE s = t
      BY <1>0, <1>2, <2>1, StatusWorldTouches DEF Create, RowType
    <2> QED BY <1>0, <1>1, <1>2, <2>1 DEF Create
  <1>3. CASE RecRecord
    <2>1. CASE rec.svc = s /\ RowAsRead
      <3>1. row[s].status \in Watched
        BY <1>3, <2>1 DEF RecRecord, RowAsRead, WatchedRead
      <3>2. PICK n \in Counted :
              row' = [row EXCEPT ![s] = [row[s] EXCEPT !.status = "crashed", !.crash = Tally(n)]]
        BY <1>3, <2>1 DEF RecRecord
      <3>3. /\ row'[s].status = "crashed"
            /\ row'[s].circuit = row[s].circuit
            /\ row'[s].cid = row[s].cid
        <4>1. row'[s] = [row[s] EXCEPT !.status = "crashed", !.crash = Tally(n)]
          BY <1>0, <3>2
        <4> QED BY <1>0, <4>1 DEF RowType
      <3> QED BY <3>1, <3>3 DEF WorldTouches, Broken, Present, Watched
    <2>2. CASE ~(rec.svc = s /\ RowAsRead)
      BY <1>0, <1>1, <1>3, <2>2 DEF RecRecord
    <2> QED BY <2>1, <2>2
  <1>4. CASE RecRecover
    <2>1. CASE rec.svc = s /\ RowAsRead
      <3>1. row[s].status \in Watched
        BY <1>4, <2>1 DEF RecRecover, RowAsRead, WatchedRead
      <3>2. /\ row'[s].status = "running"
            /\ row'[s].circuit = row[s].circuit
            /\ row'[s].cid = row[s].cid
        BY <1>0, <1>4, <2>1 DEF RecRecover, RowType
      <3>3. row'[s].crash = row[s].crash
        BY <1>0, <1>4, <2>1 DEF RecRecover, RowType
      <3> QED BY <3>1, <3>2, <3>3 DEF WorldTouches, Broken, Present, Watched
    <2>2. CASE ~(rec.svc = s /\ RowAsRead)
      BY <1>0, <1>1, <1>4, <2>2 DEF RecRecover
    <2> QED BY <2>1, <2>2
  <1>5. CASE RecOpen
    <2>1. CASE rec.svc = s /\ row[s].status = "crashed" /\ row[s].cid = rec.cid
      <3>1. row'[s].status = "crashed" /\ row'[s].cid = NoCid
        BY <1>0, <1>5, <2>1 DEF RecOpen, RowType
      <3> QED BY <2>1, <3>1 DEF WorldTouches, Broken, Present, Watched
    <2>2. CASE ~(rec.svc = s /\ row[s].status = "crashed" /\ row[s].cid = rec.cid)
      BY <1>0, <1>1, <1>5, <2>2 DEF RecOpen
    <2> QED BY <2>1, <2>2
  <1>6. CASE Reconcile
    <2>1. CASE UNCHANGED row
      BY <1>1, <2>1
    <2>2. CASE RecInspect \/ RecTrip \/ RecRestart \/ RecAgain \/ RecUndo
      BY <2>1, <2>2 DEF RecInspect, RecTrip, RecRestart, RecAgain, RecUndo
    <2>3. (\E t \in Services : RecWatch(t)) => UNCHANGED row
      BY DEF RecWatch
    <2>4. \/ RecInspect \/ RecTrip \/ RecRestart \/ RecAgain \/ RecUndo
          \/ \E t \in Services : RecWatch(t)
          \/ RecRecord \/ RecRecover \/ RecOpen
      BY <1>6 DEF Reconcile
    <2> QED BY <1>3, <1>4, <1>5, <2>1, <2>2, <2>3, <2>4
  <1>7. ASSUME NEW t \in Services, RecoverCircuit(t) \/ FailStaleDeploy(t) PROVE WorldTouches(s)
    <2>1. CASE s = t
      <3>1. /\ row'[s].status \in {"stopped", "failed"}
            /\ row'[s].circuit => row[s].circuit
            /\ row'[s].cid = row[s].cid
            /\ row'[s].crash \in {0, row[s].crash}
        <4>1. CASE RecoverCircuit(t)
          <5>1. row'[s] = [row[s] EXCEPT !.circuit = FALSE, !.crash = 0, !.status = "stopped"]
            BY <1>0, <2>1, <4>1 DEF RecoverCircuit
          <5> QED BY <1>0, <5>1 DEF RowType
        <4>2. CASE FailStaleDeploy(t)
          BY <1>0, <2>1, <4>2 DEF FailStaleDeploy, RowType
        <4> QED BY <1>7, <4>1, <4>2
      <3> QED BY <1>0, <3>1, StatusWorldTouches
    <2> QED BY <1>0, <1>1, <1>7, <2>1 DEF RecoverCircuit, FailStaleDeploy
  <1>8. ASSUME NEW t \in Services, RecoverStaleRestart(t) PROVE WorldTouches(s)
    <2>1. CASE s = t
      <3>1. /\ row'[s].status \in {"running", "failed"}
            /\ row'[s].circuit = row[s].circuit
            /\ row'[s].cid = row[s].cid
            /\ row'[s].crash = row[s].crash
            /\ row[s].crash \in Nat
        BY <1>0, <1>8, <2>1 DEF RecoverStaleRestart, RowType
      <3> QED BY <1>8, <2>1, <3>1 DEF RecoverStaleRestart, WorldTouches, Broken, Present
    <2> QED BY <1>0, <1>1, <1>8, <2>1 DEF RecoverStaleRestart
  <1>9. ASSUME NEW t \in Services, SweepStop(t) PROVE WorldTouches(s)
    <2>1. ASSUME NEW st \in {"stopped", "failed"}, row' = WithStatus(t, st) PROVE WorldTouches(s)
      <3>1. CASE s = t /\ Present(t)
        BY <1>0, <2>1, <3>1, StatusWorldTouches DEF WithStatus, RowType
      <3> QED BY <1>0, <1>1, <2>1, <3>1 DEF WithStatus
    <2> QED BY <1>1, <1>9, <2>1 DEF SweepStop
  <1>10. CASE SweepClear
    <2> DEFINE t == sweep.svc
    <2>1. CASE s = t /\ row' # row
      <3>1. row' = [row EXCEPT ![s] = [row[s] EXCEPT !.cid = NoCid, !.status = "stopped"]]
        BY <1>10, <2>1 DEF SweepClear, CasClear
      <3>2. /\ row'[s].status = "stopped"
            /\ row'[s].circuit = row[s].circuit
            /\ row'[s].cid = NoCid
            /\ row'[s].crash = row[s].crash
        BY <1>0, <3>1 DEF RowType
      <3> QED BY <1>0, <3>2, StatusWorldTouches
    <2> QED BY <1>0, <1>1, <1>10, <2>1 DEF SweepClear, CasClear
  <1>11. CASE SweepLabel \/ SweepRows \/ SweepDone \/ Suspend \/ Reactivate \/ Crash
    BY <1>1, <1>11 DEF SweepLabel, SweepRows, SweepDone, Suspend, Reactivate, Crash
  <1>12. CASE \E w \in Workers, k \in Kinds, t \in Services : Begin(w, k, t)
    BY <1>1, <1>12 DEF Begin
  <1>13. CASE \E t \in Services, c \in Ids : ContainerExit(t, c)
    BY <1>1, <1>13 DEF ContainerExit
  <1>14. CASE RecoverStale
    BY <1>7, <1>8, <1>14 DEF RecoverStale
  <1>15. CASE Sweep
    BY <1>9, <1>10, <1>11, <1>15 DEF Sweep
  <1> QED BY <1>2, <1>6, <1>11, <1>12, <1>13, <1>14, <1>15 DEF World

\* A worker's own step keeps what it does at the marked and working steps.
LEMMA OwnStep ==
  ASSUME LifecycleInv, NEW w \in Workers, Operate(w)
  PROVE  Purpose(w)' /\ Remembers(w)' /\ Quiet(w)'
  <1> DEFINE s == op[w].svc
  <1> USE DEF At
  <1>0. /\ op \in [Workers -> OpType] /\ op[w] \in OpType
        /\ row \in [Services -> RowType]
        /\ Purpose(w) /\ Remembers(w) /\ Quiet(w) /\ Exclusion(w) /\ BusyHasService
    BY DEF LifecycleInv, Typed, TypeOK
  <1>1. CASE op'[w].pc \notin Working \cup {"mark"}
    BY <1>1 DEF Purpose, Remembers, Quiet, Working
  <1>2. CASE Return(w)
    BY <1>0, <1>1, <1>2 DEF Return, Idle, Working
  <1>3. ASSUME NEW pc \in Steps \ (Working \cup {"mark"}), Goto(w, pc)
        PROVE  Purpose(w)' /\ Remembers(w)' /\ Quiet(w)'
    BY <1>0, <1>1, <1>3 DEF Goto, OpType
  <1>4. CASE CheckAgain(w)
    <2>1. ASSUME NEW pc \in {"lock", "reject"}, Goto(w, pc)
          PROVE  Purpose(w)' /\ Remembers(w)' /\ Quiet(w)'
      BY <1>3, <2>1 DEF Steps, Working
    <2> QED BY <1>2, <1>4, <2>1 DEF CheckAgain, Admitted
  <1>5. CASE \/ Reject(w) \/ StartWrite(w) \/ StopWrite(w) \/ Erase(w) \/ WriteRoute(w) \/ Discard(w)
    BY <1>2, <1>5 DEF Reject, StartWrite, StopWrite, Erase, WriteRoute, Discard
  <1>6. CASE LockService(w)
    <2>1. ASSUME NEW pc \in Entries, Enter(w, pc), Present(s),
                 pc = "mark" => DeployPath(w) \/ op[w].kind = "restart"
          PROVE  Purpose(w)' /\ Remembers(w)' /\ Quiet(w)'
      <3>1. /\ op'[w].pc = pc /\ op'[w].kind = op[w].kind
            /\ op[w].kind = "restart" => op'[w].was = row[s].status
        BY <1>0, <2>1 DEF Enter, OpType
      <3> QED BY <2>1, <3>1 DEF Entries, Present, Purpose, Remembers, Quiet, DeployPath, Working
    <2>2. CASE Present(s) /\ Enter(w, "mark") /\ op[w].kind \in {"deploy", "rdeploy", "image", "restart"}
      BY <2>1, <2>2 DEF Entries, DeployPath
    <2>3. CASE /\ Present(s)
               /\ Enter(w, "reject") \/ Enter(w, "dstart") \/ Enter(w, "dstop") \/ Enter(w, "remove")
      BY <2>1, <2>3 DEF Entries
    <2> QED BY <1>2, <1>6, <2>2, <2>3 DEF LockService
  <1>7. CASE Mark(w)
    <2>1. s \in Services /\ Present(s)
      BY <1>0, <1>7 DEF Mark, BusyHasService, Exclusion, Locked
    <2>2. ASSUME NEW pc \in {"teardown", "prep"}, Goto(w, pc), row' = WithStatus(s, MarkStatus(w))
          PROVE  Purpose(w)' /\ Remembers(w)' /\ Quiet(w)'
      <3>1. /\ op'[w].pc = pc /\ op'[w].svc = s /\ op'[w].kind = op[w].kind /\ op'[w].was = op[w].was
        BY <1>0, <2>2 DEF Goto, OpType
      <3>2. row'[s].status = MarkStatus(w)
        BY <1>0, <2>1, <2>2 DEF WithStatus, RowType
      <3> QED BY <1>0, <1>7, <3>1, <3>2
              DEF Mark, Purpose, Remembers, Quiet, MarkStatus, DeployPath, Watched
    <2> QED BY <1>2, <1>7, <2>2 DEF Mark
  <1>8. ASSUME NEW o \in OpType, op' = [op EXCEPT ![w] = o], op[w].pc \in Working,
               o.svc = s, o.kind = op[w].kind,
               o.pc \in {"prep", "teardown"} => op[w].pc \in {"prep", "teardown"} /\ o.was = op[w].was,
               o.pc # "mark",
               row'[s].status = row[s].status
        PROVE  Purpose(w)' /\ Remembers(w)' /\ Quiet(w)'
    BY <1>0, <1>8 DEF Purpose, Remembers, Quiet, DeployPath
  <1>9. CASE Prep(w)
    <2>1. CASE UNCHANGED row /\ op' = [op EXCEPT ![w] = [op[w] EXCEPT !.pc = "teardown", !.cid = row[s].cid]]
      <3>1. row[s].cid \in Cids
        BY <1>0, <1>9 DEF Prep, BusyHasService, RowType
      <3>2. [op[w] EXCEPT !.pc = "teardown", !.cid = row[s].cid] \in OpType
        BY <1>0, <3>1 DEF OpType, Steps
      <3> QED BY <1>0, <1>8, <1>9, <2>1, <3>2 DEF Prep, Working, OpType
    <2> QED BY <1>2, <1>9, <2>1 DEF Prep, FailDeployment
  <1>10. ASSUME NEW pc \in Working \ {"prep", "teardown"}, Goto(w, pc), UNCHANGED row, op[w].pc \in Working
         PROVE  Purpose(w)' /\ Remembers(w)' /\ Quiet(w)'
    <2>1. [op[w] EXCEPT !.pc = pc] \in OpType
      BY <1>0 DEF OpType, Steps, Working
    <2>2. op' = [op EXCEPT ![w] = [op[w] EXCEPT !.pc = pc]]
      BY <1>0, <1>10 DEF Goto
    <2> QED BY <1>0, <1>8, <1>10, <2>1, <2>2 DEF OpType, Working
  <1>11. CASE Teardown(w)
    BY <1>2, <1>10, <1>11 DEF Teardown, FailDeployment, Working
  <1>12. CASE Clear(w)
    <2>1. s \in Services
      BY <1>0, <1>12 DEF Clear, BusyHasService
    <2> DEFINE o == [op[w] EXCEPT !.pc = "recheck", !.cid = NoCid, !.was = Idle.was]
    <2>2. op'[w] = o
      BY <1>0, <1>12 DEF Clear
    <2>3. o.pc = "recheck" /\ o.svc = s /\ o.kind = op[w].kind
      BY <1>0 DEF OpType
    <2>4. row'[s].status = row[s].status \/ (~DeployPath(w) /\ row'[s].status = "restarting")
      <3>1. CASE DeployPath(w)
        BY <1>0, <1>12, <2>1, <3>1 DEF Clear, CasClear, RowType
      <3>2. CASE ~DeployPath(w) /\ Present(s)
        <4>1. row'[s] = [row[s] EXCEPT !.cid = NoCid, !.status = "restarting"]
          BY <1>0, <1>12, <2>1, <3>2 DEF Clear
        <4> QED BY <1>0, <2>1, <3>2, <4>1 DEF RowType
      <3>3. CASE ~DeployPath(w) /\ ~Present(s)
        BY <1>12, <3>3 DEF Clear
      <3> QED BY <3>1, <3>2, <3>3
    <2>5. op[w].pc = "clear"
      BY <1>12 DEF Clear
    <2> HIDE DEF o
    <2> QED BY <1>0, <2>2, <2>3, <2>4, <2>5 DEF Purpose, Remembers, Quiet, DeployPath, Working, Watched
  <1>13. CASE Recheck(w)
    BY <1>2, <1>10, <1>13 DEF Recheck, FailDeployment, Working
  <1>14. CASE Run(w)
    <2>1. ASSUME NEW c \in Ids, UNCHANGED row,
                 op' = [op EXCEPT ![w] = [op[w] EXCEPT !.pc = "activate", !.new = c]]
          PROVE  Purpose(w)' /\ Remembers(w)' /\ Quiet(w)'
      <3>1. [op[w] EXCEPT !.pc = "activate", !.new = c] \in OpType
        BY <1>0, Constants DEF OpType, Steps
      <3> QED BY <1>0, <1>8, <1>14, <2>1, <3>1 DEF Run, Working, OpType
    <2> QED BY <1>2, <1>14, <2>1 DEF Run, FailDeployment, Fresh
  <1>15. CASE Activate(w)
    <2>1. op'[w].pc \in {"route", "discard"}
      BY <1>0, <1>15 DEF Activate, Goto, OpType
    <2> QED BY <1>1, <2>1 DEF Working
  <1>16. CASE StartContainer(w) \/ RestoreStarted(w) \/ StopContainer(w) \/ RemoveAll(w)
    <2>1. {"restore", "startwrite", "stopwrite", "erase"} \subseteq Steps \ (Working \cup {"mark"})
      BY DEF Steps, Working
    <2> QED BY <1>2, <1>3, <1>16, <2>1 DEF StartContainer, RestoreStarted, StopContainer, RemoveAll
  <1> QED BY <1>4, <1>5, <1>6, <1>7, <1>9, <1>11, <1>12, <1>13, <1>14, <1>15, <1>16 DEF Operate

\* A worker's own step keeps its deployment row open only while it is working.
LEMMA OwnClosed ==
  ASSUME TypeOK, NEW w \in Workers, Closed(w), Operate(w)
  PROVE  Closed(w)' /\ \A v \in Workers \ {w} : open'[v] = open[v]
  <1> USE DEF At, Close
  <1>0. op \in [Workers -> OpType] /\ op[w] \in OpType /\ open \in [Workers -> BOOLEAN]
    BY DEF TypeOK
  <1>1. CASE open' = [open EXCEPT ![w] = FALSE]
    BY <1>0, <1>1 DEF Closed
  <1>2. CASE open' = open /\ op[w].pc \notin Working \cup {"discard"}
    BY <1>2 DEF Closed
  <1>3. ASSUME NEW pc \in Working \cup {"discard"}, Goto(w, pc),
               open' = open \/ open' = [open EXCEPT ![w] = TRUE]
        PROVE  Closed(w)' /\ \A v \in Workers \ {w} : open'[v] = open[v]
    <2>1. op'[w].pc = pc
      BY <1>0, <1>3 DEF Goto, OpType
    <2> QED BY <1>0, <1>3, <2>1 DEF Closed
  <1>4. ASSUME NEW o, op' = [op EXCEPT ![w] = o], o.pc \in Working \cup {"discard"}, open' = open
        PROVE  Closed(w)' /\ \A v \in Workers \ {w} : open'[v] = open[v]
    BY <1>0, <1>4 DEF Closed
  <1> USE DEF Working
  <1>5. CASE CheckAgain(w) \/ Reject(w) \/ LockService(w) \/ WriteRoute(w)
    BY <1>2, <1>5 DEF CheckAgain, Reject, LockService, WriteRoute
  <1>6. CASE StartContainer(w) \/ RestoreStarted(w) \/ StartWrite(w) \/ StopContainer(w)
    BY <1>2, <1>6 DEF StartContainer, RestoreStarted, StartWrite, StopContainer
  <1>7. CASE StopWrite(w) \/ RemoveAll(w) \/ Erase(w)
    BY <1>2, <1>7 DEF StopWrite, RemoveAll, Erase
  <1>8. CASE Mark(w)
    BY <1>1, <1>2, <1>3, <1>8 DEF Mark
  <1>9. CASE Prep(w)
    <2>1. CASE open' = open /\ op' = [op EXCEPT ![w] = [op[w] EXCEPT !.pc = "teardown", !.cid = row[op[w].svc].cid]]
      BY <1>0, <1>4, <2>1 DEF OpType
    <2> QED BY <1>1, <1>9, <2>1 DEF Prep, FailDeployment
  <1>10. CASE Teardown(w) \/ Recheck(w)
    BY <1>1, <1>3, <1>10 DEF Teardown, Recheck, FailDeployment
  <1>11. CASE Clear(w)
    BY <1>0, <1>4, <1>11 DEF Clear, OpType
  <1>12. CASE Run(w)
    <2>1. ASSUME NEW c \in Ids, open' = open,
                 op' = [op EXCEPT ![w] = [op[w] EXCEPT !.pc = "activate", !.new = c]]
          PROVE  Closed(w)' /\ \A v \in Workers \ {w} : open'[v] = open[v]
      BY <1>0, <1>4, <2>1 DEF OpType
    <2> QED BY <1>1, <1>12, <2>1 DEF Run, FailDeployment, Fresh
  <1>13. CASE Activate(w)
    <2>1. CASE open' = open /\ op' = [op EXCEPT ![w] = [op[w] EXCEPT !.pc = "discard", !.interrupted = TRUE]]
      BY <1>0, <1>4, <2>1 DEF OpType
    <2> QED BY <1>1, <1>3, <1>13, <2>1 DEF Activate
  <1>14. CASE Discard(w)
    BY <1>1, <1>14 DEF Discard
  <1> QED BY <1>5, <1>6, <1>7, <1>8, <1>9, <1>10, <1>11, <1>12, <1>13, <1>14 DEF Operate

\* The reconciler goes where it is sent.
LEMMA RecGotoPc ==
  ASSUME NEW pc, RecGoto(pc)
  PROVE  rec'.pc = pc
  <1>1. RecIdle = [pc |-> "idle", svc |-> "none", cid |-> NoCid, was |-> "absent", crash |-> 0,
                   why |-> "none"]
    BY DEF RecIdle
  <1>2. \A a, b, c : [RecIdle EXCEPT !.pc = a, !.svc = b, !.cid = c].pc = a
    BY <1>1
  <1> QED BY <1>2 DEF RecGoto

\* Outside the operations the locks are kept or, in a crash, all free; the open deployment rows
\* stay what they are or are forgotten; and the reconciler compares with watched statuses only.
LEMMA WorldKeeps ==
  ASSUME TypeOK, WatchedRead, World
  PROVE  /\ UNCHANGED lock \/ (\A w \in Workers : op'[w] = Idle)
         /\ UNCHANGED open \/ (\A w \in Workers : ~open'[w])
         /\ WatchedRead'
  <1> USE DEF UnchangedButRecRow
  <1>0. rec \in RecType
    BY DEF TypeOK
  <1>1. CASE UNCHANGED <<lock, open, rec>>
    BY <1>1 DEF WatchedRead
  <1>2. CASE UNCHANGED <<lock, open>> /\ rec'.pc \notin {"inspect", "record", "recover"}
    BY <1>2 DEF WatchedRead
  <1>3. CASE Crash
    BY <1>3 DEF Crash, WatchedRead, RecIdle
  <1>4. ASSUME NEW s \in Services, RecWatch(s)
        PROVE  UNCHANGED <<lock, open>> /\ WatchedRead'
    BY <1>4 DEF RecWatch, WatchedRead
  <1>5. CASE RecInspect
    <2>0. UNCHANGED <<lock, open>> /\ rec.pc = "inspect"
      BY <1>5 DEF RecInspect
    <2>1. CASE RecGoto("trip") \/ rec' = RecIdle
      <3>1. rec'.pc \in {"trip", "idle"}
        BY <2>1, RecGotoPc DEF RecIdle
      <3> QED BY <1>2, <2>0, <3>1
    <2>2. CASE rec'.was = rec.was
      BY <2>0, <2>2 DEF WatchedRead
    <2>3. \A why : [rec EXCEPT !.pc = "record", !.why = why].was = rec.was
      BY <1>0 DEF RecType
    <2>4. [rec EXCEPT !.pc = "recover"].was = rec.was
      BY <1>0 DEF RecType
    <2> QED BY <1>5, <2>1, <2>2, <2>3, <2>4 DEF RecInspect
  <1>6. CASE RecRecord \/ RecRecover \/ RecTrip \/ RecOpen \/ RecRestart \/ RecAgain \/ RecUndo
    <2>1. UNCHANGED <<lock, open>>
      BY <1>6 DEF RecRecord, RecRecover, RecTrip, RecOpen, RecRestart, RecAgain, RecUndo
    <2>2. \/ RecGoto("trip") \/ RecGoto("restart") \/ RecGoto("open") \/ RecGoto("again") \/ RecGoto("undo")
          \/ rec' = RecIdle
      BY <1>6 DEF RecRecord, RecRecover, RecTrip, RecOpen, RecRestart, RecAgain, RecUndo
    <2>3. rec'.pc \in {"trip", "restart", "open", "again", "undo", "idle"}
      BY <2>2, RecGotoPc DEF RecIdle
    <2> QED BY <1>2, <2>1, <2>3
  <1>7. CASE RecoverStale
    BY <1>1, <1>7 DEF RecoverStale, RecoverCircuit, FailStaleDeploy, RecoverStaleRestart
  <1>8. CASE Sweep
    BY <1>1, <1>8 DEF Sweep, SweepLabel, SweepRows, SweepStop, SweepClear, SweepDone
  <1>9. CASE \E s \in Services : Create(s)
    BY <1>1, <1>9 DEF Create
  <1>10. CASE \E s \in Services, c \in Ids : ContainerExit(s, c)
    BY <1>1, <1>10 DEF ContainerExit
  <1>11. CASE Suspend \/ Reactivate
    BY <1>1, <1>11 DEF Suspend, Reactivate
  <1>12. CASE \E w \in Workers, k \in Kinds, s \in Services : Begin(w, k, s)
    BY <1>1, <1>12 DEF Begin
  <1>13. CASE \E s \in Services : RecWatch(s)
    <2>1. PICK s \in Services : RecWatch(s)
      BY <1>13
    <2> QED BY <1>4, <2>1
  <1> QED BY <1>3, <1>5, <1>6, <1>7, <1>8, <1>9, <1>10, <1>11, <1>12, <1>13 DEF World, Reconcile

\* The invariant holds initially.
LEMMA LifecycleInit == Init => LifecycleInv
  BY TypedInit DEF Init, LifecycleInv, Idle, RecIdle, WatchedRead, Broken, Exclusion, Purpose,
                   Remembers, Quiet, Closed, Locked, Working

\* A step of an operation keeps the invariant.
LEMMA OperateKeeps ==
  ASSUME LifecycleInv, Typed', NEW w \in Workers, Operate(w)
  PROVE  LifecycleInv'
  <1> DEFINE s == op[w].svc
  <1>0. /\ TypeOK /\ BusyHasService /\ NewContainer /\ Exclusion(w) /\ Closed(w) /\ Remembers(w)
        /\ op \in [Workers -> OpType]
        /\ row \in [Services -> RowType]
        /\ lock \in [Services -> Workers \cup {Nobody}]
    BY DEF LifecycleInv, Typed, TypeOK
  <1>1. Advance(w)
    BY <1>0, OperateAdvance
  <1>2. /\ UNCHANGED rec
        /\ s \in Services
        /\ op[w].pc \notin Locked => row'[s] = row[s] \/ row'[s].status = "failed"
    <2>1. UNCHANGED rec
      BY DEF Operate, CheckAgain, Reject, LockService, Mark, Prep, Teardown, Clear, Recheck, Run, Activate,
             Discard, WriteRoute, StartContainer, RestoreStarted, StartWrite, StopContainer, StopWrite,
             RemoveAll, Erase
    <2>2. op[w].pc # "idle"
      BY DEF Operate, CheckAgain, Reject, LockService, Mark, Prep, Teardown, Clear, Recheck, Run, Activate,
             Discard, WriteRoute, StartContainer, RestoreStarted, StartWrite, StopContainer, StopWrite,
             RemoveAll, Erase, At
    <2>3. s \in Services
      BY <1>0, <2>2 DEF BusyHasService
    <2>4. op[w].pc \notin Locked => CheckAgain(w) \/ Reject(w) \/ LockService(w)
      BY DEF Operate, Mark, Prep, Teardown, Clear, Recheck, Run, Activate,
             Discard, WriteRoute, StartContainer, RestoreStarted, StartWrite, StopContainer, StopWrite,
             RemoveAll, Erase, At, Locked, Working
    <2>5. CASE CheckAgain(w) \/ LockService(w)
      BY <2>1, <2>3, <2>5 DEF CheckAgain, LockService
    <2>6. CASE Reject(w)
      BY <1>0, <2>1, <2>3, <2>6 DEF Reject, WithStatus, RowType
    <2> QED BY <2>1, <2>3, <2>4, <2>5, <2>6
  <1>3. ~Erase(w) => Touches(s)
    BY <1>0, OperateTouches
  <1>4. ASSUME Erase(w)
        PROVE  /\ op[w].pc = "erase"
               /\ \A t \in Services \ {s} : row'[t] = row[t]
               /\ ~row'[s].circuit
    BY <1>0, <1>2, <1>4 DEF Erase, At
  <1>5. ASSUME NEW t \in Services PROVE Broken(t)'
    <2>1. Broken(t)
      BY DEF LifecycleInv
    <2>2. CASE Erase(w)
      BY <1>4, <2>1, <2>2 DEF Broken, Present
    <2>3. CASE ~Erase(w)
      BY <1>2, <1>3, <2>1, <2>3 DEF Broken, Present, Touches
    <2> QED BY <2>2, <2>3
  <1>6. ASSUME NEW v \in Workers
        PROVE  Exclusion(v)'
    <2>1. CASE v = w
      <3>1. CASE Return(w)
        BY <1>0, <2>1, <3>1 DEF Return, Idle, Exclusion, Locked, Working
      <3>2. CASE op[w].pc = "lock" /\ Present(s) /\ \E pc \in Entries : Enter(w, pc)
        <4>1. op'[w].svc = s /\ lock'[s] = w
          BY <1>0, <1>2, <3>2 DEF Enter, OpType
        <4>2. ~Erase(w)
          BY <3>2 DEF Erase, At
        <4> QED BY <1>2, <1>3, <2>1, <3>2, <4>1, <4>2 DEF Exclusion, Touches, Present
      <3>3. CASE Proceeds(w)
        <4>1. ~Erase(w)
          BY <3>3 DEF Erase, At, Proceeds
        <4> QED BY <1>0, <1>2, <1>3, <2>1, <3>3, <4>1
                DEF Exclusion, Touches, Present, Proceeds, Locked, Working
      <3> QED BY <1>1, <3>1, <3>2, <3>3 DEF Advance
    <2>2. CASE v # w
      <3> DEFINE t == op[v].svc
      <3>1. op'[v] = op[v]
        BY <1>1, <2>2 DEF Advance
      <3>2. CASE op[v].pc \in Locked
        <4>1. lock[t] = v /\ Present(t) /\ t \in Services
          BY <1>0, <3>2 DEF LifecycleInv, Exclusion, BusyHasService, Locked, Working
        <4>2. lock'[t] = v
          <5>1. CASE Return(w)
            BY <2>2, <4>1, <5>1 DEF Return
          <5>2. CASE lock[s] = Nobody /\ \E pc \in Entries : Enter(w, pc)
            BY <1>0, <4>1, <5>2, LifecycleAssumption DEF Enter
          <5>3. CASE Proceeds(w)
            BY <4>1, <5>3 DEF Proceeds
          <5> QED BY <1>1, <5>1, <5>2, <5>3 DEF Advance
        <4>3. Present(t)'
          <5>1. CASE Erase(w)
            <6>1. lock[s] = w
              BY <1>0, <1>4, <5>1 DEF Exclusion, Locked
            <6>2. t # s
              BY <2>2, <4>1, <6>1
            <6> QED BY <1>4, <3>1, <4>1, <5>1, <6>2 DEF Present
          <5>2. CASE ~Erase(w)
            BY <1>2, <1>3, <3>1, <4>1, <5>2 DEF Touches, Present
          <5> QED BY <5>1, <5>2
        <4> QED BY <3>1, <4>2, <4>3 DEF Exclusion
      <3>3. CASE op[v].pc \notin Locked
        BY <3>1, <3>3 DEF Exclusion
      <3> QED BY <3>2, <3>3
    <2> QED BY <2>1, <2>2
  <1>7. ASSUME NEW v \in Workers
        PROVE  Purpose(v)' /\ Remembers(v)' /\ Quiet(v)'
    <2>1. CASE v = w
      BY <2>1, OwnStep
    <2>2. CASE v # w
      <3> DEFINE t == op[v].svc
      <3>1. op'[v] = op[v] /\ Purpose(v) /\ Remembers(v) /\ Quiet(v) /\ Exclusion(v)
        BY <1>1, <2>2 DEF Advance, LifecycleInv
      <3>2. Purpose(v)' /\ Remembers(v)'
        BY <3>1 DEF Purpose, Remembers, DeployPath
      <3>3. CASE op[v].pc \in Working
        <4>1. lock[t] = v /\ t \in Services
          BY <1>0, <3>1, <3>3 DEF Exclusion, BusyHasService, Locked, Working
        <4>2. row'[t] = row[t] \/ row'[t].status = "failed"
          <5>1. CASE t # s
            BY <1>3, <1>4, <4>1, <5>1 DEF Touches
          <5>2. CASE t = s
            <6>1. op[w].pc \notin Locked
              BY <1>0, <2>2, <4>1, <5>2 DEF Exclusion
            <6> QED BY <1>2, <5>2, <6>1
          <5> QED BY <5>1, <5>2
        <4> QED BY <3>1, <3>2, <4>2 DEF Quiet, DeployPath, Watched
      <3>4. CASE op[v].pc \notin Working
        BY <3>1, <3>2, <3>4 DEF Quiet
      <3> QED BY <3>3, <3>4
    <2> QED BY <2>1, <2>2
  <1>8. ASSUME NEW v \in Workers
        PROVE  Closed(v)'
    <2>1. CASE v = w
      BY <1>0, <2>1, OwnClosed
    <2>2. CASE v # w
      <3>1. open'[v] = open[v] /\ op'[v] = op[v]
        BY <1>0, <1>1, <2>2, OwnClosed DEF Advance
      <3> QED BY <3>1 DEF LifecycleInv, Closed
    <2> QED BY <2>1, <2>2
  <1>9. WatchedRead'
    BY <1>2 DEF LifecycleInv, WatchedRead
  <1> QED BY <1>5, <1>6, <1>7, <1>8, <1>9 DEF LifecycleInv

\* The rest of the system keeps the invariant.
LEMMA WorldKeepsInv ==
  ASSUME LifecycleInv, Typed', World
  PROVE  LifecycleInv'
  <1>0. /\ TypeOK /\ BusyHasService /\ WatchedRead /\ op \in [Workers -> OpType]
        /\ open' \in [Workers -> BOOLEAN]
    BY DEF LifecycleInv, Typed, TypeOK
  <1>1. OthersAdvance
    BY <1>0, WorldAdvance
  <1>2. /\ UNCHANGED lock \/ (\A w \in Workers : op'[w] = Idle)
        /\ UNCHANGED open \/ (\A w \in Workers : ~open'[w])
        /\ WatchedRead'
    BY <1>0, WorldKeeps
  <1>3. \A s \in Services : WorldTouches(s)
    BY <1>0, WorldRow
  <1>4. \A s \in Services : Broken(s)'
    BY <1>3 DEF WorldTouches, LifecycleInv
  <1>5. ASSUME NEW w \in Workers
        PROVE  Exclusion(w)' /\ Purpose(w)' /\ Remembers(w)' /\ Quiet(w)' /\ Closed(w)'
    <2> DEFINE s == op[w].svc
    <2>0. Exclusion(w) /\ Purpose(w) /\ Remembers(w) /\ Quiet(w) /\ Closed(w)
      BY DEF LifecycleInv
    <2>1. CASE op'[w].pc \in {"idle", "check", "lock", "reject"} /\ ~open'[w]
      BY <2>1 DEF Exclusion, Purpose, Remembers, Quiet, Closed, Locked, Working
    <2>2. CASE op'[w] = op[w] /\ op[w].pc \notin Locked
      BY <1>2, <2>0, <2>2 DEF Exclusion, Purpose, Remembers, Quiet, Closed, Locked, Working
    <2>3. CASE op'[w] = op[w] /\ op[w].pc \in Locked
      <3>1. s \in Services /\ lock[s] = w /\ Present(s) /\ UNCHANGED lock
        BY <1>0, <1>2, <2>0, <2>3 DEF BusyHasService, Exclusion, Locked, Working, Idle
      <3>2. WorldTouches(s)
        BY <1>3, <3>1
      <3>3. Exclusion(w)'
        BY <2>3, <3>1, <3>2 DEF Exclusion, WorldTouches, Present
      <3>4. Quiet(w)'
        <4>1. CASE op[w].pc \in Working
          BY <2>0, <2>3, <3>1, <3>2, <4>1 DEF Quiet, Purpose, WorldTouches, DeployPath, Watched
        <4>2. CASE op[w].pc \notin Working
          BY <2>3, <4>2 DEF Quiet
        <4> QED BY <4>1, <4>2
      <3> QED BY <1>2, <2>0, <2>3, <3>3, <3>4 DEF Purpose, Remembers, Closed, DeployPath
    <2>4. CASE op'[w].pc \in {"idle", "check", "lock", "reject"} /\ op[w].pc = "idle"
      <3>1. ~open'[w]
        BY <1>2, <2>0, <2>4 DEF Closed, Working
      <3> QED BY <2>1, <2>4, <3>1
    <2>5. CASE op'[w] = Idle /\ ~open'[w]
      BY <2>1, <2>5 DEF Idle
    <2> QED BY <1>1, <2>2, <2>3, <2>4, <2>5 DEF OthersAdvance, Idle
  <1> QED BY <1>2, <1>4, <1>5 DEF LifecycleInv

\* Every step keeps the invariant.
LEMMA LifecycleStep == LifecycleInv /\ [Next]_vars => LifecycleInv'
  <1> SUFFICES ASSUME LifecycleInv, [Next]_vars PROVE LifecycleInv'
    OBVIOUS
  <1>1. Typed'
    BY TypedStep DEF LifecycleInv
  <1>2. ASSUME NEW w \in Workers, Operate(w) PROVE LifecycleInv'
    BY <1>1, <1>2, OperateKeeps
  <1>3. CASE World
    BY <1>1, <1>3, WorldKeepsInv
  <1>4. CASE UNCHANGED vars
    BY <1>1, <1>4 DEF vars, LifecycleInv, WatchedRead, Broken, Present, Exclusion, Purpose, Remembers,
                      Quiet, Closed, DeployPath
  <1> QED BY <1>2, <1>3, <1>4 DEF Next, World

\* The invariant holds in every reachable state.
THEOREM LifecycleInvHolds == Spec => []LifecycleInv
  BY LifecycleInit, LifecycleStep, PTL DEF Spec

\* A service whose circuit is open has no container: tripBreaker drops the id in the write that
\* opens the circuit, and a deploy's final write asks for the circuit once more.
THEOREM BreakerHolds == Spec => []CircuitOpenHasNoContainer
  <1>1. LifecycleInv => CircuitOpenHasNoContainer
    BY DEF LifecycleInv, Broken, CircuitOpenHasNoContainer
  <1> QED BY <1>1, LifecycleInvHolds, PTL

\* A deployment row is closed on every path out of the operation that opened it.
THEOREM DeploymentRowsClose == Spec => []DeploymentRowClosed
  <1>1. LifecycleInv => DeploymentRowClosed
    BY DEF LifecycleInv, Closed, DeploymentRowClosed, At, Working
  <1> QED BY <1>1, LifecycleInvHolds, PTL

\* A route file never appears for a service that Delete has removed: the worker that writes the
\* route holds the lock that Delete needs, and the service was there when it took it.
THEOREM RoutesAreOfServices == Spec => NoRouteResurrection
  <1>1. LifecycleInv /\ [Next]_vars =>
          [\A s \in Services : ~route[s] /\ route'[s] => Present(s)]_vars
    <2> SUFFICES ASSUME LifecycleInv, Next, NEW s \in Services, ~route[s], route'[s]
                 PROVE  Present(s)
      OBVIOUS
    <2>0. route \in [Services -> BOOLEAN] /\ route'[s] # route[s]
      BY DEF LifecycleInv, Typed, TypeOK
    <2>1. ASSUME NEW w \in Workers, Operate(w) PROVE Present(s)
      <3>1. Exclusion(w)
        BY DEF LifecycleInv
      <3>2. CASE WriteRoute(w) \/ RestoreStarted(w)
        <4>1. op[w].svc = s
          BY <2>0, <3>2 DEF WriteRoute, RestoreStarted
        <4>2. op[w].pc \in Locked
          BY <3>2 DEF WriteRoute, RestoreStarted, At, Locked
        <4> QED BY <3>1, <4>1, <4>2 DEF Exclusion
      <3>3. CASE Run(w) \/ Discard(w) \/ RemoveAll(w)
        BY <2>0, <3>3 DEF Run, Discard, RemoveAll
      <3>4. ~(WriteRoute(w) \/ RestoreStarted(w) \/ Run(w) \/ Discard(w) \/ RemoveAll(w)) => UNCHANGED route
        BY <2>1 DEF Operate, CheckAgain, Reject, LockService, Mark, Prep, Teardown, Clear, Recheck,
                    Activate, StartContainer, StartWrite, StopContainer, StopWrite, Erase
      <3> QED BY <2>0, <3>2, <3>3, <3>4
    <2>2. World => UNCHANGED route
      BY DEF World, Create, Begin, Reconcile, RecoverStale, Sweep, Suspend, Reactivate, ContainerExit, Crash,
             RecWatch, RecInspect, RecRecord, RecRecover, RecTrip, RecOpen, RecRestart, RecAgain, RecUndo,
             RecoverCircuit, FailStaleDeploy, RecoverStaleRestart, UnchangedButRecRow,
             SweepLabel, SweepRows, SweepStop, SweepClear, SweepDone
    <2> QED BY <2>0, <2>1, <2>2 DEF Next, World
  <1> QED BY <1>1, LifecycleInvHolds, PTL DEF Spec, NoRouteResurrection

\* The reconciler counts no crash for a service whose container an operation is exchanging: the
\* row is out of its watch all that time, and its compare-and-swap fails if it read it before.
THEOREM NoCrashIsPhantom == Spec => NoPhantomCrash
  <1>1. LifecycleInv /\ [Next]_vars =>
          [\A s \in Services :
             row'[s].crash > row[s].crash =>
               \A w \in Workers : op[w].svc = s =>
                 op[w].pc \notin {"prep", "teardown", "clear", "recheck", "run", "activate"}]_vars
    <2> SUFFICES ASSUME LifecycleInv, Next, NEW s \in Services, row'[s].crash > row[s].crash,
                        NEW w \in Workers, op[w].svc = s, op[w].pc \in Working
                 PROVE  FALSE
      BY DEF Working
    <2>0. /\ TypeOK /\ BusyHasService /\ WatchedRead /\ row[s].crash \in Nat
          /\ row[s].status \notin Watched
      BY DEF LifecycleInv, Typed, TypeOK, RowType, Quiet
    <2>1. ASSUME NEW v \in Workers, Operate(v) PROVE FALSE
      <3>1. CASE ~Erase(v)
        <4>1. Touches(op[v].svc)
          BY <2>0, <2>1, <3>1, OperateTouches DEF LifecycleInv
        <4> QED BY <2>0, <4>1 DEF Touches
      <3>2. CASE Erase(v)
        <4>1. row'[s].crash = 0 \/ row'[s] = row[s]
          BY <2>0, <3>2 DEF Erase, TypeOK
        <4> QED BY <2>0, <4>1
      <3> QED BY <3>1, <3>2
    <2>2. CASE World
      BY <2>0, <2>2, WorldRow DEF WorldTouches
    <2> QED BY <2>1, <2>2 DEF Next, World
  <1> QED BY <1>1, LifecycleInvHolds, PTL DEF Spec, NoPhantomCrash

-----------------------------------------------------------------------------
(* Containers: what the invariant of where they are says. *)

\* Containers that an operation has created and not installed yet.
Pending(s) == {op[w].new : w \in {v \in Workers : op[v].svc = s /\ op[v].pc \in {"activate", "discard"}}}

\* The container was created, if it is one.
Made(s, c) == c # NoCid => docker[s][c] # "none"

\* The container a row names was created, and a service that is not there names none.
Named(s) ==
  /\ Made(s, row[s].cid)
  /\ ~Present(s) => row[s].cid = NoCid

\* Whoever has a container for service s is known.
Tracked(s) == Alive(s) \subseteq {row[s].cid} \cup InFlight(s) \cup leaked[s]

\* What a worker under the service lock knows of the containers.
Knows(w) ==
  LET s == op[w].svc
      pc == op[w].pc
      new == op[w].new
  IN /\ new # NoCid => pc \in {"activate", "discard", "route"}
     /\ pc = "erase" => Alive(s) = {}
     /\ pc = "clear" => ~Exists(s, op[w].cid)
     /\ pc = "clear" /\ op[w].kind = "restart" => Alive(s) = {}
     /\ pc \in {"activate", "discard"} =>
          Alive(s) \subseteq {new} /\ docker[s][new] # "none" /\ row[s].cid # new
     /\ pc = "route" => Alive(s) \subseteq {row[s].cid}

\* What the reconciler and the sweep have read was created, and they clear the id of a container
\* only when it is gone.
RecKnows ==
  rec.pc # "idle" /\ rec.svc \in Services =>
    /\ Made(rec.svc, rec.cid)
    /\ rec.pc = "open" => ~Exists(rec.svc, rec.cid)

SweepKnows ==
  sweep.pc \in {"stop", "clear"} =>
    \A s \in Services :
      /\ Made(s, sweep.cid[s])
      /\ sweep.pc = "clear" /\ sweep.svc = s => ~Exists(s, sweep.cid[s])

\* Nothing is left of the containers of s but what an operation will discard or has leaked.
Cleared(s) == Alive(s) \subseteq Pending(s) \cup leaked[s]

\* While the tenant is suspended: the services the sweep is through with are cleared, and those
\* to come name the container that it has listed, or none.
Swept(s) ==
  tenant = "suspended" =>
    /\ swept => Cleared(s)
    /\ sweep.pc \in {"stop", "clear"} => IF s \in sweep.todo THEN row[s].cid \in {NoCid, sweep.cid[s]} ELSE Cleared(s)

ContainerInv ==
  /\ \A s \in Services : Named(s) /\ Tracked(s) /\ Swept(s)
  /\ \A w \in Workers : Knows(w)
  /\ RecKnows /\ SweepKnows

-----------------------------------------------------------------------------
(* Containers come to life in Run alone. *)

\* No container of s comes to life, and none is forgotten.
Fades(s) ==
  \A c \in Ids : /\ docker'[s][c] \in {"running", "exited"} => docker[s][c] \in {"running", "exited"}
                 /\ docker[s][c] # "none" => docker'[s][c] # "none"

\* Removing containers brings none to life.
LEMMA WithoutFades ==
  ASSUME TypeOK, NEW t, NEW C, docker' = Without(t, C), NEW s \in Services
  PROVE  Fades(s)
  <1>1. CASE s = t
    BY <1>1 DEF TypeOK, Without, Fades, Exists
  <1>2. CASE s # t
    BY <1>2 DEF TypeOK, Without, Fades
  <1> QED BY <1>1, <1>2

\* A container that is changed from one live state to another was alive before.
LEMMA SetAliveFades ==
  ASSUME TypeOK, NEW t, NEW c, NEW st \in {"running", "exited"}, docker' = [docker EXCEPT ![t][c] = st],
         Exists(t, c), NEW s \in Services
  PROVE  Fades(s)
  BY DEF TypeOK, Fades, Exists

\* So is one that could not be removed.
LEMMA HalfRemovedFades ==
  ASSUME TypeOK, NEW t, NEW c, docker' \in HalfRemoved(t, c), NEW s \in Services
  PROVE  Fades(s)
  <1>1. CASE docker' = docker
    BY <1>1 DEF Fades
  <1>2. CASE Exists(t, c) /\ docker' = [docker EXCEPT ![t][c] = "exited"]
    BY <1>2, SetAliveFades
  <1> QED BY <1>1, <1>2 DEF HalfRemoved

\* A step of an operation other than RunContainer brings no container to life.
LEMMA OperateFades ==
  ASSUME TypeOK, NEW w \in Workers, Operate(w), ~Run(w), NEW s \in Services
  PROVE  Fades(s)
  <1>1. CASE UNCHANGED docker
    BY <1>1 DEF Fades
  <1>2. CASE Teardown(w)
    BY <1>2, WithoutFades, HalfRemovedFades DEF Teardown
  <1>3. CASE Discard(w)
    BY <1>3, WithoutFades, HalfRemovedFades DEF Discard
  <1>4. CASE StartContainer(w) \/ StopContainer(w)
    BY <1>1, <1>4, SetAliveFades DEF StartContainer, StopContainer
  <1>5. CASE RestoreStarted(w) \/ RemoveAll(w)
    BY <1>1, <1>5, WithoutFades, HalfRemovedFades DEF RestoreStarted, RemoveAll
  <1> QED BY <1>1, <1>2, <1>3, <1>4, <1>5
          DEF Operate, CheckAgain, Reject, LockService, Mark, Prep, Clear, Recheck, Activate, WriteRoute,
              StartWrite, StopWrite, Erase

\* RunContainer brings one to life that was never there, for its own service.
LEMMA RunFadesElsewhere ==
  ASSUME TypeOK, NEW w \in Workers, Run(w), NEW s \in Services, s # op[w].svc
  PROVE  Fades(s)
  <1>1. docker'[s] = docker[s]
    BY DEF Run, TypeOK
  <1> QED BY <1>1 DEF Fades

\* Nothing outside the operations brings a container to life.
LEMMA WorldFades ==
  ASSUME TypeOK, World, NEW s \in Services
  PROVE  Fades(s)
  <1>1. CASE UNCHANGED docker
    BY <1>1 DEF Fades
  <1>2. CASE RecTrip
    BY <1>2, WithoutFades, HalfRemovedFades DEF RecTrip
  <1>3. CASE RecRestart
    BY <1>1, <1>3, SetAliveFades DEF RecRestart
  <1>4. CASE RecUndo
    BY <1>1, <1>4 DEF RecUndo, TypeOK, Fades
  <1>5. CASE SweepLabel
    <2>1. CASE docker' = [t \in Services |-> Without(t, Ids)[t]]
      BY <2>1 DEF Without, TypeOK, Fades, Exists
    <2> QED BY <1>1, <1>5, <2>1 DEF SweepLabel
  <1>6. CASE \E t \in Services : SweepStop(t)
    BY <1>1, <1>6, WithoutFades, HalfRemovedFades DEF SweepStop
  <1>7. CASE \E t \in Services, c \in Ids : ContainerExit(t, c)
    BY <1>7 DEF ContainerExit, TypeOK, Fades
  <1>8. CASE Reconcile
    BY <1>1, <1>2, <1>3, <1>4, <1>8
       DEF Reconcile, RecWatch, RecInspect, RecRecord, RecRecover, RecOpen, RecAgain, UnchangedButRecRow
  <1>9. CASE Sweep
    BY <1>1, <1>5, <1>6, <1>9 DEF Sweep, SweepRows, SweepClear, SweepDone
  <1> QED BY <1>1, <1>7, <1>8, <1>9
          DEF World, Create, Begin, RecoverStale, RecoverCircuit, FailStaleDeploy, RecoverStaleRestart,
              Suspend, Reactivate, Crash, UnchangedButRecRow

\* What is not alive stays so.
LEMMA FadesAlive ==
  ASSUME NEW s \in Services, Fades(s)
  PROVE  Alive(s)' \subseteq Alive(s) /\ \A c \in Cids : Exists(s, c)' => Exists(s, c)
  BY DEF Fades, Alive, Exists, Cids

-----------------------------------------------------------------------------
(* The id that a row names changes in Activate, or when its container is gone. *)

KeepsCid(s) == row'[s].cid = row[s].cid \/ (row'[s].cid = NoCid /\ ~Exists(s, row[s].cid))

\* An UPDATE of the status keeps the id.
LEMMA WithStatusKeepsCid ==
  ASSUME TypeOK, NEW t, NEW st, row' = WithStatus(t, st), NEW s \in Services
  PROVE  KeepsCid(s)
  BY DEF TypeOK, RowType, WithStatus, KeepsCid

\* The compare-and-swap drops only the id it asks for.
LEMMA CasClearKeepsCid ==
  ASSUME TypeOK, NEW t, NEW c, NEW st, row' = CasClear(t, c, st), t \in Services => ~Exists(t, c),
         NEW s \in Services
  PROVE  KeepsCid(s)
  <1>1. CASE row' = row
    BY <1>1 DEF KeepsCid
  <1>2. CASE /\ row[t].cid = c
             /\ row' = [row EXCEPT ![t] = [row[t] EXCEPT !.cid = NoCid, !.status = st]]
    BY <1>2 DEF KeepsCid, TypeOK, RowType
  <1> QED BY <1>1, <1>2 DEF CasClear

\* With no container alive, the id of a row may change to none.
LEMMA EmptyNames ==
  ASSUME NEW s \in Services, Alive(s) = {}, NEW c \in Cids
  PROVE  ~Exists(s, c)
  BY DEF Alive, Exists, Cids

\* A step of an operation other than the final write of a deploy keeps the ids.
LEMMA OperateKeepsCid ==
  ASSUME TypeOK, BusyHasService, NEW w \in Workers, Purpose(w), Knows(w), Operate(w), ~Activate(w),
         NEW s \in Services
  PROVE  KeepsCid(s)
  <1>1. CASE UNCHANGED row
    BY <1>1 DEF KeepsCid
  <1>2. CASE FailDeployment(w)
    BY <1>2, WithStatusKeepsCid DEF FailDeployment
  <1>3. CASE Reject(w) \/ StartWrite(w) \/ StopWrite(w) \/ Discard(w) \/ Mark(w)
    BY <1>1, <1>3, WithStatusKeepsCid DEF Reject, StartWrite, StopWrite, Discard, Mark
  <1>4. CASE Prep(w) \/ Recheck(w) \/ Run(w)
    BY <1>1, <1>2, <1>4 DEF Prep, Recheck, Run
  <1>5. CASE Teardown(w)
    <2>1. CASE row' = [row EXCEPT ![op[w].svc].status = op[w].was]
      BY <2>1 DEF KeepsCid, TypeOK, RowType
    <2> QED BY <1>1, <1>2, <1>5, <2>1 DEF Teardown
  <1>6. CASE Clear(w)
    <2> DEFINE t == op[w].svc
    <2>1. op[w].pc = "clear" /\ t \in Services
      BY <1>6 DEF Clear, At, BusyHasService
    <2>2. CASE DeployPath(w)
      <3>1. row' = CasClear(t, op[w].cid, row[t].status)
        BY <1>6, <2>2 DEF Clear
      <3>2. ~Exists(t, op[w].cid)
        BY <2>1 DEF Knows
      <3> QED BY <3>1, <3>2, CasClearKeepsCid
    <2>3. CASE ~DeployPath(w)
      <3>1. Alive(t) = {}
        BY <2>1, <2>3 DEF Purpose, Working, Knows
      <3>2. row[t] \in RowType
        BY <2>1 DEF TypeOK
      <3>3. ~Exists(t, row[t].cid)
        BY <2>1, <3>1, <3>2, EmptyNames DEF RowType
      <3>4. row'[s].cid = row[s].cid \/ (s = t /\ row'[s].cid = NoCid)
        BY <1>6, <2>1, <2>3, <3>2 DEF Clear, TypeOK, RowType
      <3> QED BY <3>3, <3>4 DEF KeepsCid
    <2> QED BY <2>2, <2>3
  <1>7. CASE StartContainer(w) \/ StopContainer(w)
    BY <1>1, <1>7, CasClearKeepsCid DEF StartContainer, StopContainer
  <1>8. CASE Erase(w)
    <2> DEFINE t == op[w].svc
    <2>1. op[w].pc = "erase" /\ t \in Services
      BY <1>8 DEF Erase, At, BusyHasService
    <2>2. Alive(t) = {} /\ row[t] \in RowType
      BY <2>1 DEF Knows, TypeOK
    <2>3. ~Exists(t, row[t].cid)
      BY <2>1, <2>2, EmptyNames DEF RowType
    <2>4. row'[s].cid = row[s].cid \/ (s = t /\ row'[s].cid = NoCid)
      BY <1>8, <2>1 DEF Erase, TypeOK
    <2> QED BY <2>3, <2>4 DEF KeepsCid
  <1> QED BY <1>1, <1>3, <1>4, <1>5, <1>6, <1>7, <1>8
          DEF Operate, CheckAgain, LockService, WriteRoute, RestoreStarted, RemoveAll

\* Outside the operations an id goes only after its container.
LEMMA WorldKeepsCid ==
  ASSUME TypeOK, RecKnows, SweepKnows, World, NEW s \in Services
  PROVE  KeepsCid(s)
  <1>1. CASE UNCHANGED row
    BY <1>1 DEF KeepsCid
  <1>0. row \in [Services -> RowType] /\ row[s] \in RowType
    BY DEF TypeOK
  <1>2. CASE RecRecord \/ RecRecover
    <2>1. ASSUME NEW t, NEW st, NEW n,
                 row' = [row EXCEPT ![t] = [row[t] EXCEPT !.status = st, !.crash = n]]
          PROVE  KeepsCid(s)
      BY <1>0, <2>1 DEF RowType, KeepsCid
    <2>2. ASSUME NEW t, NEW st, row' = [row EXCEPT ![t].status = st]
          PROVE  KeepsCid(s)
      BY <1>0, <2>2 DEF RowType, KeepsCid
    <2> QED BY <1>1, <1>2, <2>1, <2>2 DEF RecRecord, RecRecover
  <1>3. CASE RecOpen
    <2>1. CASE /\ rec.svc = s
               /\ row[s].cid = rec.cid
               /\ row' = [row EXCEPT ![s] = [row[s] EXCEPT !.circuit = TRUE, !.cid = NoCid]]
      <3>1. row'[s].cid = NoCid
        BY <1>0, <2>1 DEF RowType
      <3> QED BY <1>3, <2>1, <3>1 DEF RecOpen, RecKnows, KeepsCid
    <2>2. CASE row'[s] = row[s]
      BY <2>2 DEF KeepsCid
    <2> QED BY <1>0, <1>3, <2>1, <2>2 DEF RecOpen
  <1>4. CASE RecoverStale
    <2>1. ASSUME NEW t \in Services, RecoverCircuit(t) PROVE KeepsCid(s)
      BY <1>0, <2>1 DEF RecoverCircuit, RowType, KeepsCid
    <2>2. ASSUME NEW t \in Services, FailStaleDeploy(t) \/ RecoverStaleRestart(t) PROVE KeepsCid(s)
      BY <1>0, <2>2 DEF FailStaleDeploy, RecoverStaleRestart, RowType, KeepsCid
    <2> QED BY <1>4, <2>1, <2>2 DEF RecoverStale
  <1>5. CASE SweepClear
    BY <1>5, CasClearKeepsCid DEF SweepClear, SweepKnows
  <1>6. CASE \E t \in Services : SweepStop(t)
    BY <1>1, <1>6, WithStatusKeepsCid DEF SweepStop
  <1>7. CASE \E t \in Services : Create(t)
    BY <1>7 DEF Create, TypeOK, RowType, KeepsCid
  <1>8. CASE Reconcile
    BY <1>1, <1>2, <1>3, <1>8
       DEF Reconcile, RecWatch, RecInspect, RecTrip, RecRestart, RecAgain, RecUndo, UnchangedButRecRow
  <1>9. CASE Sweep
    BY <1>1, <1>5, <1>6, <1>9 DEF Sweep, SweepLabel, SweepRows, SweepDone
  <1> QED BY <1>1, <1>4, <1>7, <1>8, <1>9 DEF World, Begin, Suspend, Reactivate, ContainerExit, Crash

-----------------------------------------------------------------------------
(* What the workers know stays true. *)

\* With no other worker at the service, and no container coming to life there, what a worker
\* knows stays true.
LEMMA KnowsStays ==
  ASSUME TypeOK, BusyHasService, NewContainer, NEW v \in Workers, Knows(v), op'[v] = op[v],
         op[v].pc \in Locked => Fades(op[v].svc) /\ KeepsCid(op[v].svc)
  PROVE  Knows(v)'
  <1>1. CASE op[v].pc \notin Locked
    BY <1>1 DEF Knows, Locked, Working
  <1>2. CASE op[v].pc \in Locked
    <2>1. PICK s \in Services : s = op[v].svc
      BY <1>2 DEF BusyHasService, Locked, Working
    <2>2. /\ Fades(s) /\ KeepsCid(s) /\ op[v].cid \in Cids /\ op[v].new \in Cids
          /\ row[s].cid \in Cids
      BY <1>2, <2>1 DEF TypeOK, OpType, RowType
    <2>3. Alive(s)' \subseteq Alive(s) /\ \A c \in Cids : Exists(s, c)' => Exists(s, c)
      BY <2>2, FadesAlive
    <2>4. ASSUME op[v].pc \in {"activate", "discard"}
          PROVE  /\ Alive(s)' \subseteq {op[v].new}
                 /\ docker'[s][op[v].new] # "none"
                 /\ row'[s].cid # op[v].new
      BY <2>1, <2>2, <2>3, <2>4 DEF Knows, NewContainer, Fades, KeepsCid, Ids, NoCid
    <2>5. ASSUME op[v].pc = "route"
          PROVE  Alive(s)' \subseteq {row'[s].cid}
      BY <2>1, <2>2, <2>3, <2>5 DEF Knows, KeepsCid, Alive
    <2>6. op'[v].svc = s
      BY <2>1
    <2>7. /\ op[v].pc = "erase" => Alive(s)' = {}
          /\ op[v].pc = "clear" => ~Exists(s, op[v].cid)'
          /\ op[v].pc = "clear" /\ op[v].kind = "restart" => Alive(s)' = {}
      BY <2>1, <2>2, <2>3, <2>6 DEF Knows
    <2> QED BY <2>1, <2>4, <2>5, <2>6, <2>7 DEF Knows
  <1> QED BY <1>1, <1>2

\* A worker that returns knows of no container.
LEMMA ReturnKnows ==
  ASSUME TypeOK, NEW w \in Workers, Return(w)
  PROVE  Knows(w)'
  BY DEF TypeOK, Return, Idle, Knows

\* Nor does one that moves to a step before its own container, or after another's.
LEMMA GotoKnows ==
  ASSUME TypeOK, NEW w \in Workers, NEW pc, pc \notin {"erase", "clear", "activate", "discard", "route"},
         op[w].new = NoCid, op'[w].pc = pc, op'[w].new = NoCid
  PROVE  Knows(w)'
  BY DEF Knows

\* What a worker knows after a step of its own is true.
LEMMA OwnKnows ==
  ASSUME TypeOK, TypeOK', BusyHasService, NewContainer, NEW w \in Workers, Purpose(w), Knows(w),
         \A s \in Services : Named(s), Operate(w)
  PROVE  Knows(w)'
  <1>0. op \in [Workers -> OpType] /\ op[w] \in OpType /\ docker \in [Services -> [Ids -> ContainerStates]]
    BY DEF TypeOK
  <1>1. CASE Return(w)
    BY <1>1, ReturnKnows
  <1>2. PICK s \in Services : s = op[w].svc
    <2>1. op[w].pc # "idle"
      BY DEF Operate, CheckAgain, Reject, LockService, Mark, Prep, Teardown, Clear, Recheck, Run, Activate,
             Discard, WriteRoute, StartContainer, RestoreStarted, StartWrite, StopContainer, StopWrite,
             RemoveAll, Erase, At
    <2> QED BY <2>1 DEF BusyHasService
  <1>3. CASE op[w].pc \notin {"activate", "discard", "route"}
    <2>0. op[w].new = NoCid
      BY <1>3 DEF Knows
    <2>1. ASSUME NEW pc \in Steps \ {"erase", "clear", "activate", "discard", "route"}, Goto(w, pc)
          PROVE  Knows(w)'
      <3>1. op'[w].pc = pc /\ op'[w].new = NoCid
        BY <1>0, <2>0, <2>1 DEF Goto, OpType
      <3> QED BY <2>0, <3>1, GotoKnows
    <2>2. CASE CheckAgain(w) \/ Reject(w) \/ Mark(w) \/ Recheck(w)
      BY <1>1, <2>1, <2>2 DEF CheckAgain, Reject, Mark, Recheck, Admitted, FailDeployment, Steps
    <2>3. CASE LockService(w)
      <3>1. ASSUME NEW pc \in Entries, Enter(w, pc) PROVE Knows(w)'
        <4>1. op'[w].pc = pc /\ op'[w].new = NoCid
          BY <1>0, <2>0, <3>1 DEF Enter, OpType
        <4> QED BY <2>0, <4>1, GotoKnows DEF Entries
      <3> QED BY <1>1, <2>3, <3>1, LockServiceEnters
    <2>4. CASE Prep(w) \/ Clear(w)
      <3>1. CASE /\ op'[w].pc \in {"teardown", "recheck"}
                 /\ op'[w].new = NoCid
        BY <2>0, <3>1, GotoKnows
      <3>2. Clear(w) => op'[w].pc = "recheck" /\ op'[w].new = NoCid
        BY <1>0, <2>0 DEF Clear, OpType
      <3>3. Prep(w) => Return(w) \/ (op'[w].pc = "teardown" /\ op'[w].new = NoCid)
        BY <1>0, <2>0 DEF Prep, FailDeployment, OpType
      <3> QED BY <1>1, <2>4, <3>1, <3>2, <3>3
    <2>5. CASE Teardown(w)
      <3>1. CASE /\ Goto(w, "clear")
                 /\ docker' = Without(s, IF op[w].kind = "restart" THEN Ids ELSE {op[w].cid})
        <4>1. /\ op'[w].pc = "clear" /\ op'[w].svc = s /\ op'[w].cid = op[w].cid /\ op'[w].cid \in Cids
              /\ op'[w].kind = op[w].kind /\ op'[w].new = NoCid
          BY <1>0, <1>2, <2>0, <3>1 DEF Goto, OpType
        <4>2. ~Exists(s, op[w].cid)'
          BY <1>0, <3>1, <4>1 DEF Without, Exists, ContainerStates, Cids
        <4>3. op[w].kind = "restart" => Alive(s)' = {}
          BY <1>0, <3>1 DEF Without, Exists, Alive
        <4> QED BY <4>1, <4>2, <4>3 DEF Knows
      <3> QED BY <1>1, <1>2, <2>5, <3>1 DEF Teardown, FailDeployment
    <2>6. CASE Run(w)
      <3>1. ASSUME NEW c \in Fresh(s), Alive(s) = {}, docker' = [docker EXCEPT ![s][c] = "running"],
                   op' = [op EXCEPT ![w] = [op[w] EXCEPT !.pc = "activate", !.new = c]], UNCHANGED row
            PROVE  Knows(w)'
        <4>1. op'[w].pc = "activate" /\ op'[w].svc = s /\ op'[w].new = c /\ c \in Ids /\ docker[s][c] = "none"
          BY <1>0, <1>2, <3>1 DEF OpType, Fresh
        <4>2. Alive(s)' \subseteq {c} /\ docker'[s][c] # "none"
          BY <1>0, <3>1, <4>1 DEF Alive, Exists
        <4>3. row'[s].cid # c
          BY <1>2, <3>1, <4>1 DEF Named, Made, Ids, NoCid
        <4> QED BY <4>1, <4>2, <4>3 DEF Knows
      <3> QED BY <1>1, <1>2, <2>6, <3>1 DEF Run, FailDeployment
    <2>7. CASE StartContainer(w) \/ RestoreStarted(w) \/ StartWrite(w) \/ StopContainer(w) \/ StopWrite(w) \/ Erase(w)
      BY <1>1, <2>1, <2>7 DEF StartContainer, RestoreStarted, StartWrite, StopContainer, StopWrite, Erase, Steps
    <2>8. CASE RemoveAll(w)
      <3>1. CASE Goto(w, "erase") /\ docker' = Without(s, Ids)
        <4>1. op'[w].pc = "erase" /\ op'[w].svc = s /\ op'[w].new = NoCid
          BY <1>0, <1>2, <2>0, <3>1 DEF Goto, OpType
        <4>2. Alive(s)' = {}
          BY <1>0, <3>1 DEF Without, Exists, Alive
        <4> QED BY <4>1, <4>2 DEF Knows
      <3> QED BY <1>1, <1>2, <2>8, <3>1 DEF RemoveAll
    <2> QED BY <1>3, <2>2, <2>3, <2>4, <2>5, <2>6, <2>7, <2>8
            DEF Operate, Activate, Discard, WriteRoute, At
  <1>4. CASE Activate(w)
    <2>0. /\ op[w].new \in Ids /\ Alive(s) \subseteq {op[w].new} /\ docker[s][op[w].new] # "none"
          /\ row[s].cid # op[w].new /\ docker' = docker
      BY <1>2, <1>4 DEF Activate, At, NewContainer, Knows
    <2>1. CASE /\ row' = [row EXCEPT ![s] = [row[s] EXCEPT !.status = "running", !.cid = op[w].new]]
               /\ Goto(w, "route")
      <3>1. op'[w].pc = "route" /\ op'[w].svc = s /\ op'[w].new = op[w].new
        BY <1>0, <1>2, <2>1 DEF Goto, OpType
      <3>2. row'[s].cid = op[w].new
        BY <2>1 DEF TypeOK, RowType
      <3>3. Alive(s)' = Alive(s)
        BY <2>0 DEF Alive, Exists
      <3> QED BY <2>0, <3>1, <3>2, <3>3 DEF Knows
    <2>2. CASE op'[w].pc = "discard" /\ op'[w].svc = s /\ op'[w].new = op[w].new /\ UNCHANGED row
      <3>1. Alive(s)' = Alive(s)
        BY <2>0 DEF Alive, Exists
      <3> QED BY <2>0, <2>2, <3>1 DEF Knows
    <2>3. Goto(w, "discard") => op'[w].pc = "discard" /\ op'[w].svc = s /\ op'[w].new = op[w].new
      BY <1>0, <1>2 DEF Goto, OpType
    <2>4. op' = [op EXCEPT ![w] = [op[w] EXCEPT !.pc = "discard", !.interrupted = TRUE]]
            => op'[w].pc = "discard" /\ op'[w].svc = s /\ op'[w].new = op[w].new
      BY <1>0, <1>2 DEF OpType
    <2> QED BY <1>2, <1>4, <2>1, <2>2, <2>3, <2>4 DEF Activate
  <1>5. CASE Discard(w) \/ WriteRoute(w)
    BY <1>1, <1>5 DEF Discard, WriteRoute
  <1> QED BY <1>3, <1>4, <1>5
          DEF Operate, CheckAgain, Reject, LockService, Mark, Prep, Teardown, Clear, Recheck, Run,
              StartContainer, RestoreStarted, StartWrite, StopContainer, StopWrite, RemoveAll, Erase, At

-----------------------------------------------------------------------------
(* What was created and is gone does not come back. *)

NoRevival(s) ==
  \A c \in Ids : docker[s][c] # "none" =>
    /\ docker'[s][c] # "none"
    /\ docker'[s][c] \in {"running", "exited"} => docker[s][c] \in {"running", "exited"}

\* No step of anybody revives a container.
LEMMA NobodyRevives ==
  ASSUME TypeOK, Next, NEW s \in Services
  PROVE  NoRevival(s)
  <1>1. CASE Fades(s)
    BY <1>1 DEF Fades, NoRevival
  <1>2. ASSUME NEW w \in Workers, Run(w) PROVE NoRevival(s)
    <2>1. CASE docker' = docker
      BY <2>1 DEF NoRevival
    <2>2. ASSUME NEW t, NEW c \in Fresh(t), NEW st, docker' = [docker EXCEPT ![t][c] = st]
          PROVE  NoRevival(s)
      BY <2>2 DEF Fresh, TypeOK, NoRevival
    <2> QED BY <1>2, <2>1, <2>2 DEF Run
  <1> QED BY <1>1, <1>2, OperateFades, WorldFades DEF Next, World

\* So what was made stays made, and what is gone stays gone.
LEMMA GoneStays ==
  ASSUME NEW s \in Services, NoRevival(s), NEW c \in Cids, Made(s, c)
  PROVE  Made(s, c)' /\ (~Exists(s, c) => ~Exists(s, c)')
  BY DEF NoRevival, Made, Exists, Cids, NoCid

\* The reconciler's steps are about one container from the read to the end of the tick.
LEMMA RecMoves ==
  ASSUME TypeOK, World
  PROVE  \/ UNCHANGED rec
         \/ rec'.pc = "idle"
         \/ \E s \in Services : RecWatch(s)
         \/ /\ rec.pc # "idle" /\ rec'.svc = rec.svc /\ rec'.cid = rec.cid
            /\ rec'.pc = "open" => docker' = Without(rec.svc, {rec.cid})
  <1>0. rec \in RecType
    BY DEF TypeOK
  <1>1. ASSUME NEW pc, RecGoto(pc)
        PROVE  rec'.pc = pc /\ rec'.svc = rec.svc /\ rec'.cid = rec.cid
    <2>1. RecIdle = [pc |-> "idle", svc |-> "none", cid |-> NoCid, was |-> "absent", crash |-> 0,
                     why |-> "none"]
      BY DEF RecIdle
    <2>2. \A a, b, c : /\ [RecIdle EXCEPT !.pc = a, !.svc = b, !.cid = c].pc = a
                       /\ [RecIdle EXCEPT !.pc = a, !.svc = b, !.cid = c].svc = b
                       /\ [RecIdle EXCEPT !.pc = a, !.svc = b, !.cid = c].cid = c
      BY <2>1
    <2> QED BY <1>1, <2>2 DEF RecGoto
  <1>2. rec' = RecIdle => rec'.pc = "idle"
    BY DEF RecIdle
  <1>3. CASE RecInspect
    <2>1. CASE rec' = [rec EXCEPT !.pc = "recover"]
      BY <1>0, <1>3, <2>1 DEF RecInspect, RecType
    <2>2. ASSUME NEW why, rec' = [rec EXCEPT !.pc = "record", !.why = why]
          PROVE  rec.pc # "idle" /\ rec'.svc = rec.svc /\ rec'.cid = rec.cid /\ rec'.pc # "open"
      BY <1>0, <1>3, <2>2 DEF RecInspect, RecType
    <2>3. CASE RecGoto("trip")
      BY <1>1, <1>3, <2>3 DEF RecInspect
    <2> QED BY <1>2, <1>3, <2>1, <2>2, <2>3 DEF RecInspect
  <1>4. CASE RecRecord
    <2>1. rec.pc = "record" /\ (RecGoto("trip") \/ RecGoto("restart") \/ rec' = RecIdle)
      BY <1>4 DEF RecRecord
    <2> QED BY <1>1, <1>2, <2>1
  <1>5. CASE RecTrip
    BY <1>1, <1>2, <1>5 DEF RecTrip
  <1>6. CASE RecRestart \/ RecAgain
    BY <1>1, <1>2, <1>6 DEF RecRestart, RecAgain
  <1>7. CASE RecRecover \/ RecOpen \/ RecUndo
    BY <1>2, <1>7 DEF RecRecover, RecOpen, RecUndo
  <1>8. CASE RecoverStale
    BY <1>8 DEF RecoverStale, RecoverCircuit, FailStaleDeploy, RecoverStaleRestart
  <1>9. CASE Sweep
    BY <1>9 DEF Sweep, SweepLabel, SweepRows, SweepStop, SweepClear, SweepDone
  <1> QED BY <1>2, <1>3, <1>4, <1>5, <1>6, <1>7, <1>8, <1>9
          DEF World, Reconcile, Create, Begin, Suspend, Reactivate, ContainerExit, Crash

\* The reconciler clears an id only when its container is gone.
LEMMA RecKeepsKnowing ==
  ASSUME TypeOK, TypeOK', Next, RecKnows, \A s \in Services : Named(s)
  PROVE  RecKnows'
  <1>0. rec \in RecType /\ rec.cid \in Cids /\ row \in [Services -> RowType]
    BY DEF TypeOK, RecType
  <1>1. CASE UNCHANGED rec
    BY <1>0, <1>1, NobodyRevives, GoneStays DEF RecKnows
  <1>2. CASE World
    <2>1. CASE rec'.pc = "idle"
      BY <2>1 DEF RecKnows
    <2>2. ASSUME NEW s \in Services, RecWatch(s) PROVE RecKnows'
      <3>1. rec'.svc = s /\ rec'.cid = row[s].cid /\ rec'.pc = "inspect" /\ docker' = docker
        BY <2>2 DEF RecWatch, UnchangedButRecRow
      <3> QED BY <3>1 DEF RecKnows, Named, Made
    <2>3. CASE /\ rec.pc # "idle" /\ rec'.svc = rec.svc /\ rec'.cid = rec.cid
               /\ rec'.pc = "open" => docker' = Without(rec.svc, {rec.cid})
      <3>1. rec.svc \in Services => Made(rec.svc, rec.cid)'
        BY <1>0, <2>3, NobodyRevives, GoneStays DEF RecKnows
      <3>2. rec.svc \in Services /\ docker' = Without(rec.svc, {rec.cid}) => ~Exists(rec.svc, rec.cid)'
        BY <1>0, <2>3 DEF Without, Exists, TypeOK, Cids
      <3> QED BY <2>3, <3>1, <3>2 DEF RecKnows
    <2> QED BY <1>1, <1>2, <2>1, <2>2, <2>3, RecMoves
  <1>3. (\E w \in Workers : Operate(w)) => UNCHANGED rec
    BY DEF Operate, CheckAgain, Reject, LockService, Mark, Prep, Teardown, Clear, Recheck, Run, Activate,
           Discard, WriteRoute, StartContainer, RestoreStarted, StartWrite, StopContainer, StopWrite,
           RemoveAll, Erase
  <1> QED BY <1>1, <1>2, <1>3 DEF Next, World

\* So does StopAllForTenant.
LEMMA SweepKeepsKnowing ==
  ASSUME TypeOK, TypeOK', Next, SweepKnows, \A s \in Services : Named(s)
  PROVE  SweepKnows'
  <1>0. sweep \in SweepType /\ row \in [Services -> RowType] /\ docker \in [Services -> [Ids -> ContainerStates]]
        /\ sweep.cid \in [Services -> Cids]
    BY DEF TypeOK, SweepType
  <1>1. \A s \in Services : NoRevival(s)
    BY NobodyRevives
  <1>2. CASE UNCHANGED sweep
    BY <1>0, <1>1, <1>2, GoneStays DEF SweepKnows
  <1>3. CASE sweep'.pc \notin {"stop", "clear"}
    BY <1>3 DEF SweepKnows
  <1>4. CASE SweepRows
    <2>1. /\ sweep'.pc = "stop"
          /\ \A s \in Services : sweep'.cid[s] = row[s].cid
          /\ docker' = docker
      BY <1>0, <1>4 DEF SweepRows, SweepType
    <2> QED BY <2>1 DEF SweepKnows, Named, Made
  <1>5. ASSUME sweep.pc \in {"stop", "clear"}, sweep'.cid = sweep.cid,
               sweep'.pc = "clear" => docker' = Without(sweep'.svc, {sweep.cid[sweep'.svc]})
        PROVE  SweepKnows'
    <2>1. ASSUME NEW s \in Services PROVE Made(s, sweep.cid[s])'
      <3>1. PICK c \in Cids : c = sweep.cid[s]
        BY <1>0
      <3>2. Made(s, c)'
        BY <1>1, <1>5, <3>1, GoneStays DEF SweepKnows
      <3> QED BY <1>5, <3>1, <3>2
    <2>2. ASSUME NEW s \in Services, sweep'.pc = "clear", sweep'.svc = s
          PROVE  ~Exists(s, sweep.cid[s])'
      BY <1>0, <1>5, <2>2 DEF Without, Exists, Cids
    <2> QED BY <1>5, <2>1, <2>2 DEF SweepKnows
  <1>6. ASSUME NEW t \in Services, SweepStop(t) PROVE SweepKnows'
    <2>1. CASE sweep'.pc = "clear" /\ sweep'.svc = t /\ sweep'.cid = sweep.cid /\ docker' = Without(t, {sweep.cid[t]})
      BY <1>5, <1>6, <2>1 DEF SweepStop
    <2>2. CASE sweep'.pc = "stop" /\ sweep'.cid = sweep.cid
      BY <1>5, <1>6, <2>2 DEF SweepStop
    <2> QED BY <1>0, <1>6, <2>1, <2>2 DEF SweepStop, SweepType
  <1>7. CASE SweepClear
    <2>1. sweep'.pc = "stop" /\ sweep'.cid = sweep.cid
      BY <1>0, <1>7 DEF SweepClear, SweepType
    <2> QED BY <1>5, <1>7, <2>1 DEF SweepClear
  <1>8. SweepLabel => sweep'.pc = "rows"
    BY <1>0 DEF SweepLabel, SweepType
  <1>9. SweepDone \/ Crash \/ Suspend => sweep'.pc \in {"idle", "label"}
    BY DEF SweepDone, Crash, Suspend, SweepIdle
  <1>10. CASE Sweep
    BY <1>3, <1>4, <1>6, <1>7, <1>8, <1>9, <1>10 DEF Sweep
  <1>11. (\E w \in Workers : Operate(w)) => UNCHANGED sweep
    BY DEF Operate, CheckAgain, Reject, LockService, Mark, Prep, Teardown, Clear, Recheck, Run, Activate,
           Discard, WriteRoute, StartContainer, RestoreStarted, StartWrite, StopContainer, StopWrite,
           RemoveAll, Erase
  <1>12. Reconcile \/ RecoverStale => UNCHANGED sweep
    BY DEF Reconcile, RecWatch, RecInspect, RecRecord, RecRecover, RecTrip, RecOpen, RecRestart, RecAgain,
           RecUndo, RecoverStale, RecoverCircuit, FailStaleDeploy, RecoverStaleRestart, UnchangedButRecRow
  <1> QED BY <1>2, <1>3, <1>9, <1>10, <1>11, <1>12 DEF Next, Create, Begin, Reactivate, ContainerExit

-----------------------------------------------------------------------------
(* Every container has somebody who knows of it. *)

\* A container that is alive keeps whoever knew of it, or gets another.
LEMMA TrackedStays ==
  ASSUME NEW s \in Services, Tracked(s), Fades(s), KeepsCid(s), leaked[s] \subseteq leaked'[s],
         \A v \in Workers, c \in Ids :
           op[v].svc = s /\ op[v].new = c /\ Exists(s, c)' =>
             (op'[v].svc = s /\ op'[v].new = c) \/ c \in leaked'[s] \/ c = row'[s].cid
  PROVE  Tracked(s)'
  <1>1. SUFFICES ASSUME NEW c \in Ids, Exists(s, c)'
                 PROVE  c \in {row'[s].cid} \cup InFlight(s)' \cup leaked'[s]
    BY DEF Tracked, Alive
  <1>2. Exists(s, c) /\ c # NoCid
    BY <1>1 DEF Fades, Exists, Ids, NoCid
  <1>3. CASE c = row[s].cid
    BY <1>2, <1>3 DEF KeepsCid
  <1>4. CASE c \in InFlight(s)
    BY <1>1, <1>2, <1>4 DEF InFlight
  <1>5. c = row[s].cid \/ c \in InFlight(s) \/ c \in leaked[s]
    BY <1>2 DEF Tracked, Alive
  <1> QED BY <1>3, <1>4, <1>5

\* No container is taken off the list of the leaked.
LEMMA LeakedGrows ==
  ASSUME TypeOK, Next, NEW s \in Services
  PROVE  leaked[s] \subseteq leaked'[s]
  <1>1. CASE UNCHANGED leaked
    BY <1>1
  <1>2. ASSUME NEW t, NEW c, leaked' = [leaked EXCEPT ![t] = @ \cup {c}]
        PROVE  leaked[s] \subseteq leaked'[s]
    BY <1>2 DEF TypeOK
  <1>3. ASSUME NEW w \in Workers, Run(w) \/ Discard(w)
        PROVE  leaked[s] \subseteq leaked'[s]
    BY <1>1, <1>2, <1>3 DEF Run, Discard
  <1>4. ASSUME NEW t \in Services, SweepStop(t)
        PROVE  leaked[s] \subseteq leaked'[s]
    BY <1>1, <1>2, <1>4 DEF SweepStop
  <1>5. CASE Crash
    BY <1>5 DEF Crash, TypeOK
  <1>6. ASSUME NEW w \in Workers, Operate(w), ~Run(w), ~Discard(w) PROVE UNCHANGED leaked
    BY <1>6 DEF Operate, CheckAgain, Reject, LockService, Mark, Prep, Teardown, Clear, Recheck, Activate,
           WriteRoute, StartContainer, RestoreStarted, StartWrite, StopContainer, StopWrite, RemoveAll, Erase
  <1>7. Reconcile \/ RecoverStale => UNCHANGED leaked
    BY DEF Reconcile, RecWatch, RecInspect, RecRecord, RecRecover, RecTrip, RecOpen, RecRestart, RecAgain,
           RecUndo, RecoverStale, RecoverCircuit, FailStaleDeploy, RecoverStaleRestart, UnchangedButRecRow
  <1> QED BY <1>1, <1>3, <1>4, <1>5, <1>6, <1>7
          DEF Next, Create, Begin, Suspend, Reactivate, ContainerExit, Sweep, SweepLabel, SweepRows,
              SweepClear, SweepDone

\* Outside the operations and a crash, a worker stands still or starts one.
LEMMA WorldOps ==
  ASSUME TypeOK, World, ~Crash, NEW v \in Workers
  PROVE  op'[v] = op[v] \/ op[v].pc = "idle"
  <1>1. CASE UNCHANGED op
    BY <1>1
  <1>2. ASSUME NEW w \in Workers, NEW k \in Kinds, NEW s \in Services, Begin(w, k, s)
        PROVE  op'[v] = op[v] \/ op[v].pc = "idle"
    BY <1>2 DEF Begin, Goes, At, TypeOK
  <1>3. Reconcile \/ RecoverStale => UNCHANGED op
    BY DEF Reconcile, RecWatch, RecInspect, RecRecord, RecRecover, RecTrip, RecOpen, RecRestart, RecAgain,
           RecUndo, RecoverStale, RecoverCircuit, FailStaleDeploy, RecoverStaleRestart, UnchangedButRecRow
  <1> QED BY <1>1, <1>2, <1>3
          DEF World, Create, Suspend, Reactivate, ContainerExit, Sweep, SweepLabel, SweepRows, SweepStop,
              SweepClear, SweepDone

\* A worker that moves on keeps its service and its container.
LEMMA MovesOn ==
  ASSUME op \in [Workers -> OpType], NEW w \in Workers, NEW pc,
         Goto(w, pc) \/ op' = [op EXCEPT ![w] = [op[w] EXCEPT !.pc = pc, !.interrupted = TRUE]]
  PROVE  op'[w].svc = op[w].svc /\ op'[w].new = op[w].new /\ op'[w].pc = pc
  <1>0. op[w] \in OpType
    OBVIOUS
  <1>1. CASE Goto(w, pc)
    BY <1>0, <1>1 DEF Goto, OpType
  <1>2. CASE op' = [op EXCEPT ![w] = [op[w] EXCEPT !.pc = pc, !.interrupted = TRUE]]
    BY <1>0, <1>2 DEF OpType
  <1> QED BY <1>1, <1>2

\* A worker's step leaves every container known.
LEMMA OperateTracked ==
  ASSUME LifecycleInv, ContainerInv, NEW w \in Workers, Operate(w), NEW s \in Services
  PROVE  Tracked(s)'
  <1>0. /\ TypeOK /\ BusyHasService /\ NewContainer /\ Purpose(w) /\ Knows(w) /\ Tracked(s) /\ Next
        /\ op \in [Workers -> OpType] /\ op[w] \in OpType
    BY DEF LifecycleInv, Typed, ContainerInv, TypeOK, Next
  <1>1. leaked[s] \subseteq leaked'[s]
    BY <1>0, LeakedGrows
  <1>2. \A v \in Workers \ {w} : op'[v] = op[v]
    BY <1>0, OperateAdvance DEF Advance
  <1>3. CASE Activate(w)
    <2>1. docker' = docker /\ op[w].new \in Ids
      BY <1>0, <1>3 DEF Activate, At, NewContainer
    <2>2. op'[w].svc = op[w].svc /\ op'[w].new = op[w].new
      <3>1. \/ Goto(w, "route") \/ Goto(w, "discard")
            \/ op' = [op EXCEPT ![w] = [op[w] EXCEPT !.pc = "discard", !.interrupted = TRUE]]
        BY <1>3 DEF Activate
      <3> QED BY <1>0, <3>1, MovesOn
    <2>3. CASE op[w].svc = s
      <3>1. Alive(s)' \subseteq {op[w].new}
        BY <1>0, <1>3, <2>1, <2>3 DEF Activate, At, Knows, Alive, Exists
      <3>2. op[w].new \in InFlight(s)'
        BY <2>1, <2>2, <2>3 DEF InFlight, Ids, NoCid
      <3> QED BY <3>1, <3>2 DEF Tracked
    <2>4. CASE op[w].svc # s
      <3>1. row'[s] = row[s]
        BY <1>0, <1>3, <2>4 DEF Activate, TypeOK
      <3>2. KeepsCid(s) /\ Fades(s)
        BY <2>1, <3>1 DEF KeepsCid, Fades
      <3> QED BY <1>0, <1>1, <1>2, <2>2, <2>4, <3>2, TrackedStays
    <2> QED BY <2>3, <2>4
  <1>4. CASE Run(w)
    <2>1. KeepsCid(s)
      <3>1. ~Activate(w)
        BY <1>4 DEF Run, Activate, At
      <3> QED BY <1>0, <3>1, OperateKeepsCid
    <2>2. op[w].new = NoCid
      BY <1>0, <1>4 DEF Run, At, Knows
    <2>3. CASE Fades(s)
      BY <1>0, <1>1, <1>2, <2>1, <2>2, <2>3, TrackedStays DEF Ids, NoCid
    <2>4. ASSUME NEW c \in Fresh(s), NEW st \in {"running", "exited"}, op[w].svc = s, Alive(s) = {},
                 docker' = [docker EXCEPT ![s][c] = st],
                 \/ op' = [op EXCEPT ![w] = [op[w] EXCEPT !.pc = "activate", !.new = c]]
                 \/ leaked' = [leaked EXCEPT ![s] = @ \cup {c}]
          PROVE  Tracked(s)'
      <3>1. Alive(s)' \subseteq {c} /\ c \in Ids
        BY <1>0, <2>4 DEF Alive, Exists, TypeOK, Fresh
      <3>2. CASE op' = [op EXCEPT ![w] = [op[w] EXCEPT !.pc = "activate", !.new = c]]
        <4>1. op'[w].svc = s /\ op'[w].new = c
          BY <1>0, <2>4, <3>2 DEF OpType
        <4>2. c \in InFlight(s)'
          BY <3>1, <4>1 DEF InFlight, Ids, NoCid
        <4> QED BY <3>1, <4>2 DEF Tracked
      <3>3. CASE leaked' = [leaked EXCEPT ![s] = @ \cup {c}]
        BY <1>0, <3>1, <3>3 DEF Tracked, TypeOK
      <3> QED BY <2>4, <3>2, <3>3
    <2>5. docker' = docker => Fades(s)
      BY DEF Fades
    <2>6. op[w].svc # s => Fades(s)
      BY <1>0, <1>4, RunFadesElsewhere
    <2> QED BY <1>4, <2>3, <2>4, <2>5, <2>6 DEF Run
  <1>5. CASE ~Activate(w) /\ ~Run(w)
    <2>1. KeepsCid(s) /\ Fades(s)
      BY <1>0, <1>5, OperateKeepsCid, OperateFades
    <2>2. ASSUME NEW c \in Ids, op[w].svc = s, op[w].new = c, Exists(s, c)'
          PROVE  (op'[w].svc = s /\ op'[w].new = c) \/ c \in leaked'[s] \/ c = row'[s].cid
      <3>1. op[w].pc \in {"activate", "discard", "route"} /\ Exists(s, c)
        BY <1>0, <2>1, <2>2, FadesAlive DEF Knows, Ids, NoCid, Cids
      <3>2. CASE Discard(w)
        BY <1>0, <2>2, <3>2 DEF Discard, Without, Exists, TypeOK
      <3>3. CASE WriteRoute(w)
        BY <1>0, <2>2, <3>1, <3>3 DEF WriteRoute, At, Knows, Alive
      <3> QED BY <1>5, <3>1, <3>2, <3>3
              DEF Operate, CheckAgain, Reject, LockService, Mark, Prep, Teardown, Clear, Recheck,
                  StartContainer, RestoreStarted, StartWrite, StopContainer, StopWrite, RemoveAll, Erase, At
    <2> QED BY <1>0, <1>1, <1>2, <2>1, <2>2, TrackedStays
  <1> QED BY <1>3, <1>4, <1>5

\* So does the rest of the system, and a crash.
LEMMA WorldTracked ==
  ASSUME LifecycleInv, ContainerInv, World, NEW s \in Services
  PROVE  Tracked(s)'
  <1>0. TypeOK /\ RecKnows /\ SweepKnows /\ Tracked(s) /\ Next /\ \A v \in Workers : Knows(v)
    BY DEF LifecycleInv, Typed, ContainerInv, World, Next
  <1>1. leaked[s] \subseteq leaked'[s] /\ Fades(s) /\ KeepsCid(s)
    BY <1>0, LeakedGrows, WorldFades, WorldKeepsCid
  <1>2. ASSUME NEW v \in Workers, NEW c \in Ids, op[v].svc = s, op[v].new = c
        PROVE  (op'[v].svc = s /\ op'[v].new = c) \/ c \in leaked'[s] \/ c = row'[s].cid
    <2>1. CASE Crash
      BY <1>2, <2>1 DEF Crash, Ids, NoCid
    <2>2. CASE ~Crash
      <3>1. op[v].pc # "idle"
        BY <1>0, <1>2 DEF Knows, Ids, NoCid
      <3> QED BY <1>0, <1>2, <2>2, <3>1, WorldOps
    <2> QED BY <2>1, <2>2
  <1> QED BY <1>0, <1>1, <1>2, TrackedStays

-----------------------------------------------------------------------------
(* A suspension that was swept leaves nothing behind. *)

\* A container that an operation will discard stays one, or is gone, or has leaked.
LEMMA ClearedStays ==
  ASSUME NEW s \in Services, Cleared(s), Fades(s), leaked[s] \subseteq leaked'[s],
         \A v \in Workers, c \in Ids :
           op[v].svc = s /\ op[v].new = c /\ op[v].pc \in {"activate", "discard"} /\ Exists(s, c)' =>
             \/ op'[v].svc = s /\ op'[v].new = c /\ op'[v].pc \in {"activate", "discard"}
             \/ c \in leaked'[s]
  PROVE  Cleared(s)'
  <1>1. SUFFICES ASSUME NEW c \in Ids, Exists(s, c)'
                 PROVE  c \in Pending(s)' \cup leaked'[s]
    BY DEF Cleared, Alive
  <1>2. Exists(s, c)
    BY <1>1 DEF Fades, Exists, Ids, NoCid
  <1>3. CASE c \in Pending(s)
    BY <1>1, <1>3 DEF Pending
  <1>4. c \in Pending(s) \/ c \in leaked[s]
    BY <1>2 DEF Cleared, Alive
  <1> QED BY <1>3, <1>4

\* An operation cannot install a container for a suspended tenant.
LEMMA OperateCleared ==
  ASSUME LifecycleInv, ContainerInv, tenant = "suspended", NEW w \in Workers, Operate(w),
         NEW s \in Services, Cleared(s)
  PROVE  Cleared(s)'
  <1>0. /\ TypeOK /\ BusyHasService /\ NewContainer /\ Purpose(w) /\ Knows(w) /\ Next
        /\ op \in [Workers -> OpType] /\ op[w] \in OpType
    BY DEF LifecycleInv, Typed, ContainerInv, TypeOK, Next
  <1>1. leaked[s] \subseteq leaked'[s]
    BY <1>0, LeakedGrows
  <1>2. \A v \in Workers \ {w} : op'[v] = op[v]
    BY <1>0, OperateAdvance DEF Advance
  <1>3. CASE Run(w)
    <2>1. op[w].pc \notin {"activate", "discard"}
      BY <1>3 DEF Run, At
    <2>2. CASE Fades(s)
      BY <1>1, <1>2, <2>1, <2>2, ClearedStays
    <2>3. ASSUME NEW c \in Fresh(s), NEW st \in {"running", "exited"}, op[w].svc = s, Alive(s) = {},
                 docker' = [docker EXCEPT ![s][c] = st],
                 \/ op' = [op EXCEPT ![w] = [op[w] EXCEPT !.pc = "activate", !.new = c]]
                 \/ leaked' = [leaked EXCEPT ![s] = @ \cup {c}]
          PROVE  Cleared(s)'
      <3>1. Alive(s)' \subseteq {c} /\ c \in Ids
        BY <1>0, <2>3 DEF Alive, Exists, TypeOK, Fresh
      <3>2. CASE op' = [op EXCEPT ![w] = [op[w] EXCEPT !.pc = "activate", !.new = c]]
        <4>1. op'[w].svc = s /\ op'[w].new = c /\ op'[w].pc = "activate"
          BY <1>0, <2>3, <3>2 DEF OpType
        <4>2. c \in Pending(s)'
          BY <4>1 DEF Pending
        <4> QED BY <3>1, <4>2 DEF Cleared
      <3>3. CASE leaked' = [leaked EXCEPT ![s] = @ \cup {c}]
        BY <1>0, <3>1, <3>3 DEF Cleared, TypeOK
      <3> QED BY <2>3, <3>2, <3>3
    <2>4. docker' = docker => Fades(s)
      BY DEF Fades
    <2>5. op[w].svc # s => Fades(s)
      BY <1>0, <1>3, RunFadesElsewhere
    <2> QED BY <1>3, <2>2, <2>3, <2>4, <2>5 DEF Run
  <1>4. CASE ~Run(w)
    <2>1. Fades(s)
      BY <1>0, <1>4, OperateFades
    <2>2. ASSUME NEW c \in Ids, op[w].svc = s, op[w].new = c, op[w].pc \in {"activate", "discard"},
                 Exists(s, c)'
          PROVE  \/ op'[w].svc = s /\ op'[w].new = c /\ op'[w].pc \in {"activate", "discard"}
                 \/ c \in leaked'[s]
      <3>1. CASE Activate(w)
        <4>1. \/ Goto(w, "discard")
              \/ op' = [op EXCEPT ![w] = [op[w] EXCEPT !.pc = "discard", !.interrupted = TRUE]]
          BY <3>1 DEF Activate, MayActivate
        <4> QED BY <1>0, <2>2, <4>1, MovesOn
      <3>2. CASE Discard(w)
        BY <1>0, <2>2, <3>2 DEF Discard, Without, Exists, TypeOK
      <3> QED BY <1>4, <2>2, <3>1, <3>2
              DEF Operate, CheckAgain, Reject, LockService, Mark, Prep, Teardown, Clear, Recheck, WriteRoute,
                  StartContainer, RestoreStarted, StartWrite, StopContainer, StopWrite, RemoveAll, Erase, At
    <2> QED BY <1>1, <1>2, <2>1, <2>2, ClearedStays
  <1> QED BY <1>3, <1>4

\* Nor does anything else bring one back.
LEMMA WorldCleared ==
  ASSUME LifecycleInv, ContainerInv, World, NEW s \in Services, Cleared(s)
  PROVE  Cleared(s)'
  <1>0. TypeOK /\ Next /\ \A v \in Workers : Knows(v)
    BY DEF LifecycleInv, Typed, ContainerInv, World, Next
  <1>1. leaked[s] \subseteq leaked'[s] /\ Fades(s)
    BY <1>0, LeakedGrows, WorldFades
  <1>2. ASSUME NEW v \in Workers, NEW c \in Ids, op[v].svc = s, op[v].new = c,
               op[v].pc \in {"activate", "discard"}
        PROVE  \/ op'[v].svc = s /\ op'[v].new = c /\ op'[v].pc \in {"activate", "discard"}
               \/ c \in leaked'[s]
    <2>1. CASE Crash
      <3>1. row[s].cid # c
        BY <1>0, <1>2 DEF Knows
      <3> QED BY <1>2, <2>1, <3>1 DEF Crash, Ids, NoCid
    <2>2. CASE ~Crash
      BY <1>0, <1>2, <2>2, WorldOps
    <2> QED BY <2>1, <2>2
  <1> QED BY <1>1, <1>2, ClearedStays

\* Beside what an operation will discard, all that is alive is named by the row or has leaked.
LEMMA AliveIsNamed ==
  ASSUME LifecycleInv, ContainerInv, NEW s \in Services, NEW c \in Alive(s)
  PROVE  c = row[s].cid \/ c \in Pending(s) \cup leaked[s]
  <1>1. ASSUME NEW v \in Workers, op[v].svc = s, op[v].new = c
        PROVE  c = row[s].cid \/ c \in Pending(s)
    <2>1. Knows(v) /\ c # NoCid
      BY DEF ContainerInv, Alive, Exists
    <2>2. CASE op[v].pc = "route"
      BY <1>1, <2>1, <2>2 DEF Knows
    <2>3. CASE op[v].pc \in {"activate", "discard"}
      BY <1>1, <2>3 DEF Pending
    <2> QED BY <1>1, <2>1, <2>2, <2>3 DEF Knows
  <1> QED BY <1>1 DEF ContainerInv, Tracked, InFlight

\* An operation leaves the sweep's work undisturbed.
LEMMA OperateSwept ==
  ASSUME LifecycleInv, ContainerInv, NEW w \in Workers, Operate(w), NEW s \in Services
  PROVE  Swept(s)'
  <1>1. UNCHANGED <<tenant, sweep, swept>>
    BY DEF Operate, CheckAgain, Reject, LockService, Mark, Prep, Teardown, Clear, Recheck, Run, Activate,
           Discard, WriteRoute, StartContainer, RestoreStarted, StartWrite, StopContainer, StopWrite,
           RemoveAll, Erase
  <1>2. SUFFICES ASSUME tenant = "suspended" PROVE Swept(s)'
    BY <1>1 DEF Swept
  <1>3. Cleared(s) => Cleared(s)'
    BY <1>2, OperateCleared
  <1>4. KeepsCid(s)
    <2>1. CASE Activate(w)
      BY <1>2, <2>1 DEF Activate, MayActivate, KeepsCid
    <2>2. CASE ~Activate(w)
      BY <2>2, OperateKeepsCid DEF LifecycleInv, Typed, ContainerInv
    <2> QED BY <2>1, <2>2
  <1>5. Swept(s)
    BY DEF ContainerInv
  <1> QED BY <1>1, <1>3, <1>4, <1>5 DEF Swept, KeepsCid

\* The rest of the system does so, and the sweep clears one service after the other.
LEMMA WorldSwept ==
  ASSUME LifecycleInv, ContainerInv, World, NEW s \in Services
  PROVE  Swept(s)'
  <1>0. /\ TypeOK /\ RecKnows /\ SweepKnows /\ Named(s) /\ Swept(s) /\ Next
        /\ sweep \in SweepType /\ row \in [Services -> RowType]
        /\ sweep.cid \in [Services -> Cids]
    BY DEF LifecycleInv, Typed, TypeOK, ContainerInv, World, Next, SweepType
  <1>1. KeepsCid(s) /\ (Cleared(s) => Cleared(s)')
    BY <1>0, WorldKeepsCid, WorldCleared
  <1>2. CASE UNCHANGED <<tenant, sweep, swept>>
    BY <1>0, <1>1, <1>2 DEF Swept, KeepsCid
  <1>3. CASE Suspend
    BY <1>3 DEF Suspend, SweepIdle, Swept
  <1>4. CASE Reactivate
    BY <1>4 DEF Reactivate, Swept
  <1>5. CASE Crash
    BY <1>0, <1>1, <1>5 DEF Crash, SweepIdle, Swept
  <1>6. CASE SweepLabel
    <2>1. sweep'.pc = "rows" /\ UNCHANGED <<tenant, swept>>
      BY <1>0, <1>6 DEF SweepLabel, SweepType
    <2> QED BY <1>0, <1>1, <2>1 DEF Swept
  <1>7. CASE SweepRows
    <2>1. /\ sweep'.todo = {t \in Services : Present(t)}
          /\ sweep'.cid[s] = row[s].cid
          /\ UNCHANGED <<tenant, swept, row>>
      BY <1>0, <1>7 DEF SweepRows, SweepType
    <2>2. ASSUME ~Present(s) PROVE Cleared(s)
      <3>1. Pending(s) = {}
        BY <2>2 DEF Pending, LifecycleInv, Exclusion, Locked, Working
      <3>2. row[s].cid = NoCid
        BY <1>0, <2>2 DEF Named
      <3>3. NoCid \notin Alive(s)
        BY DEF Alive, Exists
      <3> QED BY <3>2, <3>3, AliveIsNamed DEF Cleared
    <2> QED BY <1>0, <1>1, <2>1, <2>2 DEF Swept
  <1>8. ASSUME NEW t \in Services, SweepStop(t) PROVE Swept(s)'
    <2>1. /\ UNCHANGED <<tenant, swept>>
          /\ sweep.pc = "stop" /\ t \in sweep.todo
          /\ sweep'.cid = sweep.cid /\ sweep'.todo = sweep.todo \ {t}
      BY <1>0, <1>8 DEF SweepStop, SweepType
    <2>2. ASSUME s = t, row[s].cid \in {NoCid, sweep.cid[s]} PROVE Cleared(s)'
      <3>1. SUFFICES ASSUME NEW c \in Ids, Exists(s, c)' PROVE c \in Pending(s)' \cup leaked'[s]
        BY DEF Cleared, Alive
      <3>2. Fades(s) /\ leaked[s] \subseteq leaked'[s]
        BY <1>0, WorldFades, LeakedGrows
      <3>3. c \in Alive(s) /\ c # NoCid
        BY <3>1, <3>2, FadesAlive DEF Alive, Exists, Cids
      <3>4. CASE c = row[s].cid
        <4>1. c = sweep.cid[s]
          BY <2>2, <3>3, <3>4
        <4>2. CASE docker' = Without(s, {c})
          BY <1>0, <3>1, <4>2 DEF Without, Exists, TypeOK
        <4>3. CASE leaked' = [leaked EXCEPT ![s] = @ \cup {c}]
          BY <1>0, <4>3 DEF TypeOK
        <4> QED BY <1>8, <2>2, <3>3, <4>1, <4>2, <4>3 DEF SweepStop
      <3>5. CASE c \in Pending(s) \cup leaked[s]
        BY <1>8, <3>2, <3>5 DEF SweepStop, Pending
      <3> QED BY <3>3, <3>4, <3>5, AliveIsNamed
    <2> QED BY <1>0, <1>1, <2>1, <2>2 DEF Swept, KeepsCid
  <1>9. CASE SweepClear
    <2>1. /\ sweep.pc = "clear" /\ sweep'.todo = sweep.todo /\ sweep'.cid = sweep.cid
          /\ UNCHANGED <<tenant, swept>>
      BY <1>0, <1>9 DEF SweepClear, SweepType
    <2> QED BY <1>0, <1>1, <2>1 DEF Swept, KeepsCid
  <1>10. CASE SweepDone
    <2>1. /\ sweep.pc = "stop" /\ sweep.todo = {} /\ sweep'.pc = "idle" /\ UNCHANGED tenant
      BY <1>10 DEF SweepDone, SweepIdle
    <2> QED BY <1>0, <1>1, <2>1 DEF Swept
  <1>11. Reconcile \/ RecoverStale => UNCHANGED <<tenant, sweep, swept>>
    BY DEF Reconcile, RecWatch, RecInspect, RecRecord, RecRecover, RecTrip, RecOpen, RecRestart, RecAgain,
           RecUndo, RecoverStale, RecoverCircuit, FailStaleDeploy, RecoverStaleRestart, UnchangedButRecRow
  <1> QED BY <1>2, <1>3, <1>4, <1>5, <1>6, <1>7, <1>8, <1>9, <1>10, <1>11
          DEF World, Create, Begin, ContainerExit, Sweep

-----------------------------------------------------------------------------
(* The invariant. *)

\* An operation leaves every row with a container that was made, or none.
LEMMA OperateNamed ==
  ASSUME LifecycleInv, ContainerInv, NEW w \in Workers, Operate(w), NEW s \in Services
  PROVE  Named(s)'
  <1>0. /\ TypeOK /\ BusyHasService /\ NewContainer /\ Purpose(w) /\ Remembers(w) /\ Knows(w) /\ Named(s)
        /\ Next /\ row[s] \in RowType /\ row \in [Services -> RowType]
    BY DEF LifecycleInv, Typed, ContainerInv, TypeOK, Next
  <1>1. NoRevival(s)
    BY <1>0, NobodyRevives
  <1>2. CASE KeepsCid(s)
    <2>1. Made(s, row[s].cid)'
      <3>1. PICK c \in Cids : c = row'[s].cid /\ c \in {NoCid, row[s].cid}
        BY <1>0, <1>2 DEF KeepsCid, RowType, Cids
      <3>2. Made(s, c)'
        BY <1>0, <1>1, <3>1, GoneStays DEF Named, Made
      <3> QED BY <3>1, <3>2 DEF Made
    <2>2. ~Present(s)' => row'[s].cid = NoCid
      <3>1. CASE Erase(w)
        <4>1. row'[s] = row[s] \/ row'[s].cid = NoCid
          BY <1>0, <3>1 DEF Erase
        <4> QED BY <1>0, <4>1 DEF Named, Present
      <3>2. CASE ~Erase(w)
        <4>1. Touches(op[w].svc)
          BY <1>0, <3>2, OperateTouches
        <4>2. Present(s) => Present(s)'
          BY <4>1 DEF Touches, Present
        <4> QED BY <1>0, <1>2, <4>2 DEF Named, KeepsCid
      <3> QED BY <3>1, <3>2
    <2> QED BY <2>1, <2>2 DEF Named
  <1>3. CASE Activate(w)
    <2>1. docker' = docker
      BY <1>3 DEF Activate
    <2>2. CASE row'[s] = row[s]
      BY <1>0, <2>1, <2>2 DEF Named, Made, Present
    <2>3. CASE row' = [row EXCEPT ![s] = [row[s] EXCEPT !.status = "running", !.cid = op[w].new]] /\ s = op[w].svc
      <3>1. row'[s].status = "running" /\ row'[s].cid = op[w].new
        BY <1>0, <2>3 DEF RowType
      <3>2. docker[s][op[w].new] # "none"
        BY <1>0, <1>3, <2>3 DEF Activate, At, Knows
      <3> QED BY <2>1, <3>1, <3>2 DEF Named, Made, Present
    <2> QED BY <1>0, <1>3, <2>2, <2>3 DEF Activate
  <1> QED BY <1>0, <1>2, <1>3, OperateKeepsCid

\* So does the rest of the system.
LEMMA WorldNamed ==
  ASSUME LifecycleInv, ContainerInv, World, NEW s \in Services
  PROVE  Named(s)'
  <1>0. /\ TypeOK /\ WatchedRead /\ RecKnows /\ SweepKnows /\ Named(s) /\ Next /\ row[s] \in RowType
    BY DEF LifecycleInv, Typed, ContainerInv, TypeOK, Next, World
  <1>1. KeepsCid(s) /\ NoRevival(s) /\ WorldTouches(s)
    BY <1>0, WorldKeepsCid, NobodyRevives, WorldRow
  <1>2. PICK c \in Cids : c = row'[s].cid /\ c \in {NoCid, row[s].cid}
    BY <1>0, <1>1 DEF KeepsCid, RowType, Cids
  <1>3. Made(s, c)'
    BY <1>0, <1>1, <1>2, GoneStays DEF Named, Made
  <1>4. Present(s) => Present(s)'
    BY <1>1 DEF WorldTouches, Present
  <1> QED BY <1>0, <1>2, <1>3, <1>4 DEF Named, Made

\* What the workers know stays true when one of them steps: the others at the service wait.
LEMMA OperateKnows ==
  ASSUME LifecycleInv, TypeOK', ContainerInv, NEW w \in Workers, Operate(w), NEW v \in Workers
  PROVE  Knows(v)'
  <1>0. /\ TypeOK /\ BusyHasService /\ NewContainer /\ Purpose(w) /\ Knows(w) /\ Knows(v)
        /\ Exclusion(w) /\ Exclusion(v) /\ \A s \in Services : Named(s)
    BY DEF LifecycleInv, Typed, ContainerInv
  <1>1. CASE v = w
    BY <1>0, <1>1, OwnKnows
  <1>2. CASE v # w
    <2>1. op'[v] = op[v]
      BY <1>0, <1>2, OperateAdvance DEF Advance
    <2>2. ASSUME op[v].pc \in Locked
          PROVE  Fades(op[v].svc) /\ KeepsCid(op[v].svc)
      <3>1. PICK s \in Services : s = op[v].svc
        BY <1>0, <2>2 DEF BusyHasService, Locked, Working
      <3>2. CASE Run(w) \/ Activate(w)
        <4>1. op[w].svc # s
          BY <1>0, <1>2, <2>2, <3>1, <3>2 DEF Exclusion, Run, Activate, At, Locked, Working
        <4>2. Fades(s)
          BY <1>0, <4>1, RunFadesElsewhere, OperateFades
        <4>3. KeepsCid(s)
          <5>1. Activate(w) => row'[s] = row[s]
            BY <1>0, <4>1 DEF Activate, TypeOK
          <5> QED BY <1>0, <5>1, OperateKeepsCid DEF KeepsCid
        <4> QED BY <3>1, <4>2, <4>3
      <3>3. CASE ~Run(w) /\ ~Activate(w)
        BY <1>0, <3>1, <3>3, OperateFades, OperateKeepsCid
      <3> QED BY <3>2, <3>3
    <2> QED BY <1>0, <2>1, <2>2, KnowsStays
  <1> QED BY <1>1, <1>2

\* Nor does the rest of the system change what they know.
LEMMA WorldKnows ==
  ASSUME LifecycleInv, ContainerInv, World, NEW v \in Workers
  PROVE  Knows(v)'
  <1>0. /\ TypeOK /\ BusyHasService /\ NewContainer /\ RecKnows /\ SweepKnows /\ Knows(v)
        /\ op \in [Workers -> OpType]
    BY DEF LifecycleInv, Typed, ContainerInv, TypeOK
  <1>1. CASE op'[v] = op[v]
    <2>1. op[v].pc \in Locked => op[v].svc \in Services
      BY <1>0 DEF BusyHasService, Locked, Working
    <2> QED BY <1>0, <1>1, <2>1, WorldFades, WorldKeepsCid, KnowsStays
  <1>2. CASE op'[v] = Idle
    BY <1>2 DEF Idle, Knows
  <1>3. ASSUME NEW w \in Workers, NEW k \in Kinds, NEW s \in Services, Begin(w, k, s)
        PROVE  Knows(v)'
    <2>1. CASE v # w
      BY <1>0, <1>1, <1>3, <2>1 DEF Begin, Goes
    <2>2. CASE v = w
      <3>1. ASSUME NEW kind, NEW pc \in {"check", "lock", "reject"}, Goes(w, s, kind, pc)
            PROVE  Knows(v)'
        <4>1. op'[w].pc = pc /\ op'[w].new = NoCid
          BY <1>0, <3>1 DEF Goes, Idle
        <4> QED BY <2>2, <4>1 DEF Knows
      <3> QED BY <1>3, <3>1 DEF Begin, Admitted
    <2> QED BY <2>1, <2>2
  <1>4. CASE Crash
    BY <1>2, <1>4 DEF Crash
  <1>5. World => \/ Crash \/ UNCHANGED op
                 \/ \E w \in Workers, k \in Kinds, s \in Services : Begin(w, k, s)
    <2>1. Reconcile \/ RecoverStale => UNCHANGED op
      BY DEF Reconcile, RecWatch, RecInspect, RecRecord, RecRecover, RecTrip, RecOpen, RecRestart, RecAgain,
             RecUndo, RecoverStale, RecoverCircuit, FailStaleDeploy, RecoverStaleRestart, UnchangedButRecRow
    <2> QED BY <2>1 DEF World, Create, Suspend, Reactivate, ContainerExit, Sweep, SweepLabel, SweepRows,
                        SweepStop, SweepClear, SweepDone
  <1> QED BY <1>1, <1>3, <1>4, <1>5

\* There is nothing at the start.
LEMMA ContainerInit == Init => ContainerInv
  BY DEF Init, ContainerInv, Named, Made, Present, Tracked, Alive, Exists, Swept, Knows, Idle, RecKnows, RecIdle,
         SweepKnows, SweepIdle

\* Every step keeps the invariant.
LEMMA ContainerStep == LifecycleInv /\ ContainerInv /\ [Next]_vars => ContainerInv'
  <1> SUFFICES ASSUME LifecycleInv, ContainerInv, [Next]_vars PROVE ContainerInv'
    OBVIOUS
  <1>0. TypeOK /\ TypeOK' /\ RecKnows /\ SweepKnows /\ \A s \in Services : Named(s)
    BY LifecycleStep DEF LifecycleInv, Typed, ContainerInv
  <1>1. CASE Next
    <2>1. RecKnows' /\ SweepKnows'
      BY <1>0, <1>1, RecKeepsKnowing, SweepKeepsKnowing
    <2>2. ASSUME NEW w \in Workers, Operate(w) PROVE ContainerInv'
      BY <1>0, <2>1, <2>2, OperateNamed, OperateTracked, OperateSwept, OperateKnows DEF ContainerInv
    <2>3. CASE World
      BY <2>1, <2>3, WorldNamed, WorldTracked, WorldSwept, WorldKnows DEF ContainerInv
    <2> QED BY <1>1, <2>2, <2>3 DEF Next, World
  <1>2. CASE UNCHANGED vars
    BY <1>2 DEF vars, ContainerInv, Named, Made, Present, Tracked, Alive, Exists, InFlight, Swept, Cleared,
                Pending, Knows, RecKnows, SweepKnows
  <1> QED BY <1>1, <1>2

\* The invariant holds in every reachable state.
THEOREM ContainersKnown == Spec => []ContainerInv
  BY ContainerInit, ContainerStep, LifecycleInvHolds, PTL DEF Spec

\* Every container Docker has for a service is the one its row names, or one that an operation in
\* flight will install or discard, or one whose removal was reported as failed: whatever the
\* operations, the breaker, the sweep and a crash do to each other, none is lost.
THEOREM NoContainerIsLost == Spec => []NoUntrackedContainer
  <1>1. ContainerInv => NoUntrackedContainer
    BY DEF ContainerInv, Tracked, NoUntrackedContainer
  <1> QED BY <1>1, ContainersKnown, PTL

\* Once StopAllForTenant is through with a suspended tenant nothing of the tenant runs, but for
\* what an operation in flight discards or has leaked: neither a Start, a Restart or a deploy
\* that passed its tenant check before, nor the reconciler, brings a container back.
THEOREM SuspendedStaysDown == Spec => []SuspendedHasNoRunningContainer
  <1>1. TypeOK /\ ContainerInv => SuspendedHasNoRunningContainer
    <2> SUFFICES ASSUME TypeOK, ContainerInv, swept, tenant = "suspended", NEW s \in Services
                 PROVE  Running(s) \subseteq InFlight(s) \cup leaked[s]
      BY DEF SuspendedHasNoRunningContainer
    <2>1. Running(s) \subseteq Alive(s) /\ NoCid \notin Running(s)
      BY DEF Running, Alive, Exists, Ids, NoCid
    <2>2. Cleared(s)
      BY DEF ContainerInv, Swept
    <2>3. Pending(s) \ {NoCid} \subseteq InFlight(s)
      BY DEF Pending, InFlight
    <2> QED BY <2>1, <2>2, <2>3 DEF Cleared
  <1> QED BY <1>1, TypeCorrect, ContainersKnown, PTL

=============================================================================
