----------------------------- MODULE BuildsProofs -----------------------------
(***************************************************************************)
(* Facts about builds.Manager for any number of builds and cancellers, any *)
(* quota and queue, with and without faults: the types, the refinement of  *)
(* BuildOutcome, that no build keeps its slot, and that a cancelled build  *)
(* is deployed only if a losing cancel took the winner's mark back.        *)
(***************************************************************************)
EXTENDS Builds, TLAPS

-----------------------------------------------------------------------------
(* Type correctness. *)

Statuses == {"absent", "pending", "running", "succeeded", "failed", "cancelled"}
Ended == {"succeeded", "failed", "cancelled"}

CancellerType == [pc : {"idle", "record", "write", "undo", "stop"},
                  b : BuildIds \cup {Nothing}, to : {"failed", "cancelled"}, live : BOOLEAN]

\* A canceller that is busy has a build.
BusyHasBuild == \A c \in Cancellers : canceller[c].pc # "idle" => canceller[c].b \in BuildIds

Typed == TypeOK /\ BusyHasBuild

\* A guarded update keeps the type of the rows.
LEMMA MovedType ==
  ASSUME row \in [BuildIds -> Statuses], NEW b \in BuildIds, NEW from, NEW to \in Statuses
  PROVE  Moved(b, from, to) \in [BuildIds -> Statuses]
  BY DEF Moved, Statuses

\* A runner that goes on is a runner.
LEMMA GotoType ==
  ASSUME runner \in [BuildIds -> RunnerSteps], NEW b \in BuildIds, NEW pc \in RunnerSteps, Goto(b, pc)
  PROVE  runner' \in [BuildIds -> RunnerSteps]
  BY DEF Goto

\* A canceller that goes on, idle or with a build, is a canceller.
LEMMA SetCanceller ==
  ASSUME Typed, canceller \in [Cancellers -> CancellerType], NEW c \in Cancellers,
         NEW k \in CancellerType, canceller' = [canceller EXCEPT ![c] = k],
         k.pc = "idle" \/ k.b \in BuildIds
  PROVE  canceller' \in [Cancellers -> CancellerType] /\ BusyHasBuild'
  <1>1. canceller' \in [Cancellers -> CancellerType]
    OBVIOUS
  <1>2. BusyHasBuild'
    BY DEF Typed, BusyHasBuild
  <1> QED BY <1>1, <1>2

\* So is one that has asked whether the build is live.
LEMMA AnsweredType ==
  ASSUME NEW k \in CancellerType, NEW live \in BOOLEAN
  PROVE  [k EXCEPT !.pc = "write", !.live = live] \in CancellerType
  BY DEF CancellerType

\* The steps of runBuild and StartBuild keep the types.
LEMMA RunnerTyped ==
  ASSUME Typed, NEW b \in BuildIds, StartBuild(b) \/ RunBuild(b) \/ Timeout(b)
  PROVE  Typed'
  <1>0. /\ row \in [BuildIds -> Statuses]
        /\ runner \in [BuildIds -> RunnerSteps]
    BY DEF Typed, TypeOK, Statuses
  <1>1. canceller' = canceller
    BY DEF StartBuild, RunBuild, Timeout, Enqueue, Register, MarkRunning, Build, Check, EnterDeploy,
           Deploy, FinishBuild, Cleanup
  <1>2. row' \in [BuildIds -> Statuses]
    <2>1. CASE MarkRunning(b)
      BY <1>0, <2>1, MovedType DEF MarkRunning, Statuses
    <2>2. CASE FinishBuild(b)
      BY <1>0, <2>2, MovedType DEF FinishBuild, Statuses
    <2>3. CASE StartBuild(b) \/ Enqueue(b)
      BY <1>0, <2>3 DEF StartBuild, Enqueue, Statuses
    <2>4. CASE Timeout(b) \/ Register(b) \/ Build(b) \/ Check(b) \/ EnterDeploy(b) \/ Deploy(b) \/ Cleanup(b)
      BY <1>0, <2>4 DEF Timeout, Register, Build, Check, EnterDeploy, Deploy, Cleanup
    <2> QED BY <2>1, <2>2, <2>3, <2>4 DEF RunBuild
  <1>3. runner' \in [BuildIds -> RunnerSteps]
    BY <1>0, GotoType DEF StartBuild, RunBuild, Timeout, Enqueue, Register, MarkRunning, Build, Check, EnterDeploy,
           Deploy, FinishBuild, Cleanup, RunnerSteps
  <1>4. /\ cancelFn' \in [BuildIds -> BOOLEAN]
        /\ phase' \in [BuildIds -> {"none", "cancelled", "deploying"}]
        /\ ctxDone' \in [BuildIds -> BOOLEAN]
        /\ deployed' \in [BuildIds -> BOOLEAN]
        /\ wonLive' \in [BuildIds -> BOOLEAN]
        /\ unmarked' \in [BuildIds -> BOOLEAN]
        /\ faulted' \in [BuildIds -> BOOLEAN]
    BY DEF Typed, TypeOK, Faulted, StartBuild, RunBuild, Timeout, Enqueue, Register, MarkRunning,
           Build, Check, EnterDeploy, Deploy, FinishBuild, Cleanup
  <1> QED BY <1>1, <1>2, <1>3, <1>4 DEF Typed, TypeOK, BusyHasBuild, Statuses

\* So do those of the cancellers.
LEMMA CancellerTyped ==
  ASSUME Typed, NEW c \in Cancellers,
         \/ \E b \in BuildIds, to \in {"failed", "cancelled"} : BeginCancel(c, b, to)
         \/ CancelStep(c)
  PROVE  Typed'
  <1>0. /\ canceller \in [Cancellers -> CancellerType]
        /\ IdleCanceller \in CancellerType
        /\ canceller[c].pc # "idle" => canceller[c].b \in BuildIds
    BY DEF Typed, TypeOK, CancellerType, BusyHasBuild, IdleCanceller
  <1>1. canceller' \in [Cancellers -> CancellerType] /\ BusyHasBuild'
    <2>1. CASE \E b \in BuildIds, to \in {"failed", "cancelled"} : BeginCancel(c, b, to)
      BY <1>0, <2>1 DEF BeginCancel, CancellerType, Typed, BusyHasBuild
    <2>2. CASE RecordCancel(c) /\ canceller' = [canceller EXCEPT ![c] = IdleCanceller]
      BY <1>0, <2>2, SetCanceller DEF Typed, BusyHasBuild, IdleCanceller
    <2>3. CASE /\ RecordCancel(c)
               /\ canceller' = [canceller EXCEPT ![c].pc = "write", ![c].live = cancelFn[canceller[c].b]]
      <3>1. cancelFn[canceller[c].b] \in BOOLEAN
        BY <1>0, <2>3 DEF RecordCancel, Typed, TypeOK
      <3>2. [canceller[c] EXCEPT !.pc = "write", !.live = cancelFn[canceller[c].b]] \in CancellerType
        BY <1>0, <3>1, AnsweredType
      <3>3. canceller' = [canceller EXCEPT ![c] = [canceller[c] EXCEPT !.pc = "write",
                                                                     !.live = cancelFn[canceller[c].b]]]
        BY <1>0, <2>3
      <3>4. [canceller[c] EXCEPT !.pc = "write", !.live = cancelFn[canceller[c].b]].b \in BuildIds
        BY <1>0, <2>3 DEF RecordCancel, CancellerType
      <3> QED BY <1>0, <3>2, <3>3, <3>4, SetCanceller
    <2>4. CASE WriteCancel(c)
      <3>1. PICK pc \in {"stop", "undo"} : canceller' = [canceller EXCEPT ![c].pc = pc]
        BY <2>4 DEF WriteCancel
      <3>2. canceller' = [canceller EXCEPT ![c] = [canceller[c] EXCEPT !.pc = pc]]
        BY <1>0, <3>1
      <3>3. [canceller[c] EXCEPT !.pc = pc] \in CancellerType
        BY <1>0, <3>1 DEF CancellerType
      <3>4. [canceller[c] EXCEPT !.pc = pc].b \in BuildIds
        BY <1>0, <2>4 DEF WriteCancel, CancellerType
      <3> QED BY <1>0, <3>2, <3>3, <3>4, SetCanceller
    <2>5. CASE UndoCancel(c) \/ StopBuild(c)
      BY <1>0, <2>5, SetCanceller DEF UndoCancel, StopBuild, IdleCanceller
    <2> QED BY <2>1, <2>2, <2>3, <2>4, <2>5 DEF CancelStep, RecordCancel
  <1>2. /\ row' \in [BuildIds -> Statuses]
        /\ phase' \in [BuildIds -> {"none", "cancelled", "deploying"}]
        /\ ctxDone' \in [BuildIds -> BOOLEAN]
        /\ wonLive' \in [BuildIds -> BOOLEAN]
        /\ unmarked' \in [BuildIds -> BOOLEAN]
        /\ faulted' \in [BuildIds -> BOOLEAN]
        /\ UNCHANGED <<runner, cancelFn, deployed>>
    <2>1. CASE \E b \in BuildIds, to \in {"failed", "cancelled"} : BeginCancel(c, b, to)
      BY <2>1 DEF BeginCancel, Typed, TypeOK, Statuses
    <2>2. CASE RecordCancel(c)
      BY <2>2 DEF RecordCancel, Typed, TypeOK, Statuses
    <2>3. CASE WriteCancel(c)
      <3>1. canceller[c].to \in Statuses /\ canceller[c].live \in BOOLEAN
        BY <1>0 DEF CancellerType, Statuses
      <3>2. row' \in [BuildIds -> Statuses]
        BY <2>3, <3>1 DEF WriteCancel, Typed, TypeOK, Statuses
      <3>3. wonLive' \in [BuildIds -> BOOLEAN] /\ faulted' \in [BuildIds -> BOOLEAN]
        BY <2>3, <3>1 DEF WriteCancel, Typed, TypeOK, Faulted
      <3> QED BY <2>3, <3>2, <3>3 DEF WriteCancel, Typed, TypeOK
    <2>4. CASE UndoCancel(c)
      <3>1. \A b \in BuildIds : (unmarked[b] \/ OtherCancel(c, b)) \in BOOLEAN
        BY DEF OtherCancel, Typed, TypeOK
      <3>2. unmarked' \in [BuildIds -> BOOLEAN]
        BY <1>0, <2>4, <3>1 DEF UndoCancel, Typed, TypeOK
      <3> QED BY <2>4, <3>2 DEF UndoCancel, Typed, TypeOK, Statuses
    <2>5. CASE StopBuild(c)
      BY <2>5 DEF StopBuild, Typed, TypeOK, Statuses
    <2> QED BY <2>1, <2>2, <2>3, <2>4, <2>5 DEF CancelStep
  <1> QED BY <1>1, <1>2 DEF Typed, TypeOK, CancellerType, Statuses

\* The restart starts over.
LEMMA RestartTyped == ASSUME Typed, Restart PROVE Typed'
  <1> USE DEF Typed, TypeOK, Restart
  <1>1. row' \in [BuildIds -> Statuses]
    BY DEF Statuses
  <1>2. faulted' \in [BuildIds -> BOOLEAN]
    <2>1. \A b \in BuildIds : (faulted[b] \/ Stale(b)) \in BOOLEAN
      BY DEF Stale
    <2> QED BY <2>1
  <1>3. /\ runner' \in [BuildIds -> RunnerSteps]
        /\ canceller' \in [Cancellers -> CancellerType] /\ BusyHasBuild'
    BY DEF RunnerSteps, CancellerType, IdleCanceller, BusyHasBuild
  <1> QED BY <1>1, <1>2, <1>3 DEF Statuses, CancellerType

\* The first state is typed, and every step keeps it typed.
LEMMA InitTyped == Init => Typed
  BY DEF Init, Typed, TypeOK, BusyHasBuild, IdleCanceller, RunnerSteps

LEMMA NextTyped == ASSUME Typed, [Next]_vars PROVE Typed'
  <1>1. CASE UNCHANGED vars
    BY <1>1 DEF vars, Typed, TypeOK, BusyHasBuild
  <1> QED BY <1>1, RunnerTyped, CancellerTyped, RestartTyped DEF Next

\* Rows, runners and cancellers keep their types.
THEOREM TypeCorrect == Spec => []Typed
  BY InitTyped, NextTyped, PTL DEF Spec

-----------------------------------------------------------------------------
(* What the row, the runner and the cancellers of a build know of each other. *)

Busy(c) == canceller[c].pc # "idle"
Writing(b) == \E c \in Cancellers : canceller[c].b = b /\ canceller[c].pc = "write"

\* Where the runner is tells what the row can be, and whether the deploy function was called.
RunnerFitsRow ==
  \A b \in BuildIds :
    /\ row[b] = "absent" => runner[b] = "none" /\ phase[b] = "none" /\ ~deployed[b]
    /\ runner[b] = "queue" => row[b] \in {"pending", "failed", "cancelled"}
    /\ runner[b] \in {"register", "mark"} => row[b] \notin {"absent", "running"}
    /\ runner[b] \in {"build", "check", "enter", "deploy", "failed", "succeeded"} =>
         row[b] \notin {"absent", "pending"}
    /\ runner[b] \in {"queue", "register", "mark", "build", "check", "enter", "deploy"} => ~deployed[b]
    /\ runner[b] = "succeeded" => deployed[b]

\* A canceller works on a build that was started; once it has moved the row, the row is final.
CancellerFitsRow ==
  \A c \in Cancellers :
    /\ Busy(c) => row[canceller[c].b] # "absent"
    /\ canceller[c].pc = "stop" => row[canceller[c].b] \in Ended

\* An active row has somebody who will move it, or a fault hit the build.
SlotIsHeld ==
  \A b \in BuildIds :
    /\ ctxDone[b] => faulted[b] \/ row[b] \in Ended
    /\ (runner[b] \in {"none", "cleanup"} \/ phase[b] = "cancelled") /\ row[b] \in Active =>
         faulted[b] \/ Writing(b)

Consistent == Typed /\ RunnerFitsRow /\ CancellerFitsRow /\ SlotIsHeld

-----------------------------------------------------------------------------

\* The build cannot be deployed any more: its runner is gone, or will see the cancel.
Stopped(b) == ~deployed[b] /\ (runner[b] = "none" \/ phase[b] = "cancelled")

PhaseFitsRunner ==
  \A b \in BuildIds :
    /\ runner[b] \in {"none", "queue", "register"} => ~cancelFn[b]
    /\ runner[b] = "deploy" \/ (deployed[b] /\ runner[b] # "none") => phase[b] = "deploying"

LiveCancelStops ==
  \A c \in Cancellers :
    canceller[c].pc = "write" /\ canceller[c].live =>
      unmarked[canceller[c].b] \/ Stopped(canceller[c].b)

WonCancelStops == \A b \in BuildIds : wonLive[b] => row[b] \in Ended /\ (unmarked[b] \/ Stopped(b))

Exclusive == PhaseFitsRunner /\ LiveCancelStops /\ WonCancelStops

\* The steps of StartBuild and runBuild keep the runner in step with the row.
LEMMA RunnerKeepsFit ==
  ASSUME Typed, RunnerFitsRow, NEW b \in BuildIds, StartBuild(b) \/ RunBuild(b) \/ Timeout(b)
  PROVE  RunnerFitsRow'
  <1> USE DEF Typed, TypeOK, RunnerFitsRow, Goto, Faulted, Moved
  <1>1. CASE StartBuild(b)
    BY <1>1 DEF StartBuild
  <1>2. CASE Enqueue(b)
    BY <1>2 DEF Enqueue
  <1>3. CASE Register(b)
    BY <1>3 DEF Register
  <1>4. CASE MarkRunning(b)
    BY <1>4 DEF MarkRunning
  <1>5. CASE Build(b)
    BY <1>5 DEF Build
  <1>6. CASE Check(b)
    BY <1>6 DEF Check
  <1>7. CASE EnterDeploy(b)
    BY <1>7 DEF EnterDeploy
  <1>8. CASE Deploy(b)
    BY <1>8 DEF Deploy
  <1>9. CASE FinishBuild(b)
    BY <1>9 DEF FinishBuild
  <1>10. CASE Cleanup(b)
    BY <1>10 DEF Cleanup
  <1>11. CASE Timeout(b)
    BY <1>11 DEF Timeout
  <1> QED BY <1>1, <1>2, <1>3, <1>4, <1>5, <1>6, <1>7, <1>8, <1>9, <1>10, <1>11 DEF RunBuild

\* What a step of a canceller does to the builds, for whichever build it is about.
LEMMA CancellerKeepsFit ==
  ASSUME Typed, RunnerFitsRow, CancellerFitsRow, NEW c \in Cancellers,
         \/ \E b \in BuildIds, to \in {"failed", "cancelled"} : BeginCancel(c, b, to)
         \/ CancelStep(c)
  PROVE  RunnerFitsRow'
  <1> USE DEF Typed, TypeOK, RunnerFitsRow, Busy
  <1>1. CASE \E b \in BuildIds, to \in {"failed", "cancelled"} : BeginCancel(c, b, to)
    BY <1>1 DEF BeginCancel
  <1>2. CASE RecordCancel(c)
    BY <1>2 DEF RecordCancel, CancellerFitsRow
  <1>3. CASE WriteCancel(c)
    BY <1>3 DEF WriteCancel, Active
  <1>4. CASE UndoCancel(c)
    BY <1>4 DEF UndoCancel
  <1>5. CASE StopBuild(c)
    BY <1>5 DEF StopBuild
  <1> QED BY <1>1, <1>2, <1>3, <1>4, <1>5 DEF CancelStep

\* A build keeps a canceller that has an ended row: rows that ended stay ended.
LEMMA EndedStays ==
  ASSUME Typed, RunnerFitsRow, [Next]_vars, NEW b \in BuildIds, row[b] \in Ended
  PROVE  row'[b] \in Ended
  <1> USE DEF Typed, TypeOK, RunnerFitsRow, Moved, Ended
  <1>1. CASE \E d \in BuildIds : StartBuild(d) \/ RunBuild(d) \/ Timeout(d)
    BY <1>1 DEF StartBuild, RunBuild, Timeout, Enqueue, Register, MarkRunning, Build, Check, EnterDeploy,
           Deploy, FinishBuild, Cleanup
  <1>2. CASE \/ \E c \in Cancellers, d \in BuildIds, to \in {"failed", "cancelled"} : BeginCancel(c, d, to)
             \/ \E c \in Cancellers : CancelStep(c)
    BY <1>2 DEF BeginCancel, CancelStep, RecordCancel, WriteCancel, UndoCancel, StopBuild, Active
  <1>3. CASE Restart
    BY <1>3 DEF Restart, Stale, Active
  <1>4. CASE UNCHANGED vars
    BY <1>4 DEF vars
  <1> QED BY <1>1, <1>2, <1>3, <1>4 DEF Next

\* A build that was started stays started.
LEMMA StartedStays ==
  ASSUME Typed, RunnerFitsRow, [Next]_vars, NEW b \in BuildIds, row[b] # "absent"
  PROVE  row'[b] # "absent"
  <1> USE DEF Typed, TypeOK, RunnerFitsRow, Moved
  <1>1. CASE \E d \in BuildIds : StartBuild(d) \/ RunBuild(d) \/ Timeout(d)
    BY <1>1 DEF StartBuild, RunBuild, Timeout, Enqueue, Register, MarkRunning, Build, Check, EnterDeploy,
           Deploy, FinishBuild, Cleanup
  <1>2. CASE \/ \E c \in Cancellers, d \in BuildIds, to \in {"failed", "cancelled"} : BeginCancel(c, d, to)
             \/ \E c \in Cancellers : CancelStep(c)
    BY <1>2 DEF BeginCancel, CancelStep, RecordCancel, WriteCancel, UndoCancel, StopBuild, Active
  <1>3. CASE Restart
    BY <1>3 DEF Restart, Stale, Active
  <1>4. CASE UNCHANGED vars
    BY <1>4 DEF vars
  <1> QED BY <1>1, <1>2, <1>3, <1>4 DEF Next

\* Cancellers stay on builds that were started, and leave an ended row ended.
LEMMA CancellerFits ==
  ASSUME Typed, RunnerFitsRow, CancellerFitsRow, [Next]_vars
  PROVE  CancellerFitsRow'
  <1> USE DEF Typed, TypeOK, BusyHasBuild, Busy, CancellerFitsRow
  <1>1. SUFFICES ASSUME NEW c \in Cancellers
                 PROVE  /\ Busy(c)' => row'[canceller'[c].b] # "absent"
                        /\ canceller'[c].pc = "stop" => row'[canceller'[c].b] \in Ended
    OBVIOUS
  <1>2. CASE canceller'[c] = canceller[c]
    BY <1>2, EndedStays, StartedStays
  <1>3. ASSUME NEW b \in BuildIds, NEW to \in {"failed", "cancelled"}, BeginCancel(c, b, to)
        PROVE  row'[canceller'[c].b] # "absent" /\ canceller'[c].pc # "stop"
    BY <1>3 DEF BeginCancel, Active
  <1>4. CASE RecordCancel(c)
    BY <1>4 DEF RecordCancel, IdleCanceller
  <1>5. CASE WriteCancel(c)
    BY <1>5 DEF WriteCancel, IdleCanceller, Ended, Active
  <1>6. CASE UndoCancel(c) \/ StopBuild(c)
    BY <1>6 DEF UndoCancel, StopBuild, IdleCanceller
  <1>7. CASE Restart
    BY <1>7 DEF Restart, IdleCanceller
  <1>8. ASSUME canceller'[c] # canceller[c]
        PROVE  \/ \E b \in BuildIds, to \in {"failed", "cancelled"} : BeginCancel(c, b, to)
               \/ CancelStep(c) \/ Restart
    <2>1. CASE \E d \in BuildIds : StartBuild(d) \/ RunBuild(d) \/ Timeout(d)
      BY <1>8, <2>1 DEF StartBuild, RunBuild, Timeout, Enqueue, Register, MarkRunning, Build, Check,
             EnterDeploy, Deploy, FinishBuild, Cleanup
    <2>2. ASSUME NEW e \in Cancellers,
                 \/ \E d \in BuildIds, to \in {"failed", "cancelled"} : BeginCancel(e, d, to)
                 \/ CancelStep(e)
          PROVE  e = c
      BY <1>8, <2>2 DEF BeginCancel, CancelStep, RecordCancel, WriteCancel, UndoCancel, StopBuild
    <2>3. CASE UNCHANGED vars
      BY <1>8, <2>3 DEF vars
    <2> QED BY <2>1, <2>2, <2>3 DEF Next
  <1> QED BY <1>2, <1>3, <1>4, <1>5, <1>6, <1>7, <1>8 DEF CancelStep

\* A slot that is held stays held until it is given back, whatever the runner does.
LEMMA RunnerKeepsSlot ==
  ASSUME Typed, RunnerFitsRow, SlotIsHeld, NEW b \in BuildIds,
         StartBuild(b) \/ RunBuild(b) \/ Timeout(b)
  PROVE  SlotIsHeld'
  <1> USE DEF Typed, TypeOK, RunnerFitsRow, SlotIsHeld, Goto, Faulted, Moved, Ended, Active
  <1>0. canceller' = canceller
    BY DEF StartBuild, RunBuild, Timeout, Enqueue, Register, MarkRunning, Build, Check, EnterDeploy,
           Deploy, FinishBuild, Cleanup
  <1>00. \A d \in BuildIds : Writing(d)' = Writing(d)
    BY <1>0 DEF Writing
  <1>1. CASE StartBuild(b)
    BY <1>00, <1>1 DEF StartBuild
  <1>2. CASE Enqueue(b)
    BY <1>00, <1>2 DEF Enqueue
  <1>3. CASE Register(b)
    BY <1>00, <1>3 DEF Register
  <1>4. CASE MarkRunning(b)
    BY <1>00, <1>4 DEF MarkRunning
  <1>5. CASE Build(b)
    BY <1>00, <1>5 DEF Build
  <1>6. CASE Check(b)
    BY <1>00, <1>6 DEF Check
  <1>7. CASE EnterDeploy(b)
    BY <1>00, <1>7 DEF EnterDeploy
  <1>8. CASE Deploy(b)
    BY <1>00, <1>8 DEF Deploy
  <1>9. CASE FinishBuild(b)
    BY <1>00, <1>9 DEF FinishBuild
  <1>10. CASE Cleanup(b)
    BY <1>00, <1>10 DEF Cleanup
  <1>11. CASE Timeout(b)
    BY <1>00, <1>11 DEF Timeout
  <1> QED BY <1>1, <1>2, <1>3, <1>4, <1>5, <1>6, <1>7, <1>8, <1>9, <1>10, <1>11 DEF RunBuild

\* Whoever else is writing the end of a build still is after a step of one canceller.
LEMMA OthersWrite ==
  ASSUME Typed, NEW c \in Cancellers, NEW k, canceller' = [canceller EXCEPT ![c] = k],
         NEW d \in BuildIds, Writing(d), canceller[c].pc = "write" => canceller[c].b # d
  PROVE  Writing(d)'
  BY DEF Typed, TypeOK, Writing

\* Nor do the cancellers let go of a slot: who gives up has met an ended row or a fault.
LEMMA CancellerKeepsSlot ==
  ASSUME Typed, RunnerFitsRow, CancellerFitsRow, SlotIsHeld, NEW c \in Cancellers,
         \/ \E b \in BuildIds, to \in {"failed", "cancelled"} : BeginCancel(c, b, to)
         \/ CancelStep(c)
  PROVE  SlotIsHeld'
  <1> USE DEF Typed, TypeOK, BusyHasBuild
  <1>1. ASSUME NEW b \in BuildIds, NEW to \in {"failed", "cancelled"}, BeginCancel(c, b, to)
        PROVE  SlotIsHeld'
    <2>1. \A d \in BuildIds : Writing(d) => Writing(d)'
      BY <1>1, OthersWrite DEF BeginCancel
    <2> QED BY <1>1, <2>1 DEF BeginCancel, SlotIsHeld
  <1>2. CASE RecordCancel(c)
    <2>1. PICK b \in BuildIds : b = canceller[c].b
      BY <1>2 DEF RecordCancel
    <2>2. CASE canceller' = [canceller EXCEPT ![c] = IdleCanceller] /\ UNCHANGED phase
      <3>1. \A d \in BuildIds : Writing(d) => Writing(d)'
        BY <1>2, <2>2, OthersWrite DEF RecordCancel
      <3> QED BY <1>2, <2>2, <3>1 DEF RecordCancel, SlotIsHeld
    <2>3. CASE /\ canceller' = [canceller EXCEPT ![c].pc = "write", ![c].live = cancelFn[b]]
               /\ phase' = IF cancelFn[b] THEN [phase EXCEPT ![b] = "cancelled"] ELSE phase
      <3>1. canceller' = [canceller EXCEPT ![c] = [canceller[c] EXCEPT !.pc = "write", !.live = cancelFn[b]]]
        BY <2>3
      <3>2. \A d \in BuildIds : Writing(d) => Writing(d)'
        BY <1>2, <3>1, OthersWrite DEF RecordCancel
      <3>3. Writing(b)'
        BY <2>1, <2>3 DEF Writing
      <3>4. UNCHANGED <<row, runner, ctxDone, faulted>>
        BY <1>2 DEF RecordCancel
      <3>5. \A d \in BuildIds \ {b} : phase'[d] = phase[d]
        BY <2>3
      <3> QED BY <3>2, <3>3, <3>4, <3>5 DEF SlotIsHeld
    <2> QED BY <1>2, <2>1, <2>2, <2>3 DEF RecordCancel
  <1>3. CASE WriteCancel(c)
    <2> DEFINE b == canceller[c].b
    <2>1. b \in BuildIds /\ canceller[c].to \in Ended
      BY <1>3 DEF WriteCancel, Ended
    <2>2. PICK pc \in {"stop", "undo"} : canceller' = [canceller EXCEPT ![c].pc = pc]
      BY <1>3 DEF WriteCancel
    <2>3. canceller' = [canceller EXCEPT ![c] = [canceller[c] EXCEPT !.pc = pc]]
      BY <2>2
    <2>4. \A d \in BuildIds \ {b} : Writing(d) => Writing(d)'
      BY <2>3, OthersWrite
    <2>5. row'[b] \notin Active \/ faulted'[b]
      BY <1>3, <2>1 DEF WriteCancel, Faulted, Active, Ended
    <2>6. \A d \in BuildIds \ {b} : row'[d] = row[d] /\ faulted'[d] = faulted[d]
      BY <1>3, <2>1 DEF WriteCancel, Faulted
    <2>7. /\ UNCHANGED <<runner, phase, ctxDone>>
          /\ faulted[b] => faulted'[b]
          /\ row[b] \in Ended => row'[b] \in Ended
      BY <1>3, <2>1 DEF WriteCancel, Faulted, Active, Ended
    <2>8. ctxDone'[b] => faulted'[b] \/ row'[b] \in Ended
      BY <2>1, <2>7 DEF SlotIsHeld
    <2> HIDE DEF b
    <2> QED BY <2>1, <2>4, <2>5, <2>6, <2>7, <2>8 DEF SlotIsHeld
  <1>4. CASE UndoCancel(c)
    <2>1. \A d \in BuildIds : Writing(d) => Writing(d)'
      BY <1>4, OthersWrite DEF UndoCancel
    <2> QED BY <1>4, <2>1 DEF UndoCancel, SlotIsHeld
  <1>5. CASE StopBuild(c)
    <2>1. \A d \in BuildIds : Writing(d) => Writing(d)'
      BY <1>5, OthersWrite DEF StopBuild
    <2>2. row[canceller[c].b] \in Ended
      BY <1>5 DEF StopBuild, CancellerFitsRow
    <2> QED BY <1>5, <2>1, <2>2 DEF StopBuild, SlotIsHeld
  <1> QED BY <1>1, <1>2, <1>3, <1>4, <1>5 DEF CancelStep

\* After a restart nothing runs, nobody cancels, and no row is active but by a fault.
LEMMA RestartConsistent ==
  ASSUME Consistent, Restart
  PROVE  Consistent'
  <1> USE DEF Consistent, Typed, TypeOK, Restart
  <1>1. \A b \in BuildIds : (row[b] = "absent") <=> (row'[b] = "absent")
    BY DEF Stale, Active
  <1>2. \A b \in BuildIds : row'[b] \in Active => faulted'[b]
    BY DEF Stale, Active
  <1>3. /\ runner' = [b \in BuildIds |-> "none"] /\ phase' = [b \in BuildIds |-> "none"]
        /\ ctxDone' = [b \in BuildIds |-> FALSE] /\ UNCHANGED deployed
        /\ canceller' = [c \in Cancellers |-> IdleCanceller]
    OBVIOUS
  <1>4. RunnerFitsRow'
    BY <1>1, <1>3 DEF RunnerFitsRow
  <1>5. CancellerFitsRow'
    BY <1>3 DEF CancellerFitsRow, Busy, IdleCanceller
  <1>6. SlotIsHeld'
    BY <1>2, <1>3 DEF SlotIsHeld
  <1> QED BY <1>4, <1>5, <1>6, RestartTyped DEF Consistent

\* The row, the runner and the cancellers of every build stay consistent.
LEMMA StaysConsistent == Spec => []Consistent
  <1>1. Init => Consistent
    <2>1. Init => Typed
      BY DEF Init, Typed, TypeOK, BusyHasBuild, IdleCanceller, RunnerSteps
    <2>2. Init => RunnerFitsRow /\ CancellerFitsRow /\ SlotIsHeld
      BY DEF Init, RunnerFitsRow, CancellerFitsRow, SlotIsHeld, Busy, IdleCanceller, Active
    <2> QED BY <2>1, <2>2 DEF Consistent
  <1>2. Consistent /\ [Next]_vars => Consistent'
    <2> SUFFICES ASSUME Consistent, [Next]_vars PROVE Consistent'
      OBVIOUS
    <2>1. CASE UNCHANGED vars
      BY <2>1 DEF vars, Consistent, Typed, TypeOK, BusyHasBuild, RunnerFitsRow, CancellerFitsRow,
             SlotIsHeld, Busy, Writing
    <2>2. ASSUME NEW b \in BuildIds, StartBuild(b) \/ RunBuild(b) \/ Timeout(b) PROVE Consistent'
      BY <2>2, RunnerTyped, RunnerKeepsFit, CancellerFits, RunnerKeepsSlot DEF Consistent
    <2>3. ASSUME NEW c \in Cancellers,
                 \/ \E b \in BuildIds, to \in {"failed", "cancelled"} : BeginCancel(c, b, to)
                 \/ CancelStep(c)
          PROVE  Consistent'
      BY <2>3, CancellerTyped, CancellerKeepsFit, CancellerFits, CancellerKeepsSlot DEF Consistent
    <2> QED BY <2>1, <2>2, <2>3, RestartConsistent DEF Next
  <1> QED BY <1>1, <1>2, PTL DEF Spec

\* A build that nothing runs any more holds no slot of the quota, unless a cancel of it is still
\* to write or a fault hit it: StartBuild, runBuild and cancelActive together.
THEOREM SlotsAreReturned == Spec => []NoAbandonedSlot
  <1>1. Consistent => NoAbandonedSlot
    BY DEF Consistent, SlotIsHeld, NoAbandonedSlot, Writing
  <1> QED BY <1>1, StaysConsistent, PTL

-----------------------------------------------------------------------------
(* The refinement of BuildOutcome. *)

\* A step of StartBuild or runBuild is a step of the builds table, or leaves it alone.
LEMMA RunnerRefines ==
  ASSUME Typed, RunnerFitsRow, NEW b \in BuildIds, StartBuild(b) \/ RunBuild(b) \/ Timeout(b)
  PROVE  [Outcome!Next]_<<row, deployed>>
  <1> USE DEF Typed, TypeOK, RunnerFitsRow
  <1>1. CASE StartBuild(b)
    <2>1. Outcome!Submit(b)
      BY <1>1 DEF StartBuild, Outcome!Submit, Outcome!Move
    <2> QED BY <2>1 DEF Outcome!Next
  <1>2. CASE Enqueue(b)
    <2>1. Outcome!Refuse(b) \/ UNCHANGED <<row, deployed>>
      BY <1>2 DEF Enqueue, Outcome!Refuse, Outcome!Move
    <2> QED BY <2>1 DEF Outcome!Next
  <1>3. CASE MarkRunning(b)
    <2>1. Outcome!Run(b) \/ Outcome!Fail(b) \/ UNCHANGED <<row, deployed>>
      BY <1>3 DEF MarkRunning, Moved, Outcome!Run, Outcome!Fail, Outcome!Move, Outcome!Active
    <2> QED BY <2>1 DEF Outcome!Next
  <1>4. CASE Deploy(b)
    <2>1. Outcome!Deploy(b)
      BY <1>4 DEF Deploy, Outcome!Deploy
    <2> QED BY <2>1 DEF Outcome!Next
  <1>5. CASE FinishBuild(b)
    <2>1. Outcome!Succeed(b) \/ Outcome!Fail(b) \/ UNCHANGED <<row, deployed>>
      BY <1>5 DEF FinishBuild, Moved, Outcome!Succeed, Outcome!Fail, Outcome!Move, Outcome!Active
    <2> QED BY <2>1 DEF Outcome!Next
  <1>6. CASE Timeout(b) \/ Register(b) \/ Build(b) \/ Check(b) \/ EnterDeploy(b) \/ Cleanup(b)
    BY <1>6 DEF Timeout, Register, Build, Check, EnterDeploy, Cleanup
  <1> QED BY <1>1, <1>2, <1>3, <1>4, <1>5, <1>6 DEF RunBuild

\* So is a step of a canceller.
LEMMA CancellerRefines ==
  ASSUME Typed, NEW c \in Cancellers, CancelStep(c)
  PROVE  [Outcome!Next]_<<row, deployed>>
  <1>1. CASE WriteCancel(c)
    <2> DEFINE b == canceller[c].b
    <2>1. b \in BuildIds /\ canceller[c].to \in {"failed", "cancelled"}
      BY <1>1 DEF WriteCancel, Typed, TypeOK, BusyHasBuild
    <2>2. Outcome!Fail(b) \/ Outcome!Cancel(b) \/ UNCHANGED <<row, deployed>>
      BY <1>1, <2>1 DEF WriteCancel, Active, Outcome!Fail, Outcome!Cancel, Outcome!Move, Outcome!Active
    <2> QED BY <2>1, <2>2 DEF Outcome!Next
  <1>2. CASE RecordCancel(c) \/ UndoCancel(c) \/ StopBuild(c)
    BY <1>2 DEF RecordCancel, UndoCancel, StopBuild
  <1> QED BY <1>1, <1>2 DEF CancelStep

\* Builds implements BuildOutcome: whatever runner, cancellers, faults and restarts do, a build is
\* submitted once, runs at most once, succeeds only once it was deployed, and stays as it ended.
THEOREM ImplementsOutcome == Spec => OutcomeSpec
  <1>1. Init => Outcome!Init
    BY DEF Init, Outcome!Init
  <1>2. Consistent /\ [Next]_vars => [Outcome!Next]_<<row, deployed>>
    <2> SUFFICES ASSUME Consistent, [Next]_vars PROVE [Outcome!Next]_<<row, deployed>>
      OBVIOUS
    <2>1. CASE Restart
      <3>1. Outcome!Restart \/ UNCHANGED <<row, deployed>>
        BY <2>1 DEF Restart, Stale, Active, Outcome!Restart, Outcome!Active
      <3> QED BY <3>1 DEF Outcome!Next
    <2>2. CASE UNCHANGED vars
      BY <2>2 DEF vars
    <2>3. CASE \E c \in Cancellers, b \in BuildIds, to \in {"failed", "cancelled"} : BeginCancel(c, b, to)
      BY <2>3 DEF BeginCancel
    <2> QED BY <2>1, <2>2, <2>3, RunnerRefines, CancellerRefines DEF Next, Consistent
  <1> QED BY <1>1, <1>2, StaysConsistent, PTL DEF Spec, OutcomeSpec, Outcome!Spec

-----------------------------------------------------------------------------
(* A cancel and the start of the deploy exclude each other while the mark of the cancel stands. *)

\* Phases and runners stay in step.
LEMMA PhaseKeepsFit ==
  ASSUME Typed, RunnerFitsRow, PhaseFitsRunner, [Next]_vars
  PROVE  PhaseFitsRunner'
  <1> USE DEF Typed, TypeOK, PhaseFitsRunner, RunnerFitsRow
  <1>1. CASE \E b \in BuildIds : StartBuild(b) \/ RunBuild(b) \/ Timeout(b)
    <2> PICK b \in BuildIds : StartBuild(b) \/ RunBuild(b) \/ Timeout(b)
      BY <1>1
    <2>1. CASE StartBuild(b) \/ Enqueue(b) \/ Register(b)
      BY <2>1 DEF StartBuild, Enqueue, Register, Goto
    <2>2. CASE MarkRunning(b) \/ Build(b) \/ Check(b)
      BY <2>2 DEF MarkRunning, Build, Check, Goto
    <2>3. CASE EnterDeploy(b) \/ Deploy(b)
      BY <2>3 DEF EnterDeploy, Deploy, Goto
    <2>4. CASE FinishBuild(b) \/ Cleanup(b) \/ Timeout(b)
      BY <2>4 DEF FinishBuild, Cleanup, Timeout, Goto
    <2> QED BY <2>1, <2>2, <2>3, <2>4 DEF RunBuild
  <1>2. CASE \E c \in Cancellers, b \in BuildIds, to \in {"failed", "cancelled"} : BeginCancel(c, b, to)
    BY <1>2 DEF BeginCancel
  <1>3. CASE \E c \in Cancellers : CancelStep(c)
    BY <1>3 DEF CancelStep, RecordCancel, WriteCancel, UndoCancel, StopBuild, BusyHasBuild
  <1>4. CASE Restart
    BY <1>4 DEF Restart
  <1>5. CASE UNCHANGED vars
    BY <1>5 DEF vars
  <1> QED BY <1>1, <1>2, <1>3, <1>4, <1>5 DEF Next

\* The runner of a build that was stopped leaves it stopped.
LEMMA RunnerStaysStopped ==
  ASSUME Typed, RunnerFitsRow, PhaseFitsRunner, NEW b \in BuildIds,
         StartBuild(b) \/ RunBuild(b) \/ Timeout(b),
         NEW d \in BuildIds, row[d] # "absent", Stopped(d)
  PROVE  Stopped(d)'
  <1> USE DEF Typed, TypeOK, PhaseFitsRunner, RunnerFitsRow, Stopped, Goto
  <1>1. CASE StartBuild(b) \/ Enqueue(b) \/ Register(b) \/ MarkRunning(b)
    BY <1>1 DEF StartBuild, Enqueue, Register, MarkRunning
  <1>2. CASE Build(b) \/ Check(b) \/ EnterDeploy(b)
    BY <1>2 DEF Build, Check, EnterDeploy
  <1>3. CASE Deploy(b) \/ FinishBuild(b) \/ Cleanup(b) \/ Timeout(b)
    BY <1>3 DEF Deploy, FinishBuild, Cleanup, Timeout
  <1> QED BY <1>1, <1>2, <1>3 DEF RunBuild

\* A cancel that takes a mark back leaves a build that was stopped stopped, or is recorded.
LEMMA CancellerStaysStopped ==
  ASSUME Typed, RunnerFitsRow, PhaseFitsRunner, NEW c \in Cancellers, CancelStep(c),
         NEW d \in BuildIds, row[d] # "absent", unmarked[d] \/ Stopped(d),
         UndoCancel(c) /\ canceller[c].b = d => OtherCancel(c, d)
  PROVE  (unmarked[d] \/ Stopped(d))'
  <1> USE DEF Typed, TypeOK, BusyHasBuild, PhaseFitsRunner, RunnerFitsRow, Stopped
  <1>1. CASE RecordCancel(c)
    BY <1>1 DEF RecordCancel
  <1>2. CASE WriteCancel(c) \/ StopBuild(c)
    BY <1>2 DEF WriteCancel, StopBuild
  <1>3. CASE UndoCancel(c)
    <2>1. canceller[c].b \in BuildIds
      BY <1>3 DEF UndoCancel
    <2>2. CASE canceller[c].b = d
      BY <1>3, <2>1, <2>2 DEF UndoCancel
    <2>3. CASE canceller[c].b # d
      BY <1>3, <2>1, <2>3 DEF UndoCancel
    <2> QED BY <2>2, <2>3
  <1> QED BY <1>1, <1>2, <1>3 DEF CancelStep

\* Nobody takes back the mark of a cancel that has won or may win, without its being recorded.
LEMMA CancelsStayExclusive ==
  ASSUME Typed, RunnerFitsRow, CancellerFitsRow, Exclusive, NEW c \in Cancellers, CancelStep(c),
         \A d \in BuildIds : row[d] \in Ended => row'[d] \in Ended
  PROVE  LiveCancelStops' /\ WonCancelStops'
  <1> USE DEF Typed, TypeOK, BusyHasBuild
  <1>1. ASSUME NEW d \in BuildIds, wonLive[d]
        PROVE  row'[d] \in Ended /\ (unmarked[d] \/ Stopped(d))'
    <2>1. row[d] # "absent" /\ (unmarked[d] \/ Stopped(d)) /\ OtherCancel(c, d)
      BY <1>1 DEF Exclusive, WonCancelStops, Ended, OtherCancel
    <2> QED BY <1>1, <2>1, CancellerStaysStopped DEF Exclusive, WonCancelStops
  <1>2. ASSUME NEW d \in BuildIds, wonLive'[d]
        PROVE  row'[d] \in Ended /\ (unmarked[d] \/ Stopped(d))'
    <2>1. CASE wonLive[d]
      BY <1>1, <2>1
    <2>2. CASE ~wonLive[d]
      <3>1. WriteCancel(c) /\ canceller[c].b = d /\ canceller[c].live /\ row'[d] = canceller[c].to
        BY <1>2, <2>2 DEF CancelStep, RecordCancel, WriteCancel, UndoCancel, StopBuild
      <3>2. unmarked[d] \/ Stopped(d)
        BY <3>1 DEF Exclusive, LiveCancelStops, WriteCancel
      <3>3. row[d] # "absent"
        BY <3>1 DEF CancellerFitsRow, Busy, WriteCancel
      <3>4. ~UndoCancel(c)
        BY <3>1 DEF UndoCancel, WriteCancel
      <3> QED BY <3>1, <3>2, <3>3, <3>4, CancellerStaysStopped DEF Exclusive, Ended
    <2> QED BY <2>1, <2>2
  <1>3. ASSUME NEW e \in Cancellers, canceller'[e].pc = "write", canceller'[e].live
        PROVE  (unmarked[canceller[e].b] \/ Stopped(canceller[e].b))'
    <2>1. CASE e = c
      <3>1. RecordCancel(c) /\ phase[canceller[c].b] # "deploying" /\ cancelFn[canceller[c].b]
            /\ canceller'[c].b = canceller[c].b
        BY <1>3, <2>1 DEF CancelStep, RecordCancel, WriteCancel, UndoCancel, StopBuild, IdleCanceller
      <3>2. canceller[c].b \in BuildIds /\ phase'[canceller[c].b] = "cancelled" /\ deployed' = deployed
        BY <3>1 DEF RecordCancel
      <3>3. ~deployed[canceller[c].b]
        BY <3>1, <3>2 DEF Exclusive, PhaseFitsRunner
      <3> QED BY <2>1, <3>1, <3>2, <3>3 DEF Stopped
    <2>2. CASE e # c
      <3>1. canceller'[e] = canceller[e]
        BY <2>2 DEF CancelStep, RecordCancel, WriteCancel, UndoCancel, StopBuild
      <3> DEFINE d == canceller[e].b
      <3>2. d \in BuildIds /\ row[d] # "absent" /\ (unmarked[d] \/ Stopped(d))
        BY <1>3, <3>1 DEF Exclusive, LiveCancelStops, CancellerFitsRow, Busy
      <3>3. OtherCancel(c, d)
        BY <1>3, <2>2, <3>1 DEF OtherCancel
      <3>4. PICK f \in BuildIds : f = d
        BY <3>2
      <3> HIDE DEF d
      <3>5. (unmarked[f] \/ Stopped(f))'
        BY <3>2, <3>3, <3>4, CancellerStaysStopped DEF Exclusive
      <3> QED BY <3>1, <3>4, <3>5 DEF d, Stopped
    <2> QED BY <2>1, <2>2
  <1>4. LiveCancelStops'
    BY <1>3 DEF LiveCancelStops
  <1>5. WonCancelStops'
    BY <1>2 DEF WonCancelStops, Stopped
  <1> QED BY <1>4, <1>5

\* So is the invariant.
LEMMA StaysExclusive ==
  ASSUME Consistent, Exclusive, [Next]_vars
  PROVE  Exclusive'
  <1> USE DEF Consistent
  <1>0. PhaseFitsRunner'
    BY PhaseKeepsFit DEF Exclusive
  <1>00. \A d \in BuildIds : row[d] \in Ended => row'[d] \in Ended
    BY EndedStays
  <1>1. ASSUME NEW b \in BuildIds, StartBuild(b) \/ RunBuild(b) \/ Timeout(b)
        PROVE  LiveCancelStops' /\ WonCancelStops'
    <2>1. UNCHANGED <<canceller, wonLive, unmarked>>
      BY <1>1 DEF StartBuild, RunBuild, Timeout, Enqueue, Register, MarkRunning, Build, Check,
             EnterDeploy, Deploy, FinishBuild, Cleanup
    <2>2. \A d \in BuildIds : row[d] # "absent" /\ Stopped(d) => Stopped(d)'
      BY <1>1, RunnerStaysStopped DEF Exclusive
    <2>4. LiveCancelStops'
      BY <2>1, <2>2 DEF Exclusive, LiveCancelStops, CancellerFitsRow, Busy, Typed, BusyHasBuild
    <2>5. WonCancelStops'
      BY <2>1, <2>2, <1>00 DEF Exclusive, WonCancelStops, Ended
    <2> QED BY <2>4, <2>5
  <1>2. ASSUME NEW c \in Cancellers, NEW b \in BuildIds, NEW to \in {"failed", "cancelled"},
               BeginCancel(c, b, to)
        PROVE  LiveCancelStops' /\ WonCancelStops'
    BY <1>2 DEF BeginCancel, Exclusive, LiveCancelStops, WonCancelStops, Stopped, Typed, TypeOK
  <1>3. ASSUME NEW c \in Cancellers, CancelStep(c)
        PROVE  LiveCancelStops' /\ WonCancelStops'
    BY <1>00, <1>3, CancelsStayExclusive
  <1>4. CASE Restart
    <2>1. LiveCancelStops'
      BY <1>4 DEF Restart, LiveCancelStops, IdleCanceller, Typed, TypeOK
    <2>2. WonCancelStops'
      BY <1>00, <1>4 DEF Restart, Exclusive, WonCancelStops, Stopped, Typed, TypeOK
    <2> QED BY <1>0, <2>1, <2>2 DEF Exclusive
  <1>5. CASE UNCHANGED vars
    BY <1>0, <1>5 DEF vars, Exclusive, LiveCancelStops, WonCancelStops, Stopped
  <1> QED BY <1>0, <1>1, <1>2, <1>3, <1>4, <1>5 DEF Next, Exclusive

\* The comment on the phases, for any number of cancels: a cancel that found runBuild live and
\* moved the row, and the start of the deploy, do not both win, unless the undo of another cancel
\* has removed the mark.
THEOREM CancelOrDeploy == Spec => []MarkExcludesDeploy
  <1>1. Init => Exclusive
    BY DEF Init, Exclusive, PhaseFitsRunner, LiveCancelStops, WonCancelStops, IdleCanceller
  <1>2. Consistent /\ Exclusive /\ [Next]_vars => Exclusive'
    BY StaysExclusive
  <1>3. Exclusive => MarkExcludesDeploy
    BY DEF Exclusive, WonCancelStops, Stopped, MarkExcludesDeploy
  <1> QED BY <1>1, <1>2, <1>3, StaysConsistent, PTL DEF Spec

=============================================================================
