-------------------------------- MODULE Builds --------------------------------
(***************************************************************************)
(* builds.Manager: StartBuild, the goroutine runBuild it starts for a      *)
(* build, and cancelActive, which CancelBuild and CancelAllForTenant run   *)
(* from other goroutines.  The three share the build's row, and the        *)
(* in-memory phases and cancels maps under logMu.  A cancel and the start  *)
(* of the deploy must not both win.                                        *)
(*                                                                         *)
(* A step is one database statement or one critical section of logMu.      *)
(* Build logs are left out.  The builder and the deploy function are       *)
(* external: they succeed or fail.                                         *)
(***************************************************************************)
EXTENDS Naturals, FiniteSets

CONSTANTS
  BuildIds,      \* builds ever started
  Cancellers,    \* goroutines that cancel builds
  Nothing,       \* the build of an idle canceller
  MaxBuilds,     \* tenant_quotas.max_builds_concurrent
  QueueSize,     \* capacity of buildQueue
  Faults         \* what may fail: "cancelwrite", "runwrite" (a write of a cancel, or of StartBuild,
                 \* runBuild and the startup), "timeout" (20 minutes)

ASSUME BuildsAssumption ==
  /\ Nothing \notin BuildIds
  /\ MaxBuilds \in Nat
  /\ QueueSize \in Nat
  /\ Faults \subseteq {"cancelwrite", "runwrite", "timeout"}

VARIABLES
  row,        \* builds.status
  runner,     \* where StartBuild or runBuild is for a build
  cancelFn,   \* whether cancels[b] is set
  phase,      \* phases[b]
  ctxDone,    \* the build's context is cancelled or timed out
  canceller,  \* what each canceller is doing
  deployed,   \* whether deployFn was called for the build
  wonLive,    \* history: a cancel that found runBuild live has moved the row
  unmarked,   \* history: a cancel that lost took back the mark of another, which had won or may
  faulted     \* history: a database write for the build failed or its time ran out

vars == <<row, runner, cancelFn, phase, ctxDone, canceller, deployed, wonLive, unmarked, faulted>>

Active == {"pending", "running"}
RunnerSteps == {"none", "queue", "register", "mark", "build", "check", "enter", "deploy",
                "failed", "succeeded", "cleanup"}

IdleCanceller == [pc |-> "idle", b |-> Nothing, to |-> "failed", live |-> FALSE]

Init ==
  /\ row = [b \in BuildIds |-> "absent"]
  /\ runner = [b \in BuildIds |-> "none"]
  /\ cancelFn = [b \in BuildIds |-> FALSE]
  /\ phase = [b \in BuildIds |-> "none"]
  /\ ctxDone = [b \in BuildIds |-> FALSE]
  /\ canceller = [c \in Cancellers |-> IdleCanceller]
  /\ deployed = [b \in BuildIds |-> FALSE]
  /\ wonLive = [b \in BuildIds |-> FALSE]
  /\ unmarked = [b \in BuildIds |-> FALSE]
  /\ faulted = [b \in BuildIds |-> FALSE]

Faulted(b) == faulted' = [faulted EXCEPT ![b] = TRUE]

Goto(b, pc) == runner' = [runner EXCEPT ![b] = pc]

\* Builds that hold a slot of buildQueue: from the push to the end of runBuild.
Queued == {b \in BuildIds : runner[b] \notin {"none", "queue"}}

\* UPDATE builds SET status = to WHERE id = b AND status IN from.
Moved(b, from, to) == IF row[b] \in from THEN [row EXCEPT ![b] = to] ELSE row

-----------------------------------------------------------------------------
(* StartBuild. *)

\* The quota is counted and the row inserted in one statement.
StartBuild(b) ==
  /\ row[b] = "absent"
  /\ Cardinality({d \in BuildIds : row[d] \in Active}) < MaxBuilds
  /\ row' = [row EXCEPT ![b] = "pending"]
  /\ Goto(b, "queue")
  /\ UNCHANGED <<cancelFn, phase, ctxDone, canceller, deployed, wonLive, unmarked, faulted>>

\* Mutant: a full queue is reported to the caller, and the row left pending.
EnqueueOrReturn(b) ==
  /\ runner[b] = "queue"
  /\ Goto(b, IF Cardinality(Queued) < QueueSize THEN "register" ELSE "none")
  /\ UNCHANGED <<row, cancelFn, phase, ctxDone, canceller, deployed, wonLive, unmarked, faulted>>

\* A full queue fails the build synchronously, whatever its row says by now; an error of that
\* write is not looked at.
Enqueue(b) ==
  /\ runner[b] = "queue"
  /\ \/ Cardinality(Queued) < QueueSize /\ Goto(b, "register") /\ UNCHANGED <<row, faulted>>
     \/ /\ Cardinality(Queued) >= QueueSize /\ Goto(b, "none")
        /\ \/ row' = [row EXCEPT ![b] = "failed"] /\ UNCHANGED faulted
           \/ "runwrite" \in Faults /\ Faulted(b) /\ UNCHANGED row
  /\ UNCHANGED <<cancelFn, phase, ctxDone, canceller, deployed, wonLive, unmarked>>

-----------------------------------------------------------------------------
(* runBuild. *)

Register(b) ==
  /\ runner[b] = "register"
  /\ cancelFn' = [cancelFn EXCEPT ![b] = TRUE]
  /\ Goto(b, "mark")
  /\ UNCHANGED <<row, phase, ctxDone, canceller, deployed, wonLive, unmarked, faulted>>

\* Only a pending row is taken. When the write fails the row is failed instead, if that works.
MarkRunning(b) ==
  /\ runner[b] = "mark"
  /\ \/ /\ ~ctxDone[b]
        /\ row' = Moved(b, {"pending"}, "running")
        /\ Goto(b, IF row[b] = "pending" THEN "build" ELSE "cleanup")
        /\ UNCHANGED faulted
     \/ /\ ctxDone[b] \/ "runwrite" \in Faults
        /\ row' \in {Moved(b, {"pending"}, "failed")} \cup (IF "runwrite" \in Faults THEN {row} ELSE {})
        /\ Goto(b, "cleanup")
        /\ Faulted(b)
  /\ UNCHANGED <<cancelFn, phase, ctxDone, canceller, deployed, wonLive, unmarked>>

\* builder.Build: a build that was cancelled may still finish "successfully".
Build(b) ==
  /\ runner[b] = "build"
  /\ Goto(b, "check") \/ Goto(b, "failed")
  /\ UNCHANGED <<row, cancelFn, phase, ctxDone, canceller, deployed, wonLive, unmarked, faulted>>

\* The build is over; a cancel may have landed while it was finishing.
Check(b) ==
  /\ runner[b] = "check"
  /\ \/ row[b] = "running" /\ ~ctxDone[b] /\ Goto(b, "enter") /\ UNCHANGED faulted
     \/ (row[b] # "running" \/ ctxDone[b]) /\ Goto(b, "cleanup") /\ UNCHANGED faulted
     \/ "runwrite" \in Faults /\ Goto(b, "cleanup") /\ Faulted(b)
  /\ UNCHANGED <<row, cancelFn, phase, ctxDone, canceller, deployed, wonLive, unmarked>>

\* Mutant: the deploy phase is entered without asking whether a cancel won.
EnterDeployAnyway(b) ==
  /\ runner[b] = "enter"
  /\ phase' = [phase EXCEPT ![b] = "deploying"]
  /\ Goto(b, "deploy")
  /\ UNCHANGED <<row, cancelFn, ctxDone, canceller, deployed, wonLive, unmarked, faulted>>

\* Under logMu: from here on a cancel is refused, unless one was recorded before.
EnterDeploy(b) ==
  /\ runner[b] = "enter"
  /\ \/ /\ phase[b] = "cancelled"
        /\ Goto(b, "cleanup")
        /\ UNCHANGED phase
     \/ /\ phase[b] # "cancelled"
        /\ phase' = [phase EXCEPT ![b] = "deploying"]
        /\ Goto(b, "deploy")
  /\ UNCHANGED <<row, cancelFn, ctxDone, canceller, deployed, wonLive, unmarked, faulted>>

Deploy(b) ==
  /\ runner[b] = "deploy"
  /\ deployed' = [deployed EXCEPT ![b] = TRUE]
  /\ Goto(b, "succeeded") \/ Goto(b, "failed")
  /\ UNCHANGED <<row, cancelFn, phase, ctxDone, canceller, wonLive, unmarked, faulted>>

\* Mutant: the terminal write does not ask for a running row.
FinishBuildUnguarded(b) ==
  /\ runner[b] \in {"failed", "succeeded"}
  /\ row' = [row EXCEPT ![b] = runner[b]]
  /\ Goto(b, "cleanup")
  /\ UNCHANGED <<cancelFn, phase, ctxDone, canceller, deployed, wonLive, unmarked, faulted>>

\* Mutant: a status no reader knows.
FinishBuildMisnamed(b) ==
  /\ runner[b] \in {"failed", "succeeded"}
  /\ row' = Moved(b, {"running"}, IF runner[b] = "succeeded" THEN "success" ELSE "failed")
  /\ Goto(b, "cleanup")
  /\ UNCHANGED <<cancelFn, phase, ctxDone, canceller, deployed, wonLive, unmarked, faulted>>

\* finishBuild: a running build gets its terminal status.
FinishBuild(b) ==
  /\ runner[b] \in {"failed", "succeeded"}
  /\ \/ row' = Moved(b, {"running"}, runner[b]) /\ UNCHANGED faulted
     \/ "runwrite" \in Faults /\ UNCHANGED row /\ Faulted(b)
  /\ Goto(b, "cleanup")
  /\ UNCHANGED <<cancelFn, phase, ctxDone, canceller, deployed, wonLive, unmarked>>

\* The deferred cleanup, under logMu, and the release of the queue slot.
Cleanup(b) ==
  /\ runner[b] = "cleanup"
  /\ cancelFn' = [cancelFn EXCEPT ![b] = FALSE]
  /\ phase' = [phase EXCEPT ![b] = "none"]
  /\ Goto(b, "none")
  /\ UNCHANGED <<row, ctxDone, canceller, deployed, wonLive, unmarked, faulted>>

\* The 20 minutes of runBuild's context are over.
Timeout(b) ==
  /\ "timeout" \in Faults
  /\ runner[b] \notin {"none", "queue", "register"}
  /\ ~ctxDone[b]
  /\ ctxDone' = [ctxDone EXCEPT ![b] = TRUE]
  /\ Faulted(b)
  /\ UNCHANGED <<row, runner, cancelFn, phase, canceller, deployed, wonLive, unmarked>>

-----------------------------------------------------------------------------
(* cancelActive, and the reads of its two callers. *)

\* CancelBuild reads the row, CancelAllForTenant the list: the build was active then.
BeginCancel(c, b, to) ==
  /\ canceller[c].pc = "idle"
  /\ row[b] \in Active
  /\ canceller' = [canceller EXCEPT ![c] = [pc |-> "record", b |-> b, to |-> to, live |-> FALSE]]
  /\ UNCHANGED <<row, runner, cancelFn, phase, ctxDone, deployed, wonLive, unmarked, faulted>>

\* Under logMu: refuse once the build is deploying, else record that a cancel won if runBuild
\* is live.
RecordCancel(c) ==
  LET b == canceller[c].b
  IN /\ canceller[c].pc = "record"
     /\ \/ /\ phase[b] = "deploying"
           /\ canceller' = [canceller EXCEPT ![c] = IdleCanceller]
           /\ UNCHANGED phase
        \/ /\ phase[b] # "deploying"
           /\ phase' = IF cancelFn[b] THEN [phase EXCEPT ![b] = "cancelled"] ELSE phase
           /\ canceller' = [canceller EXCEPT ![c].pc = "write", ![c].live = cancelFn[b]]
     /\ UNCHANGED <<row, runner, cancelFn, ctxDone, deployed, wonLive, unmarked, faulted>>

WriteCancel(c) ==
  LET b == canceller[c].b
      giveUp == canceller' = [canceller EXCEPT ![c].pc = "undo"]
  IN /\ canceller[c].pc = "write"
     /\ \/ /\ row[b] \in Active
           /\ row' = [row EXCEPT ![b] = canceller[c].to]
           /\ wonLive' = [wonLive EXCEPT ![b] = @ \/ canceller[c].live]
           /\ canceller' = [canceller EXCEPT ![c].pc = "stop"]
           /\ UNCHANGED faulted
        \/ row[b] \notin Active /\ giveUp /\ UNCHANGED <<row, wonLive, faulted>>
        \/ "cancelwrite" \in Faults /\ giveUp /\ Faulted(b) /\ UNCHANGED <<row, wonLive>>
     /\ UNCHANGED <<runner, cancelFn, phase, ctxDone, deployed, unmarked>>

\* A cancel of b other than c has won, or may win, after it found runBuild live.
OtherCancel(c, b) ==
  wonLive[b] \/ \E d \in Cancellers \ {c} :
                  canceller[d].b = b /\ canceller[d].pc = "write" /\ canceller[d].live

\* undo: the mark is removed, no matter which cancel made it.
UndoCancel(c) ==
  LET b == canceller[c].b
  IN /\ canceller[c].pc = "undo"
     /\ \/ /\ phase[b] = "cancelled"
           /\ phase' = [phase EXCEPT ![b] = "none"]
           /\ unmarked' = [unmarked EXCEPT ![b] = @ \/ OtherCancel(c, b)]
        \/ phase[b] # "cancelled" /\ UNCHANGED <<phase, unmarked>>
     /\ canceller' = [canceller EXCEPT ![c] = IdleCanceller]
     /\ UNCHANGED <<row, runner, cancelFn, ctxDone, deployed, wonLive, faulted>>

\* Cancel the context of a build that is still live; the builder's unit is stopped with it.
StopBuild(c) ==
  LET b == canceller[c].b
  IN /\ canceller[c].pc = "stop"
     /\ ctxDone' = IF cancelFn[b] THEN [ctxDone EXCEPT ![b] = TRUE] ELSE ctxDone
     /\ canceller' = [canceller EXCEPT ![c] = IdleCanceller]
     /\ UNCHANGED <<row, runner, cancelFn, phase, deployed, wonLive, unmarked, faulted>>

-----------------------------------------------------------------------------
\* Mutant: reconcileStaleBuilds looks for running rows only.
StaleRunningOnly(b) == row[b] = "running"

Stale(b) == row[b] \in Active

\* The process dies and comes back: reconcileStaleBuilds fails what was active, in one statement;
\* its error is logged.
Restart ==
  /\ \/ /\ row' = [b \in BuildIds |-> IF Stale(b) THEN "failed" ELSE row[b]]
        /\ UNCHANGED faulted
     \/ /\ "runwrite" \in Faults
        /\ faulted' = [b \in BuildIds |-> faulted[b] \/ Stale(b)]
        /\ UNCHANGED row
  /\ runner' = [b \in BuildIds |-> "none"]
  /\ cancelFn' = [b \in BuildIds |-> FALSE]
  /\ phase' = [b \in BuildIds |-> "none"]
  /\ ctxDone' = [b \in BuildIds |-> FALSE]
  /\ canceller' = [c \in Cancellers |-> IdleCanceller]
  /\ UNCHANGED <<deployed, wonLive, unmarked>>

RunBuild(b) ==
  \/ Enqueue(b) \/ Register(b) \/ MarkRunning(b) \/ Build(b) \/ Check(b) \/ EnterDeploy(b)
  \/ Deploy(b) \/ FinishBuild(b) \/ Cleanup(b)

CancelStep(c) == RecordCancel(c) \/ WriteCancel(c) \/ UndoCancel(c) \/ StopBuild(c)

Next ==
  \/ \E b \in BuildIds : StartBuild(b) \/ RunBuild(b) \/ Timeout(b)
  \/ \E c \in Cancellers, b \in BuildIds, to \in {"failed", "cancelled"} : BeginCancel(c, b, to)
  \/ \E c \in Cancellers : CancelStep(c)
  \/ Restart

\* The goroutines are scheduled; the builder and the deploy have deadlines of their own.
Fairness == /\ \A b \in BuildIds : WF_vars(RunBuild(b))
            /\ \A c \in Cancellers : WF_vars(CancelStep(c))

Spec == Init /\ [][Next]_vars /\ Fairness

-----------------------------------------------------------------------------
(* Properties. *)

\* Rows, runners and cancellers keep their types.
TypeOK ==
  /\ row \in [BuildIds -> {"absent", "pending", "running", "succeeded", "failed", "cancelled"}]
  /\ runner \in [BuildIds -> RunnerSteps]
  /\ cancelFn \in [BuildIds -> BOOLEAN]
  /\ phase \in [BuildIds -> {"none", "cancelled", "deploying"}]
  /\ ctxDone \in [BuildIds -> BOOLEAN]
  /\ canceller \in [Cancellers -> [pc : {"idle", "record", "write", "undo", "stop"},
                                   b : BuildIds \cup {Nothing}, to : {"failed", "cancelled"},
                                   live : BOOLEAN]]
  /\ deployed \in [BuildIds -> BOOLEAN]
  /\ wonLive \in [BuildIds -> BOOLEAN]
  /\ unmarked \in [BuildIds -> BOOLEAN]
  /\ faulted \in [BuildIds -> BOOLEAN]

\* The comment on the phases: a cancel and the start of the deploy cannot both win. Stated for
\* a cancel that found runBuild live, which is the one the phases are there for.
CancelExcludesDeploy == \A b \in BuildIds : ~(wonLive[b] /\ deployed[b])

\* What holds of that with any number of cancels: a cancelled build is deployed only if a cancel
\* that lost has taken the winner's mark back.
MarkExcludesDeploy == \A b \in BuildIds : wonLive[b] /\ deployed[b] => unmarked[b]

\* A build that nothing runs any more does not keep its row active, where it would hold one of
\* the tenant's max_builds_concurrent slots until the next restart, unless a cancel of it is
\* still to write or a fault hit the build.
NoAbandonedSlot ==
  \A b \in BuildIds :
    runner[b] = "none" /\ row[b] \in Active =>
      faulted[b] \/ \E c \in Cancellers : canceller[c].b = b /\ canceller[c].pc = "write"

\* A build that was started ends, by itself, by a cancel or by a restart, unless a fault hits it.
BuildsEnd == \A b \in BuildIds : row[b] \in Active ~> row[b] \notin Active \/ faulted[b]

\* The builds table keeps the promise of BuildOutcome.
Outcome == INSTANCE BuildOutcome WITH status <- row
OutcomeSpec == Outcome!Spec

=============================================================================
