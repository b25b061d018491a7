---------------------------------- MODULE Jobs ---------------------------------
(* What has to end by itself: builds (Builds, whose definitions this module takes as they   *)
(* are) and sandboxes.  They share no state: a behaviour is one of three scenes.  "builds"   *)
(* has builds that compete for the queue, "cancels" goroutines that cancel one build.       *)
EXTENDS Builds

CONSTANTS
  OnlyBuild,      \* bound: the build of the scene "cancels"
  OnlyCanceller,  \* bound: who cancels in the scene "builds"
  MaxTroubles,    \* bound: suspensions, crashes and faults of the sandboxes together
  Sandboxes,      \* the constants of Sandboxes
  MaxSuspensions, MaxCrashes, MaxFaults, EgressOff

VARIABLES
  scene,
  active, xRow, cont, vol, creator, deleter, reaper, expirer, sweep, left,
  faults, suspensions, crashes

xVars == <<active, xRow, cont, vol, creator, deleter, reaper, expirer, sweep, left,
           faults, suspensions, crashes>>

X == INSTANCE Sandboxes WITH row <- xRow

ASSUME JobsAssumption == X!SandboxesAssumption

JobsInit == scene \in {"builds", "cancels", "sandboxes"} /\ Init /\ X!Init

BuildScene == scene \in {"builds", "cancels"}

SceneBounds ==
  /\ scene = "builds" => \A c \in Cancellers \ {OnlyCanceller} : canceller'[c].pc = "idle"
  /\ scene = "cancels" => \A b \in BuildIds \ {OnlyBuild} : row'[b] = "absent"
  /\ scene = "sandboxes" => faults' + suspensions' + crashes' <= MaxTroubles

JobsNext ==
  /\ scene' = scene
  /\ \/ BuildScene /\ Next /\ UNCHANGED xVars
     \/ scene = "sandboxes" /\ X!Next /\ UNCHANGED vars
  /\ SceneBounds

\* Fairness and X!Fairness, each in its own scene.
BuildFairness ==
  /\ \A b \in BuildIds : WF_vars(BuildScene /\ RunBuild(b))
  /\ \A c \in Cancellers : WF_vars(BuildScene /\ CancelStep(c))

SandboxFairness ==
  LET on == scene = "sandboxes"
  IN /\ \A s \in Sandboxes :
          /\ WF_xVars(on /\ ~X!Booting /\ X!CreateSandbox(s))
          /\ WF_xVars(on /\ ~X!Booting /\ X!DeleteStep(s))
          /\ WF_xVars(on /\ ~X!Booting /\ X!FailStaleCreate(s))
          /\ WF_xVars(on /\ X!Age(s))
     /\ WF_xVars(on /\ X!Reaper)

JobsSpec ==
  /\ JobsInit /\ [][JobsNext]_<<scene, vars, xVars>>
  /\ BuildFairness /\ SandboxFairness

-----------------------------------------------------------------------------

\* Everything keeps its type.
TypesOK == TypeOK /\ X!TypeOK

\* A sandbox that was deleted or suspended leaves nothing that runs.
SandboxesCleared == X!SandboxesCleared

\* A sandbox that is over is torn down in the end.
SandboxesEnd == X!SandboxesEnd

=============================================================================
