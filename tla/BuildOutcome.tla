----------------------------- MODULE BuildOutcome -----------------------------
(***************************************************************************)
(* What the builds table promises about a build, whoever writes to it: a   *)
(* build is submitted once, runs at most once, succeeds only if its image  *)
(* was deployed, and a build that has ended stays as it ended, except that *)
(* StartBuild may still turn a cancelled build, which never ran, into a    *)
(* failed one when the build queue is full.                                *)
(***************************************************************************)
CONSTANT BuildIds

VARIABLES
  status,    \* builds.status, "absent" before the row is inserted
  deployed   \* the image of the build was handed to the deploy function

Active == {"pending", "running"}
Ended == {"succeeded", "failed", "cancelled"}

Init ==
  /\ status = [b \in BuildIds |-> "absent"]
  /\ deployed = [b \in BuildIds |-> FALSE]

Move(b, from, to) ==
  /\ status[b] \in from
  /\ status' = [status EXCEPT ![b] = to]
  /\ UNCHANGED deployed

Submit(b) == Move(b, {"absent"}, "pending")
Run(b) == Move(b, {"pending"}, "running")
Fail(b) == Move(b, Active, "failed")
Cancel(b) == Move(b, Active, "cancelled")

\* The queue is full: the row becomes failed whatever it was meanwhile.
Refuse(b) == ~deployed[b] /\ Move(b, {"pending", "failed", "cancelled"}, "failed")

Deploy(b) ==
  /\ status[b] \notin {"absent", "pending"}
  /\ ~deployed[b]
  /\ deployed' = [deployed EXCEPT ![b] = TRUE]
  /\ UNCHANGED status

Succeed(b) == deployed[b] /\ Move(b, {"running"}, "succeeded")

\* The process died: every active build failed with it, all at once.
Restart ==
  /\ status' = [b \in BuildIds |-> IF status[b] \in Active THEN "failed" ELSE status[b]]
  /\ UNCHANGED deployed

Next ==
  \/ Restart
  \/ \E b \in BuildIds : Submit(b) \/ Run(b) \/ Fail(b) \/ Cancel(b) \/ Refuse(b)
                           \/ Deploy(b) \/ Succeed(b)

Spec == Init /\ [][Next]_<<status, deployed>>

=============================================================================
