-------------------------------- MODULE Previews --------------------------------
(***************************************************************************)
(* The previews of one environment: a row, a Traefik route file and, for   *)
(* all of them, one ingress network that Traefik and the environment's     *)
(* container are on.  Manager.mu serialises the operations; the sweeps of  *)
(* the suspensions, which a reactivation or a next suspension does not     *)
(* wait for, and GC's network pass do not take it.                         *)
(*                                                                         *)
(* A stopped container has no endpoint on a network but keeps its id: it   *)
(* cannot start again when the network is gone.                            *)
(***************************************************************************)
EXTENDS Naturals, FiniteSets

CONSTANTS
  Ids,               \* previews that may be created
  MaxPreviewsPerEnv, \* the cap
  MaxSuspensions,    \* bound: suspensions of the tenant
  MaxFaults,         \* bound: Docker calls and writes that fail
  MaxCrashes         \* bound: restarts of ah

VARIABLES
  env,        \* the environment: status of its row, or gone; and its container
  rows,       \* environment_previews
  routes,     \* route files
  net,        \* the ingress network: there or not, past minNetworkAge or not, Traefik on it or not
  attached,   \* the container's network: none, the one there is, or one that was removed
  op,         \* the operation that holds mu: where it is, and its preview
  tenant,     \* the tenant's status
  sweep,      \* per suspension: its sweep
  gc,         \* GC's network pass
  dark,       \* history: previews whose route was removed and is not due to be there any more: by a
              \* sweep, of an environment that was started since the sweep listed it or that it could
              \* not stop; by a deletion that kept the row
  taken,      \* history: GC took apart a network that was no orphan any more
  broken,     \* history: an operation was left half done, by a crash, by a Delete of the environment or
              \* an undone creation that kept its row
  suspensions, faults, crashes   \* bounds

vars == <<env, rows, routes, net, attached, op, tenant, sweep, gc, dark, taken, broken,
          suspensions, faults, crashes>>
history == <<dark, taken, broken>>
bounds == <<suspensions, crashes>>

None == "none"
NoNet == [on |-> FALSE, old |-> FALSE, traefik |-> FALSE]
NoOp == [pc |-> None, kind |-> None, preview |-> None, recreated |-> FALSE]
NoSweep == [pc |-> None, pass |-> 1]
Sweeps == 1..MaxSuspensions

TypeOK ==
  /\ env \in [status : {"running", "stopped", "gone"}, container : {"running", "stopped", "gone"}]
  /\ rows \subseteq Ids /\ routes \subseteq Ids
  /\ net \in [on : BOOLEAN, old : BOOLEAN, traefik : BOOLEAN]
  /\ attached \in {None, "here", "removed"}
  /\ op \in [kind : {None, "create", "delete preview", "start", "stop", "delete"},
             pc : {None, "network", "traefik", "alias", "route", "undo row", "cleanup", "disconnect",
                   "remove", "delete row", "container", "restore", "commit", "undo routes", "undo",
                   "status", "delete env"},
             preview : Ids \cup {None}, recreated : BOOLEAN]
  /\ tenant \in {"active", "suspended"}
  /\ sweep \in [Sweeps -> [pc : {None, "select", "listed stopped", "listed running", "stop", "status"},
                           pass : 1..2]]
  /\ gc \in {None, "list", "inspect", "disconnect", "remove"}
  /\ dark \subseteq Ids /\ taken \in BOOLEAN /\ broken \in BOOLEAN

Init ==
  /\ env = [status |-> "running", container |-> "running"]
  /\ rows = {} /\ routes = {} /\ net = NoNet /\ attached = None
  /\ op = NoOp /\ tenant = "active" /\ sweep = [i \in Sweeps |-> NoSweep] /\ gc = None
  /\ dark = {} /\ taken = FALSE /\ broken = FALSE /\ suspensions = 0 /\ faults = 0 /\ crashes = 0

Fails == faults < MaxFaults /\ faults' = faults + 1
Succeeds == faults' = faults
To(pc) == op' = [op EXCEPT !.pc = pc]
Done == op' = NoOp

-----------------------------------------------------------------------------
(* Docker. *)

\* EnsureIngressNetwork finds the network by its name, or makes it.
EnsureIngressNetwork == net' = IF net.on THEN net ELSE [NoNet EXCEPT !.on = TRUE]

ConnectTraefik == net.on /\ net' = [net EXCEPT !.traefik = TRUE]

\* ConnectNetworkAlias; a container that is gone cannot be connected.
CanConnect == net.on /\ env.container # "gone"

ConnectNetworkAlias == CanConnect /\ attached' = "here"

\* An endpoint of a running container keeps the network.
CanRemoveNetwork == net.on /\ ~net.traefik /\ ~(attached = "here" /\ env.container = "running")

RemoveNetwork ==
  /\ CanRemoveNetwork
  /\ net' = NoNet
  /\ attached' = IF attached = "here" THEN "removed" ELSE attached

AgeNetwork ==
  /\ net.on /\ ~net.old
  /\ net' = [net EXCEPT !.old = TRUE]
  /\ UNCHANGED <<env, rows, routes, attached, op, tenant, sweep, gc, history, faults, bounds>>

-----------------------------------------------------------------------------
(* CreatePreview. *)

\* The row comes first, so that GC knows whose the network is: unless GC has read the rows before.
CreatePreview(p) ==
  /\ op = NoOp /\ env.status = "running" /\ tenant = "active"
  /\ p \notin rows /\ Cardinality(rows) < MaxPreviewsPerEnv
  /\ rows' = rows \cup {p}
  /\ op' = [NoOp EXCEPT !.pc = "network", !.kind = "create", !.preview = p]
  /\ UNCHANGED <<env, routes, net, attached, tenant, sweep, gc, faults, history, bounds>>

\* Where a failure of the ingress leads: create takes its row back, start undoes.
Refused == To(IF op.kind = "create" THEN "undo row" ELSE "undo")

\* ensurePreviewIngress, shared by CreatePreview and Start: three calls.
EnsureNetwork ==
  /\ op.pc = "network"
  /\ \/ Succeeds /\ EnsureIngressNetwork /\ To("traefik")
     \/ Fails /\ net' = net /\ Refused
  /\ UNCHANGED <<env, rows, routes, attached, tenant, sweep, gc, history, bounds>>

EnsureTraefik ==
  /\ op.pc = "traefik"
  /\ \/ Succeeds /\ ConnectTraefik /\ To("alias")
     \/ (Fails \/ (Succeeds /\ ~net.on)) /\ net' = net /\ Refused
  /\ UNCHANGED <<env, rows, routes, attached, tenant, sweep, gc, history, bounds>>

EnsureAlias ==
  /\ op.pc = "alias"
  /\ \/ Succeeds /\ ConnectNetworkAlias /\ To(IF op.kind = "create" THEN "route" ELSE "restore")
     \/ (Fails \/ (Succeeds /\ ~CanConnect)) /\ attached' = attached /\ Refused
  /\ UNCHANGED <<env, rows, routes, net, tenant, sweep, gc, history, bounds>>

\* writePreviewTraefikRoute: a temporary file, and a rename.
WriteRoute ==
  /\ op.pc = "route"
  /\ \/ Succeeds /\ routes' = routes \cup {op.preview} /\ dark' = dark \ {op.preview} /\ Done
     \/ Fails /\ routes' = routes /\ dark' = dark /\ To("undo row")
  /\ UNCHANGED <<env, rows, net, attached, tenant, sweep, gc, taken, broken, bounds>>

\* An error of the DELETE is ignored.
UndoRow ==
  /\ op.pc = "undo row" /\ To("cleanup")
  /\ \/ Succeeds /\ rows' = rows \ {op.preview} /\ broken' = broken
     \/ Fails /\ rows' = rows /\ broken' = TRUE
  /\ UNCHANGED <<env, routes, net, attached, tenant, sweep, gc, dark, taken, bounds>>

-----------------------------------------------------------------------------
(* cleanupUnusedPreviewIngress and removePreviewIngressNetwork. *)

CleanupUnusedPreviewIngress ==
  /\ op.pc = "cleanup"
  /\ IF rows = {} /\ net.on THEN To("disconnect") ELSE Done
  /\ UNCHANGED <<env, rows, routes, net, attached, tenant, sweep, gc, history, faults, bounds>>

\* What comes after the ingress network.
AfterNetwork == IF op.kind = "delete" THEN To("delete env") ELSE Done

Disconnect ==
  /\ op.pc = "disconnect"
  /\ \/ /\ Succeeds
        /\ attached' = IF attached = "here" THEN None ELSE attached
        /\ net' = [net EXCEPT !.traefik = FALSE]
        /\ To("remove")
     \/ Fails /\ AfterNetwork /\ UNCHANGED <<net, attached>>
  /\ UNCHANGED <<env, rows, routes, tenant, sweep, gc, history, bounds>>

RemoveIngress ==
  /\ op.pc = "remove"
  /\ \/ Succeeds /\ RemoveNetwork
     \/ (Fails \/ (Succeeds /\ ~CanRemoveNetwork)) /\ UNCHANGED <<net, attached>>
  /\ AfterNetwork
  /\ UNCHANGED <<env, rows, routes, tenant, sweep, gc, history, bounds>>

-----------------------------------------------------------------------------
(* DeletePreview, Delete, Stop. *)

DeletePreview(p) ==
  /\ op = NoOp /\ p \in rows
  /\ routes' = routes \ {p}
  /\ op' = [NoOp EXCEPT !.pc = "delete row", !.kind = "delete preview", !.preview = p]
  /\ UNCHANGED <<env, rows, net, attached, tenant, sweep, gc, history, faults, bounds>>

DeleteRow ==
  /\ op.pc = "delete row"
  /\ \/ Succeeds /\ rows' = rows \ {op.preview} /\ To("cleanup") /\ dark' = dark
     \/ Fails /\ rows' = rows /\ Done /\ dark' = dark \cup {op.preview}
  /\ UNCHANGED <<env, routes, net, attached, tenant, sweep, gc, taken, broken, bounds>>

\* cleanupPreviews: the files of the rows.
CleanupPreviews == routes' = routes \ rows

\* Delete's teardown: the files, the container, the network, and last the row, which takes the
\* previews' rows with it.
Delete ==
  /\ op = NoOp /\ env.status # "gone"
  /\ CleanupPreviews
  /\ op' = [NoOp EXCEPT !.pc = "container", !.kind = "delete"]
  /\ UNCHANGED <<env, rows, net, attached, tenant, sweep, gc, history, faults, bounds>>

DeleteContainer ==
  /\ op.pc = "container" /\ op.kind = "delete"
  /\ \/ Succeeds /\ env' = [env EXCEPT !.container = "gone"] /\ attached' = None
     \/ Fails /\ UNCHANGED <<env, attached>>
  /\ To(IF net.on THEN "disconnect" ELSE "delete env")
  /\ UNCHANGED <<rows, routes, net, tenant, sweep, gc, history, bounds>>

DeleteEnvironment ==
  /\ op.pc = "delete env"
  /\ \/ Succeeds /\ env' = [env EXCEPT !.status = "gone"] /\ rows' = {} /\ broken' = broken
     \/ Fails /\ UNCHANGED <<env, rows>> /\ broken' = TRUE
  /\ Done
  /\ UNCHANGED <<routes, net, attached, tenant, sweep, gc, dark, taken, bounds>>

Stop ==
  /\ op = NoOp /\ env.status = "running"
  /\ \/ /\ Succeeds
        /\ env' = [env EXCEPT !.container = IF @ = "gone" THEN @ ELSE "stopped"]
        /\ op' = [NoOp EXCEPT !.pc = "status", !.kind = "stop"]
     \/ Fails /\ UNCHANGED <<env, op>>
  /\ UNCHANGED <<rows, routes, net, attached, tenant, sweep, gc, history, bounds>>

StopStatus ==
  /\ op.pc = "status"
  /\ \/ Succeeds /\ env' = [env EXCEPT !.status = "stopped"]
     \/ Fails /\ env' = env
  /\ Done
  /\ UNCHANGED <<rows, routes, net, attached, tenant, sweep, gc, history, bounds>>

-----------------------------------------------------------------------------
(* Start.  A container that is gone is made again, on no ingress network yet. *)

Start ==
  /\ op = NoOp /\ env.status = "stopped" /\ tenant = "active"
  /\ op' = [NoOp EXCEPT !.pc = "container", !.kind = "start"]
  /\ UNCHANGED <<env, rows, routes, net, attached, tenant, sweep, gc, history, faults, bounds>>

StartContainer ==
  /\ op.pc = "container" /\ op.kind = "start"
  /\ \/ /\ Succeeds /\ attached # "removed"
        /\ env' = [env EXCEPT !.container = "running"]
        /\ op' = [op EXCEPT !.pc = IF rows # {} THEN "network" ELSE "commit",
                            !.recreated = env.container = "gone"]
     \/ (Fails \/ (Succeeds /\ attached = "removed")) /\ env' = env /\ Done
  /\ UNCHANGED <<rows, routes, net, attached, tenant, sweep, gc, history, bounds>>

\* restorePreviews writes the files of all rows, or of some.
RestorePreviews ==
  /\ op.pc = "restore"
  /\ \/ Succeeds /\ routes' = routes \cup rows /\ dark' = dark \ rows /\ To("commit")
     \/ /\ Fails /\ (\E some \in SUBSET rows : routes' = routes \cup some) /\ dark' = dark
        /\ To("undo routes")
  /\ UNCHANGED <<env, rows, net, attached, tenant, sweep, gc, taken, broken, bounds>>

\* Only for an active tenant, and only while the row is still 'stopped'.
CommitStart ==
  /\ op.pc = "commit"
  /\ \/ /\ Succeeds /\ tenant = "active" /\ env.status = "stopped"
        /\ env' = [env EXCEPT !.status = "running"] /\ Done
     \/ (Fails \/ (Succeeds /\ ~(tenant = "active" /\ env.status = "stopped")))
        /\ env' = env /\ To(IF rows # {} THEN "undo routes" ELSE "undo")
  /\ UNCHANGED <<rows, routes, net, attached, tenant, sweep, gc, history, bounds>>

\* undo(routes, ingress): the routes, when it had come to them.
UndoRoutes ==
  /\ op.pc = "undo routes"
  /\ CleanupPreviews /\ To("undo")
  /\ UNCHANGED <<env, rows, net, attached, tenant, sweep, gc, faults, history, bounds>>

\* The container, which goes when it was made for this start and whose failing stop is ignored; and
\* the network although the previews' rows are still there.
UndoStart ==
  /\ op.pc = "undo"
  /\ \/ /\ Succeeds
        /\ env' = [env EXCEPT !.container = IF op.recreated THEN "gone" ELSE "stopped"]
        /\ attached' = IF op.recreated THEN None ELSE attached
     \/ Fails /\ ~op.recreated /\ UNCHANGED <<env, attached>>
  /\ IF rows # {} /\ net.on THEN To("disconnect") ELSE Done
  /\ UNCHANGED <<rows, routes, net, tenant, sweep, gc, history, bounds>>

-----------------------------------------------------------------------------
(* The tenant, and StopAllForTenant, which a sweep calls twice, in the background. *)

Suspend(i) ==
  /\ tenant = "active" /\ suspensions < MaxSuspensions
  /\ sweep[i] = NoSweep
  /\ suspensions' = suspensions + 1
  /\ tenant' = "suspended" /\ sweep' = [sweep EXCEPT ![i].pc = "select"]
  /\ UNCHANGED <<env, rows, routes, net, attached, op, gc, faults, history, crashes>>

\* It waits for no sweep.
Reactivate ==
  /\ tenant = "suspended"
  /\ tenant' = "active"
  /\ UNCHANGED <<env, rows, routes, net, attached, op, sweep, gc, faults, history, bounds>>

SweepTo(i, pc) == sweep' = [sweep EXCEPT ![i].pc = pc]

\* The end of a pass.
EndPass(i) ==
  sweep' = [sweep EXCEPT ![i] = IF sweep[i].pass = 1 THEN [pc |-> "select", pass |-> 2] ELSE NoSweep]

\* The environment with its status, which the sweep acts on from here.
SweepSelect(i) ==
  /\ sweep[i].pc = "select"
  /\ \/ Succeeds /\ env.status = "running" /\ SweepTo(i, "listed running")
     \/ Succeeds /\ env.status = "stopped" /\ SweepTo(i, "listed stopped")
     \/ (Fails \/ (Succeeds /\ env.status = "gone")) /\ EndPass(i)
  /\ UNCHANGED <<env, rows, routes, net, attached, op, tenant, gc, history, bounds>>

\* Started, or about to be.
Started == env.status = "running" \/ op.kind = "start"

\* The files of the previews, whatever has become of the environment.
SweepRoutes(i) ==
  /\ CleanupPreviews
  /\ \/ sweep[i].pc = "listed running" /\ SweepTo(i, "stop") /\ dark' = dark
     \/ /\ sweep[i].pc = "listed stopped" /\ EndPass(i)
        /\ dark' = IF Started THEN dark \cup rows ELSE dark
  /\ UNCHANGED <<env, rows, net, attached, op, tenant, gc, taken, broken, faults, bounds>>

\* Mutant: the ingress network goes with the container that it stops.
StopWithNetwork(i) ==
  /\ sweep[i].pc = "stop"
  /\ Succeeds /\ SweepTo(i, "status")
  /\ env' = [env EXCEPT !.container = IF @ = "gone" THEN @ ELSE "stopped"]
  /\ net' = NoNet /\ attached' = IF attached = "here" THEN "removed" ELSE attached
  /\ UNCHANGED <<rows, routes, op, tenant, gc, history, bounds>>

\* The container stops and keeps its networks, which it needs to start again.
SweepStop(i) ==
  /\ sweep[i].pc = "stop"
  /\ \/ /\ Succeeds /\ SweepTo(i, "status") /\ dark' = dark
        /\ env' = [env EXCEPT !.container = IF @ = "gone" THEN @ ELSE "stopped"]
     \/ Fails /\ EndPass(i) /\ env' = env /\ dark' = dark \cup rows
  /\ UNCHANGED <<rows, routes, net, attached, op, tenant, gc, taken, broken, bounds>>

SweepStatus(i) ==
  /\ sweep[i].pc = "status" /\ EndPass(i)
  /\ \/ Succeeds /\ env' = [env EXCEPT !.status = IF @ = "gone" THEN @ ELSE "stopped"]
     \/ Fails /\ env' = env
  /\ UNCHANGED <<rows, routes, net, attached, op, tenant, gc, history, bounds>>

-----------------------------------------------------------------------------
(* GC: findOrphanedNetworks, and the removal of what it found. *)

\* persistedWorkloadNetworks; an error ends the pass.
Owned == env.status # "gone" /\ rows # {}

ReadOwners ==
  /\ gc = None /\ ~Owned
  /\ gc' = "list"
  /\ UNCHANGED <<env, rows, routes, net, attached, op, tenant, sweep, history, faults, bounds>>

ListNetworks ==
  /\ gc = "list"
  /\ gc' = IF net.on /\ net.old THEN "inspect" ELSE None
  /\ UNCHANGED <<env, rows, routes, net, attached, op, tenant, sweep, history, faults, bounds>>

\* Inspect, and then the list of containers that have the network, stopped ones too.
InspectNetwork ==
  /\ gc = "inspect"
  /\ gc' = IF net.on /\ attached # "here" THEN "disconnect" ELSE None
  /\ UNCHANGED <<env, rows, routes, net, attached, op, tenant, sweep, history, faults, bounds>>

\* What was an orphan may have a preview again.
Took == taken' = (taken \/ Owned \/ attached = "here")

DisconnectTraefik ==
  /\ gc = "disconnect" /\ gc' = "remove"
  /\ net' = [net EXCEPT !.traefik = FALSE] /\ Took
  /\ UNCHANGED <<env, rows, routes, attached, op, tenant, sweep, dark, broken, faults, bounds>>

RemoveOrphan ==
  /\ gc = "remove" /\ gc' = None
  /\ \/ RemoveNetwork /\ Took
     \/ ~CanRemoveNetwork /\ UNCHANGED <<net, attached, taken>>
  /\ UNCHANGED <<env, rows, routes, op, tenant, sweep, dark, broken, faults, bounds>>

\* ah is restarted.
Crash ==
  /\ crashes < MaxCrashes /\ crashes' = crashes + 1
  /\ broken' = (broken \/ op # NoOp)
  /\ dark' = IF \E i \in Sweeps : sweep[i].pc = "stop" THEN dark \cup rows ELSE dark
  /\ Done /\ sweep' = [i \in Sweeps |-> NoSweep] /\ gc' = None
  /\ UNCHANGED <<env, rows, routes, net, attached, tenant, taken, suspensions, faults>>

Next ==
  \/ \E p \in Ids : CreatePreview(p) \/ DeletePreview(p)
  \/ EnsureNetwork \/ EnsureTraefik \/ EnsureAlias \/ WriteRoute \/ UndoRow
  \/ CleanupUnusedPreviewIngress \/ Disconnect \/ RemoveIngress
  \/ DeleteRow \/ Delete \/ DeleteContainer \/ DeleteEnvironment \/ Stop \/ StopStatus
  \/ Start \/ StartContainer \/ RestorePreviews \/ CommitStart \/ UndoRoutes \/ UndoStart
  \/ \E i \in Sweeps : \/ Suspend(i) \/ SweepSelect(i) \/ SweepRoutes(i) \/ SweepStop(i)
                       \/ SweepStatus(i)
  \/ Reactivate
  \/ ReadOwners \/ ListNetworks \/ InspectNetwork \/ DisconnectTraefik \/ RemoveOrphan
  \/ AgeNetwork \/ Crash

Spec == Init /\ [][Next]_vars

-----------------------------------------------------------------------------
(* Properties. *)

Quiet == op = NoOp /\ \A i \in Sweeps : sweep[i] = NoSweep

Running == env.status = "running" /\ env.container = "running"

\* The previews of a running environment are served, whatever was stopped, suspended, undone or
\* collected in between: they have their routes, unless a late sweep took them and no start has
\* brought them back since, and the network has both ends, unless GC took it in the middle of a
\* creation.
Served ==
  Running /\ Quiet /\ ~broken =>
    /\ rows \subseteq routes \cup dark
    /\ rows # {} /\ ~taken => net.on /\ net.traefik /\ attached = "here"

\* No route is left without its row, and no stopped container without its network.
NothingLeft ==
  /\ Quiet => routes \subseteq rows
  /\ ~broken /\ ~taken => attached # "removed"

PreviewsServed == Served /\ NothingLeft

=============================================================================
