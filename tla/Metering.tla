-------------------------------- MODULE Metering --------------------------------
(***************************************************************************)
(* The usage collector: every tick lists the running services and the      *)
(* running sandboxes, reads each container's cumulative counter and adds   *)
(* the difference from its baseline to the tenant's usage.  Meanwhile      *)
(* containers start, restart and go, calls fail, and ah is restarted with  *)
(* no baselines.  CPU time and, for egress sandboxes, the network bytes    *)
(* follow the same rules: one counter stands for them.                     *)
(***************************************************************************)
EXTENDS Naturals

CONSTANTS
  Services,      \* containers of services
  Sandboxes,     \* containers of sandboxes
  MaxUse,        \* bound: units a container ever uses
  MaxRestarts    \* bound: restarts of ah

MeteringAssumption ==
  /\ Services \cap Sandboxes = {}
  /\ MaxUse \in Nat

VARIABLES
  row,       \* per container: no row yet, a running row names it, or none any more
  counter,   \* Docker: the cumulative counter, since the container was last started
  used,      \* history: all that the container has used
  billed,    \* all that usage_events holds for it
  missed,    \* history: containers of which some usage was not seen from its start
  fresh,     \* sandboxes whose created_at is after the collector's startedAt
  lastCPU,   \* the collector's baselines; no entry is None
  tick,      \* the tick under way
  restarts   \* bound

vars == <<row, counter, used, billed, missed, fresh, lastCPU, tick, restarts>>

Containers == Services \cup Sandboxes
None == MaxUse + 1
Idle == [pc |-> "idle", todo |-> {}, seen |-> {}, sandboxesListed |-> FALSE]
Running == {c \in Containers : row[c] = "running"}

TypeOK ==
  /\ row \in [Containers -> {"new", "running", "stopped"}]
  /\ counter \in [Containers -> 0..MaxUse] /\ used \in [Containers -> 0..MaxUse]
  /\ billed \in [Containers -> Nat]
  /\ missed \subseteq Containers /\ fresh \subseteq Sandboxes
  /\ lastCPU \in [Containers -> 0..None]
  /\ tick.pc \in {"idle", "sandboxes", "sample"}
  /\ tick.todo \subseteq Containers /\ tick.seen \subseteq Containers
  /\ tick.sandboxesListed \in BOOLEAN

Init ==
  /\ row = [c \in Containers |-> "new"]
  /\ counter = [c \in Containers |-> 0] /\ used = counter /\ billed = counter
  /\ missed = {} /\ fresh = {}
  /\ lastCPU = [c \in Containers |-> None]
  /\ tick = Idle
  /\ restarts = 0

-----------------------------------------------------------------------------
(* The containers.  A sandbox's row never comes back to 'running'. *)

\* A sandbox created in the very second the collector started is not after it.
Appear(c) ==
  /\ row[c] = "new"
  /\ row' = [row EXCEPT ![c] = "running"]
  /\ \E f \in BOOLEAN : fresh' = IF c \in Sandboxes /\ f THEN fresh \cup {c} ELSE fresh
  /\ UNCHANGED <<counter, used, billed, missed, lastCPU, tick, restarts>>

Use(c) ==
  /\ row[c] = "running" /\ used[c] < MaxUse
  /\ used' = [used EXCEPT ![c] = @ + 1]
  /\ counter' = [counter EXCEPT ![c] = @ + 1]
  /\ UNCHANGED <<row, billed, missed, fresh, lastCPU, tick, restarts>>

\* Stopped, or replaced: its last use since the last sample is not seen.
Leave(c) ==
  /\ row[c] = "running"
  /\ row' = [row EXCEPT ![c] = "stopped"]
  /\ UNCHANGED <<counter, used, billed, missed, fresh, lastCPU, tick, restarts>>

\* Start and Restart of a service, and the reconciler's restart: the counter starts again.
StartService(c) ==
  /\ c \in Services /\ row[c] \in {"running", "stopped"}
  /\ row' = [row EXCEPT ![c] = "running"]
  /\ counter' = [counter EXCEPT ![c] = 0]
  /\ missed' = missed \cup {c}
  /\ UNCHANGED <<used, billed, fresh, lastCPU, tick, restarts>>

-----------------------------------------------------------------------------
(* Tick. *)

\* Rows that cannot be read are left out; a failed query ends the tick before it begins.
ListServices ==
  /\ tick.pc = "idle"
  /\ \E read \in SUBSET (Running \cap Services) :
       tick' = [tick EXCEPT !.pc = "sandboxes", !.todo = read]
  /\ UNCHANGED <<row, counter, used, billed, missed, fresh, lastCPU, restarts>>

\* Rows that cannot be read, and a failed query, are remembered in sandboxesListed.
ListSandboxes ==
  /\ tick.pc = "sandboxes"
  /\ \E read \in SUBSET (Running \cap Sandboxes) :
       tick' = [tick EXCEPT !.pc = "sample", !.todo = @ \cup read,
                            !.sandboxesListed = (read = Running \cap Sandboxes)]
  /\ UNCHANGED <<row, counter, used, billed, missed, fresh, lastCPU, restarts>>

\* ContainerStats: a container that has stopped may read zero.
Readings(c) == {counter[c]} \cup {n \in {0} : row[c] = "stopped"}

\* Below its baseline a counter has started again.
CounterDelta(cur, prev) == IF cur >= prev THEN cur - prev ELSE cur

Delta(c, reading) ==
  CASE lastCPU[c] # None -> CounterDelta(reading, lastCPU[c])
    [] lastCPU[c] = None /\ c \in fresh -> reading
    [] OTHER -> 0

\* One transaction, that adds to usage_events and to usage_daily.
Record(c, n) == billed' = [billed EXCEPT ![c] = @ + n]

\* Mutant: the baseline moves on although nothing was recorded.
SampleAnyway(c) ==
  /\ tick.pc = "sample" /\ c \in tick.todo
  /\ tick' = [tick EXCEPT !.todo = @ \ {c}, !.seen = @ \cup {c}]
  /\ \E reading \in Readings(c) :
       /\ Record(c, Delta(c, reading)) \/ billed' = billed
       /\ lastCPU' = [lastCPU EXCEPT ![c] = reading]
  /\ missed' = IF lastCPU[c] = None /\ c \notin fresh THEN missed \cup {c} ELSE missed
  /\ UNCHANGED <<row, counter, used, fresh, restarts>>

\* Read the counter and record the difference; when either fails the baseline stays.
Sample(c) ==
  /\ tick.pc = "sample" /\ c \in tick.todo
  /\ tick' = [tick EXCEPT !.todo = @ \ {c}, !.seen = @ \cup {c}]
  /\ \/ \E reading \in Readings(c) :
          /\ Record(c, Delta(c, reading))
          /\ lastCPU' = [lastCPU EXCEPT ![c] = reading]
          /\ missed' = IF lastCPU[c] = None /\ c \notin fresh THEN missed \cup {c} ELSE missed
     \/ UNCHANGED <<billed, lastCPU, missed>>
  /\ UNCHANGED <<row, counter, used, fresh, restarts>>

\* The end of a tick: baselines are dropped only when every sandbox was listed.
EndTick ==
  /\ tick.pc = "sample" /\ tick.todo = {}
  /\ lastCPU' = [c \in Containers |->
                   IF c \in tick.seen \/ ~tick.sandboxesListed THEN lastCPU[c] ELSE None]
  /\ tick' = Idle
  /\ UNCHANGED <<row, counter, used, billed, missed, fresh, restarts>>

\* ah is restarted: a new collector, after every sandbox that exists.
RestartAh ==
  /\ restarts < MaxRestarts /\ restarts' = restarts + 1
  /\ lastCPU' = [c \in Containers |-> None]
  /\ fresh' = {} /\ missed' = missed \cup fresh
  /\ tick' = Idle
  /\ UNCHANGED <<row, counter, used, billed>>

Next ==
  \/ \E c \in Containers : Appear(c) \/ Use(c) \/ Leave(c) \/ StartService(c) \/ Sample(c)
  \/ ListServices \/ ListSandboxes \/ EndTick \/ RestartAh

Spec == Init /\ [][Next]_vars

-----------------------------------------------------------------------------
(* Properties. *)

\* No use is billed twice, whatever list was cut short and whatever sample or record failed;
\* and a running sandbox that this collector has watched from its start has been billed all
\* that its baseline says was read: a failed record delays usage and loses none.
BilledOnce ==
  /\ \A c \in Containers : billed[c] <= used[c]
  /\ \A c \in (fresh \cap Running) \ missed : lastCPU[c] # None => billed[c] = lastCPU[c]

=============================================================================
