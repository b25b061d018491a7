------------------------------ MODULE Registration -----------------------------
(***************************************************************************)
(* Who may make tenants, and how many.  Registration and the operator's    *)
(* routes each have a limiter: per client, charged for every request, and  *)
(* a global budget that is only checked then and charged once the request  *)
(* has been authorised or the tenant made.  Both count in fixed windows.   *)
(* The cap on active tenants is read before the tenant is inserted.        *)
(***************************************************************************)
EXTENDS Naturals, FiniteSets

CONSTANTS
  Clients,        \* addresses
  Requests,       \* handlers that run at a time
  PerIP,          \* regMaxPerIPPerHour
  Global,         \* regGlobalPerHour
  MaxTenants,     \* maxTenants
  MaxEntries,     \* regMaxEntries
  Window,         \* regWindow
  MaxTime,        \* bound on the clock
  MaxMade         \* bound: tenants made

RegistrationAssumption ==
  /\ IsFiniteSet(Requests) /\ Requests # {}
  /\ MaxTenants \in Nat /\ Global \in Nat \ {0}
  /\ Window \in Nat

Kinds == {"register", "admin"}

VARIABLES
  now,
  global,      \* per limiter, the global count and when its window ends
  entries,     \* per limiter and client, the count and when its window ends
  req,         \* per handler, where it is
  active, suspended,   \* tenants
  made, windows, reactivated   \* history: tenants made, windows of registration, reactivations

vars == <<now, global, entries, req, active, suspended, made, windows, reactivated>>

Absent == [count |-> 0, until |-> 0]
Idle == [pc |-> "idle", kind |-> "register"]

TypeOK ==
  /\ now \in 1..MaxTime
  /\ \A kind \in Kinds : /\ global[kind].until \in 0..(MaxTime + Window)
                         /\ \A c \in Clients : entries[kind][c].count \in 0..PerIP
                         /\ Cardinality({c \in Clients : entries[kind][c] # Absent}) <= MaxEntries
  /\ req \in [Requests -> [pc : {"idle", "token", "count", "insert", "charge", "act"}, kind : Kinds]]
  /\ active + suspended = made

Init ==
  /\ now = 1
  /\ global = [kind \in Kinds |-> Absent]
  /\ entries = [kind \in Kinds |-> [c \in Clients |-> Absent]]
  /\ req = [r \in Requests |-> Idle]
  /\ active = 0 /\ suspended = 0 /\ made = 0 /\ windows = 0 /\ reactivated = 0

Goto(r, pc) == req' = [req EXCEPT ![r] = IF pc = "idle" THEN Idle ELSE [@ EXCEPT !.pc = pc]]

-----------------------------------------------------------------------------
(* The limiter. *)

\* A window that has ended is replaced.
Past(e) == now > e.until

Open(kind) == IF Past(global[kind]) THEN [count |-> 0, until |-> now + Window] ELSE global[kind]

OpenedBy(kind) == windows' = IF kind = "register" /\ Past(global[kind]) THEN windows + 1 ELSE windows

\* The LRU drops another client's entry when it is full.
SetEntry(kind, c, e) ==
  LET others == {d \in Clients \ {c} : entries[kind][d] # Absent}
  IN IF Cardinality(others) < MaxEntries
     THEN entries' = [entries EXCEPT ![kind][c] = e]
     ELSE \E d \in others : entries' = [entries EXCEPT ![kind][c] = e, ![kind][d] = Absent]

\* allow: what the request of client c does to the limiter.
Allow(r, kind, c) ==
  /\ req[r].pc = "idle"
  /\ global' = [global EXCEPT ![kind] = Open(kind)] /\ OpenedBy(kind)
  /\ LET e == entries[kind][c]
         pass == req' = [req EXCEPT ![r] = [pc |-> "token", kind |-> kind]]
     IN \/ /\ Open(kind).count >= Global
           /\ UNCHANGED <<entries, req>>
        \/ /\ Open(kind).count < Global /\ (e = Absent \/ Past(e))
           /\ SetEntry(kind, c, [count |-> 1, until |-> now + Window]) /\ pass
        \/ /\ Open(kind).count < Global /\ e # Absent /\ ~Past(e) /\ e.count < PerIP
           /\ SetEntry(kind, c, [e EXCEPT !.count = @ + 1]) /\ pass
        \/ /\ Open(kind).count < Global /\ e # Absent /\ ~Past(e) /\ e.count >= PerIP
           /\ UNCHANGED <<entries, req>>
  /\ UNCHANGED <<now, active, suspended, made, reactivated>>

ChargeGlobal(kind) ==
  /\ global' = [global EXCEPT ![kind] = [Open(kind) EXCEPT !.count = @ + 1]]
  /\ OpenedBy(kind)

\* The goroutine that forgets entries whose window has ended.
Sweep(kind) ==
  /\ \E c \in Clients : entries[kind][c] # Absent /\ Past(entries[kind][c])
  /\ entries' = [entries EXCEPT ![kind] = [c \in Clients |-> IF Past(@[c]) THEN Absent ELSE @[c]]]
  /\ UNCHANGED <<now, global, req, active, suspended, made, windows, reactivated>>

-----------------------------------------------------------------------------
(* handleTenantRegister. *)

\* The token, and the fields of the request.
ValidateRegistration(r) ==
  /\ req[r].pc = "token" /\ req[r].kind = "register"
  /\ Goto(r, "count") \/ Goto(r, "idle")
  /\ UNCHANGED <<now, global, entries, active, suspended, made, windows, reactivated>>

CountTenants(r) ==
  /\ req[r].pc = "count"
  /\ Goto(r, IF active >= MaxTenants THEN "idle" ELSE "insert")
  /\ UNCHANGED <<now, global, entries, active, suspended, made, windows, reactivated>>

\* The transaction with the tenant, its quotas and its first key; a taken address refuses it.
InsertTenant(r) ==
  /\ req[r].pc = "insert"
  /\ \/ /\ made < MaxMade
        /\ active' = active + 1 /\ made' = made + 1 /\ Goto(r, "charge")
     \/ Goto(r, "idle") /\ UNCHANGED <<active, made>>
  /\ UNCHANGED <<now, global, entries, suspended, windows, reactivated>>

ChargeRegistration(r) ==
  /\ req[r].pc = "charge"
  /\ ChargeGlobal("register") /\ Goto(r, "idle")
  /\ UNCHANGED <<now, entries, active, suspended, made, reactivated>>

-----------------------------------------------------------------------------
(* The operator's routes. *)

RequireAdmin(r) ==
  /\ req[r].pc = "token" /\ req[r].kind = "admin"
  /\ \/ ChargeGlobal("admin") /\ Goto(r, "act")
     \/ Goto(r, "idle") /\ UNCHANGED <<global, windows>>
  /\ UNCHANGED <<now, entries, active, suspended, made, reactivated>>

SuspendTenant(r) ==
  /\ req[r].pc = "act" /\ active > 0
  /\ active' = active - 1 /\ suspended' = suspended + 1 /\ Goto(r, "idle")
  /\ UNCHANGED <<now, global, entries, made, windows, reactivated>>

\* Nothing asks how many tenants are active.
ReactivateTenant(r) ==
  /\ req[r].pc = "act" /\ suspended > 0
  /\ active' = active + 1 /\ suspended' = suspended - 1 /\ reactivated' = reactivated + 1
  /\ Goto(r, "idle")
  /\ UNCHANGED <<now, global, entries, made, windows>>

\* handleQuotaUpdate, and whatever is refused.
UpdateQuotas(r) ==
  /\ req[r].pc = "act"
  /\ Goto(r, "idle")
  /\ UNCHANGED <<now, global, entries, active, suspended, made, windows, reactivated>>

Tick ==
  /\ now < MaxTime /\ now' = now + 1
  /\ UNCHANGED <<global, entries, req, active, suspended, made, windows, reactivated>>

Next ==
  \/ \E r \in Requests :
       \/ \E kind \in Kinds, c \in Clients : Allow(r, kind, c)
       \/ ValidateRegistration(r) \/ CountTenants(r) \/ InsertTenant(r) \/ ChargeRegistration(r)
       \/ RequireAdmin(r) \/ SuspendTenant(r) \/ ReactivateTenant(r) \/ UpdateQuotas(r)
  \/ \E kind \in Kinds : Sweep(kind)
  \/ Tick

Spec == Init /\ [][Next]_vars

-----------------------------------------------------------------------------
(* Properties. *)

InFlight == Cardinality(Requests) - 1

\* The cap on active tenants is passed by no more than the registrations that ran at the same time
\* and the tenants that were reactivated; and a window makes no more tenants than the budget and
\* the registrations that ran at the same time, whatever clients the LRU has forgotten.
TenantsBounded ==
  /\ active <= MaxTenants + InFlight + reactivated
  /\ made <= windows * (Global + InFlight)

=============================================================================
