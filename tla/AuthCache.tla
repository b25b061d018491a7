------------------------------- MODULE AuthCache ------------------------------
(***************************************************************************)
(* The authentication middleware: requests look their API key up in a      *)
(* cache of database results, and fill it on a miss; the handlers that     *)
(* revoke keys or suspend a tenant commit to the database first and evict  *)
(* from the cache afterwards.  A request may hold a database result while  *)
(* both happen; the generation of the cache keeps it from writing that     *)
(* result back.                                                            *)
(*                                                                         *)
(* An entry past its TTL, evicted by the LRU or swept is simply forgotten. *)
(* HMAC verification, last_used_at, roles and rate limits are left out: a  *)
(* request here always carries the right secret.                           *)
(***************************************************************************)
EXTENDS Naturals

CONSTANTS
  Keys,       \* api_keys rows
  Tenants,
  TenantOf,   \* the tenant of each key
  Requests,   \* goroutines that serve requests
  Admins,     \* goroutines that revoke keys or suspend tenants
  Nothing     \* the key of an idle request, the target of an idle admin

ASSUME AuthAssumption ==
  /\ TenantOf \in [Keys -> Tenants]
  /\ Nothing \notin Keys \cup Tenants
  /\ Keys \cap Tenants = {}

VARIABLES
  key,       \* a key not yet minted is unused, then live, then revoked
  expired,   \* the key's expires_at has passed
  status,    \* tenants.status
  cache,     \* the tenant status cached for a key, or none
  gen,       \* authCache.gen
  req,       \* what each request is doing, and what it read
  admin      \* the key or the tenant an admin goroutine has still to evict

vars == <<key, expired, status, cache, gen, req, admin>>

KeyStates == {"unused", "live", "revoked"}
TenantStates == {"active", "suspended"}
Answers == TenantStates \cup {"none"}

\* late is a history variable: the key was dead for good when the request arrived.
Idle == [pc |-> "idle", key |-> Nothing, gen |-> 0, saw |-> "none", late |-> FALSE]

Init ==
  /\ key \in [Keys -> {"unused", "live"}]
  /\ expired = [k \in Keys |-> FALSE]
  /\ status = [t \in Tenants |-> "active"]
  /\ cache = [k \in Keys |-> "none"]
  /\ gen = 0
  /\ req = [r \in Requests |-> Idle]
  /\ admin = [a \in Admins |-> Nothing]

\* An eviction of the key, or of its tenant, is still to come.
EvictionPending(k) == \E a \in Admins : admin[a] \in {k, TenantOf[k]}

\* The key was revoked and the handler that revoked it has returned, or it has expired.
Dead(k) == expired[k] \/ (key[k] = "revoked" /\ ~EvictionPending(k))

-----------------------------------------------------------------------------
(* A request. *)

Goto(r, pc) == req' = [req EXCEPT ![r].pc = pc]
Decide(r, saw) == Goto(r, IF saw = "active" THEN "served" ELSE "refused")

\* cache.get: a hit is decided on what was cached, and an expired one is evicted first.
Lookup(r, k) ==
  LET arrive(pc, saw) == req' = [req EXCEPT ![r] =
        [pc |-> pc, key |-> k, gen |-> 0, saw |-> saw, late |-> Dead(k)]]
  IN /\ req[r].pc = "idle"
     /\ key[k] # "unused"
     /\ \/ cache[k] = "none" /\ arrive("generation", "none")
        \/ cache[k] # "none" /\ expired[k] /\ arrive("expire", "none")
        \/ cache[k] # "none" /\ ~expired[k]
             /\ arrive(IF cache[k] = "active" THEN "served" ELSE "refused", cache[k])
     /\ UNCHANGED <<key, expired, status, cache, gen, admin>>

\* cache.invalidate after a hit on a key that has expired.
EvictExpired(r) ==
  /\ req[r].pc = "expire"
  /\ gen' = gen + 1
  /\ cache' = [cache EXCEPT ![req[r].key] = "none"]
  /\ Goto(r, "refused")
  /\ UNCHANGED <<key, expired, status, admin>>

\* A miss: the generation is read before the database.
ReadGeneration(r) ==
  /\ req[r].pc = "generation"
  /\ req' = [req EXCEPT ![r].pc = "query", ![r].gen = gen]
  /\ UNCHANGED <<key, expired, status, cache, gen, admin>>

\* The query finds the row of a live key that has not expired, and the tenant's status.
\* The database may also be unavailable.
QueryKey(r) ==
  LET k == req[r].key
  IN /\ req[r].pc = "query"
     /\ \/ /\ key[k] = "live" /\ ~expired[k]
           /\ req' = [req EXCEPT ![r].pc = "store", ![r].saw = status[TenantOf[k]]]
        \/ Goto(r, "refused")
     /\ UNCHANGED <<key, expired, status, cache, gen, admin>>

\* Mutant: the result is cached whatever happened since it was read.
StoreAlways(r) ==
  /\ req[r].pc = "store"
  /\ cache' = [cache EXCEPT ![req[r].key] = req[r].saw]
  /\ Decide(r, req[r].saw)
  /\ UNCHANGED <<key, expired, status, gen, admin>>

\* Mutant: the whole row is cached where its tenant status belongs.
StoreRow(r) ==
  /\ req[r].pc = "store"
  /\ cache' = [cache EXCEPT ![req[r].key] = req[r].key]
  /\ Decide(r, req[r].saw)
  /\ UNCHANGED <<key, expired, status, gen, admin>>

\* setIfUnchanged, then the decision on what the query saw.
Store(r) ==
  /\ req[r].pc = "store"
  /\ cache' = IF req[r].gen = gen THEN [cache EXCEPT ![req[r].key] = req[r].saw] ELSE cache
  /\ Decide(r, req[r].saw)
  /\ UNCHANGED <<key, expired, status, gen, admin>>

Respond(r) ==
  /\ req[r].pc \in {"served", "refused"}
  /\ req' = [req EXCEPT ![r] = Idle]
  /\ UNCHANGED <<key, expired, status, cache, gen, admin>>

-----------------------------------------------------------------------------
(* Keys and tenants. *)

\* A request of tenant t has been let through and its handler is running.
Authorized(t) == \E r \in Requests : req[r].pc = "served" /\ TenantOf[req[r].key] = t

\* handleKeyCreate asks only that its own request was let through, handleKeyRecover that the
\* tenant is active.
Mint(k) ==
  /\ key[k] = "unused"
  /\ Authorized(TenantOf[k]) \/ status[TenantOf[k]] = "active"
  /\ key' = [key EXCEPT ![k] = "live"]
  /\ UNCHANGED <<expired, status, cache, gen, req, admin>>

\* handleTenantReactivate: the tenant is active again and gets a new key; the cache is left alone.
Reactivate(k) ==
  /\ key[k] = "unused"
  /\ status[TenantOf[k]] = "suspended"
  /\ status' = [status EXCEPT ![TenantOf[k]] = "active"]
  /\ key' = [key EXCEPT ![k] = "live"]
  /\ UNCHANGED <<expired, cache, gen, req, admin>>

\* handleKeyRevoke, and RevokeOldest in a recovery: the row first.
Revoke(a, k) ==
  /\ admin[a] = Nothing
  /\ key[k] = "live"
  /\ key' = [key EXCEPT ![k] = "revoked"]
  /\ admin' = [admin EXCEPT ![a] = k]
  /\ UNCHANGED <<expired, status, cache, gen, req>>

\* commitTenantSuspension: one transaction. The operator's kill switch asks for an active tenant,
\* the tenant's own DELETE only that its request was let through. (A repeated DELETE that finds
\* no live key changes nothing in the database and is left out.)
Suspend(a, t) ==
  /\ admin[a] = Nothing
  /\ \/ status[t] = "active"
     \/ Authorized(t) /\ \E k \in Keys : TenantOf[k] = t /\ key[k] = "live"
  /\ status' = [status EXCEPT ![t] = "suspended"]
  /\ key' = [k \in Keys |-> IF TenantOf[k] = t /\ key[k] = "live" THEN "revoked" ELSE key[k]]
  /\ admin' = [admin EXCEPT ![a] = t]
  /\ UNCHANGED <<expired, cache, gen, req>>

\* Mutant: the entries are deleted but the generation is not bumped.
EvictOnly(a) ==
  /\ admin[a] # Nothing
  /\ cache' = [k \in Keys |-> IF admin[a] \in {k, TenantOf[k]} THEN "none" ELSE cache[k]]
  /\ admin' = [admin EXCEPT ![a] = Nothing]
  /\ UNCHANGED <<key, expired, status, gen, req>>

\* InvalidateKey, InvalidateTenant.
Evict(a) ==
  /\ admin[a] # Nothing
  /\ gen' = gen + 1
  /\ cache' = [k \in Keys |-> IF admin[a] \in {k, TenantOf[k]} THEN "none" ELSE cache[k]]
  /\ admin' = [admin EXCEPT ![a] = Nothing]
  /\ UNCHANGED <<key, expired, status, req>>

-----------------------------------------------------------------------------
(* Time. *)

Expire(k) ==
  /\ key[k] # "unused"
  /\ ~expired[k]
  /\ expired' = [expired EXCEPT ![k] = TRUE]
  /\ UNCHANGED <<key, status, cache, gen, req, admin>>

\* The TTL of an entry is over, or the LRU needs its place.
Forget(k) ==
  /\ cache[k] # "none"
  /\ cache' = [cache EXCEPT ![k] = "none"]
  /\ UNCHANGED <<key, expired, status, gen, req, admin>>

Serve(r) ==
  \/ \E k \in Keys : Lookup(r, k)
  \/ EvictExpired(r) \/ ReadGeneration(r) \/ QueryKey(r) \/ Store(r) \/ Respond(r)

Next ==
  \/ \E r \in Requests : Serve(r)
  \/ \E k \in Keys : Mint(k) \/ Reactivate(k) \/ Expire(k) \/ Forget(k)
  \/ \E a \in Admins : Evict(a) \/ (\E k \in Keys : Revoke(a, k)) \/ (\E t \in Tenants : Suspend(a, t))

Spec == Init /\ [][Next]_vars

-----------------------------------------------------------------------------
(* Properties. *)

RequestType == [pc : {"idle", "expire", "generation", "query", "store", "served", "refused"},
                key : Keys \cup {Nothing}, gen : Nat, saw : Answers, late : BOOLEAN]

\* The database, the cache and the requests keep their types.
TypeOK ==
  /\ key \in [Keys -> KeyStates]
  /\ expired \in [Keys -> BOOLEAN]
  /\ status \in [Tenants -> TenantStates]
  /\ cache \in [Keys -> Answers]
  /\ gen \in Nat
  /\ req \in [Requests -> RequestType]
  /\ admin \in [Admins -> Keys \cup Tenants \cup {Nothing}]

\* The comment on authCache.gen: a request that read the database before a revoke cannot write
\* its stale entry back afterwards. A cached key is live, and its tenant active if the entry says
\* so, or else its eviction is still to come.
NoStaleEntry ==
  \A k \in Keys :
    /\ cache[k] # "none" => key[k] = "live" \/ EvictionPending(k)
    /\ cache[k] = "active" => status[TenantOf[k]] = "active" \/ EvictionPending(k)

\* Revocation takes effect at once: a request that arrives when the handler that revoked its key
\* has returned, or when the key has expired, is never let through.
DeadKeyRefused == \A r \in Requests : req[r].late => req[r].pc # "served"

=============================================================================
