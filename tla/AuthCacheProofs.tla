---------------------------- MODULE AuthCacheProofs ---------------------------
(***************************************************************************)
(* That the authentication cache never serves a dead key, for any number   *)
(* of keys, tenants, requests and administrators.                          *)
(***************************************************************************)
EXTENDS AuthCache, TLAPS

-----------------------------------------------------------------------------
(* Type correctness. *)

\* The initial state has the types.
LEMMA InitTypeOK == Init => TypeOK
  BY AuthAssumption
  DEF Init, TypeOK, Idle, RequestType, KeyStates, TenantStates, Answers

\* Every step of a request keeps the types.
LEMMA ServeTypeOK ==
  ASSUME TypeOK, NEW r \in Requests, Serve(r)
  PROVE  TypeOK'
  <1> USE DEF TypeOK, RequestType, Answers, TenantStates
  <1>1. ASSUME NEW k \in Keys, Lookup(r, k) PROVE TypeOK'
    <2> DEFINE arrival(pc, saw) ==
          [pc |-> pc, key |-> k, gen |-> 0, saw |-> saw, late |-> Dead(k)]
    <2>1. Dead(k) \in BOOLEAN
      BY DEF Dead
    <2>2. \A pc \in {"generation", "expire", "served", "refused"}, saw \in Answers :
            arrival(pc, saw) \in RequestType
      BY <2>1
    <2>3. \E pc \in {"generation", "expire", "served", "refused"}, saw \in Answers :
            req' = [req EXCEPT ![r] = arrival(pc, saw)]
      BY <1>1 DEF Lookup
    <2>4. req' \in [Requests -> RequestType]
      <3> HIDE DEF arrival, RequestType
      <3> QED BY <2>2, <2>3
    <2> QED BY <1>1, <2>4 DEF Lookup
  <1>2. CASE EvictExpired(r)
    <2>1. req' \in [Requests -> RequestType]
      BY <1>2 DEF EvictExpired, Goto
    <2>2. cache' \in [Keys -> Answers]
      BY <1>2 DEF EvictExpired
    <2>3. gen' \in Nat
      BY <1>2 DEF EvictExpired
    <2>4. UNCHANGED <<key, expired, status, admin>>
      BY <1>2 DEF EvictExpired
    <2> QED BY <2>1, <2>2, <2>3, <2>4
  <1>3. CASE ReadGeneration(r)
    BY <1>3 DEF ReadGeneration
  <1>4. CASE QueryKey(r)
    BY <1>4, AuthAssumption DEF QueryKey, Goto
  <1>5. CASE Store(r)
    BY <1>5 DEF Store, Decide, Goto
  <1>6. CASE Respond(r)
    BY <1>6 DEF Respond, Idle
  <1> QED BY <1>1, <1>2, <1>3, <1>4, <1>5, <1>6 DEF Serve

\* Every other step keeps the types.
LEMMA WorldTypeOK ==
  ASSUME TypeOK,
         \/ \E k \in Keys : Mint(k) \/ Reactivate(k) \/ Expire(k) \/ Forget(k)
         \/ \E a \in Admins : Evict(a) \/ (\E k \in Keys : Revoke(a, k))
                                \/ (\E t \in Tenants : Suspend(a, t))
  PROVE  TypeOK'
  <1> USE DEF TypeOK, KeyStates, TenantStates, Answers
  <1>1. ASSUME NEW k \in Keys, Mint(k) PROVE TypeOK'
    BY <1>1 DEF Mint
  <1>2. ASSUME NEW k \in Keys, Reactivate(k) PROVE TypeOK'
    BY <1>2, AuthAssumption DEF Reactivate
  <1>3. ASSUME NEW k \in Keys, Expire(k) PROVE TypeOK'
    BY <1>3 DEF Expire
  <1>4. ASSUME NEW k \in Keys, Forget(k) PROVE TypeOK'
    BY <1>4 DEF Forget
  <1>5. ASSUME NEW a \in Admins, Evict(a) PROVE TypeOK'
    BY <1>5 DEF Evict
  <1>6. ASSUME NEW a \in Admins, NEW k \in Keys, Revoke(a, k) PROVE TypeOK'
    BY <1>6 DEF Revoke
  <1>7. ASSUME NEW a \in Admins, NEW t \in Tenants, Suspend(a, t) PROVE TypeOK'
    BY <1>7 DEF Suspend
  <1> QED BY <1>1, <1>2, <1>3, <1>4, <1>5, <1>6, <1>7

\* The variables keep their types in every reachable state.
THEOREM TypeCorrect == Spec => []TypeOK
  <1>1. TypeOK /\ [Next]_vars => TypeOK'
    <2> SUFFICES ASSUME TypeOK, [Next]_vars PROVE TypeOK'
      OBVIOUS
    <2>1. CASE Next
      BY <2>1, ServeTypeOK, WorldTypeOK DEF Next
    <2>2. CASE UNCHANGED vars
      BY <2>2 DEF TypeOK, vars
    <2> QED BY <2>1, <2>2
  <1> QED BY <1>1, InitTypeOK, PTL DEF Spec

-----------------------------------------------------------------------------
(* The inductive invariant.  NoStaleEntry alone is not inductive: a result  *)
(* that a request holds may enter the cache as long as its generation is    *)
(* current, so such a result must already be as good as an entry.           *)

\* No request has read a generation that is still to come.
GenerationKnown == \A r \in Requests : req[r].gen <= gen

\* A request that is under way has a key.
BusyHasKey == \A r \in Requests : req[r].pc # "idle" => req[r].key \in Keys

\* A result that may still be cached is what the database says, or its eviction is to come.
HeldResult ==
  \A r \in Requests :
    req[r].pc = "store" /\ req[r].gen = gen =>
      /\ key[req[r].key] = "live" \/ EvictionPending(req[r].key)
      /\ req[r].saw = "active" =>
           status[TenantOf[req[r].key]] = "active" \/ EvictionPending(req[r].key)

\* A request that came too late carries a key that the query will not find.
LateIsDead ==
  \A r \in Requests :
    req[r].late =>
      /\ req[r].pc \in {"expire", "generation", "query", "refused"}
      /\ expired[req[r].key] \/ key[req[r].key] = "revoked"

Inv == TypeOK /\ NoStaleEntry /\ GenerationKnown /\ BusyHasKey /\ HeldResult /\ LateIsDead

\* The initial state satisfies the invariant.
LEMMA InitInv == Init => Inv
  <1> SUFFICES ASSUME Init PROVE Inv
    OBVIOUS
  <1>1. TypeOK
    BY InitTypeOK
  <1>2. NoStaleEntry
    BY DEF Init, NoStaleEntry
  <1>3. GenerationKnown /\ BusyHasKey /\ HeldResult /\ LateIsDead
    BY DEF Init, GenerationKnown, BusyHasKey, HeldResult, LateIsDead, Idle
  <1> QED BY <1>1, <1>2, <1>3 DEF Inv

\* A step of a request that leaves the database and the evictions alone.
LEMMA ServeInv ==
  ASSUME Inv, NEW r \in Requests, Serve(r)
  PROVE  Inv'
  <1> USE DEF Inv
  <1>0. TypeOK'
    BY ServeTypeOK
  <1>a. UNCHANGED <<key, expired, status, admin>>
    BY DEF Serve, Lookup, EvictExpired, ReadGeneration, QueryKey, Store, Respond
  <1>b. \A k \in Keys : EvictionPending(k)' <=> EvictionPending(k)
    BY <1>a DEF EvictionPending
  <1>1. ASSUME NEW k \in Keys, Lookup(r, k) PROVE Inv'
    <2>1. UNCHANGED <<cache, gen>>
      BY <1>1 DEF Lookup
    <2>2. NoStaleEntry'
      BY <2>1, <1>a, <1>b DEF NoStaleEntry
    <2>3. GenerationKnown' /\ BusyHasKey'
      BY <1>1, <2>1 DEF Lookup, TypeOK, GenerationKnown, BusyHasKey
    <2>4. HeldResult'
      <3>1. \A q \in Requests : req'[q].pc = "store" => req'[q] = req[q]
        BY <1>1 DEF Lookup, TypeOK
      <3> QED BY <3>1, <2>1, <1>a DEF HeldResult, EvictionPending
    <2>5. LateIsDead'
      <3>1. Dead(k) => expired[k] \/ (cache[k] = "none" /\ key[k] = "revoked")
        BY DEF Dead, NoStaleEntry
      <3>2. req'[r].late => /\ req'[r].pc \in {"expire", "generation", "query", "refused"}
                            /\ expired[k] \/ key[k] = "revoked"
        BY <3>1, <1>1 DEF Lookup, TypeOK
      <3>3. req'[r].key = k /\ \A q \in Requests \ {r} : req'[q] = req[q]
        BY <1>1 DEF Lookup, TypeOK
      <3> QED BY <3>2, <3>3, <1>a DEF LateIsDead
    <2> QED BY <1>0, <2>2, <2>3, <2>4, <2>5
  <1>2. CASE EvictExpired(r)
    <2>1. NoStaleEntry'
      BY <1>2, <1>a, <1>b DEF EvictExpired, NoStaleEntry, TypeOK
    <2>2. GenerationKnown' /\ BusyHasKey'
      BY <1>2 DEF EvictExpired, Goto, TypeOK, RequestType, GenerationKnown, BusyHasKey
    <2>3. \A q \in Requests : req'[q].gen # gen'
      BY <1>2 DEF EvictExpired, Goto, TypeOK, RequestType, GenerationKnown
    <2>4. HeldResult'
      BY <2>3 DEF HeldResult
    <2>5. LateIsDead'
      BY <1>2, <1>a DEF EvictExpired, Goto, TypeOK, LateIsDead
    <2> QED BY <1>0, <2>1, <2>2, <2>4, <2>5
  <1>3. CASE ReadGeneration(r)
    <2>1. NoStaleEntry'
      BY <1>3, <1>a, <1>b DEF ReadGeneration, NoStaleEntry
    <2>2. GenerationKnown' /\ BusyHasKey' /\ LateIsDead'
      BY <1>3, <1>a DEF ReadGeneration, TypeOK, GenerationKnown, BusyHasKey, LateIsDead
    <2>3. HeldResult'
      BY <1>3, <1>a, <1>b DEF ReadGeneration, TypeOK, HeldResult, BusyHasKey
    <2> QED BY <1>0, <2>1, <2>2, <2>3
  <1>4. CASE QueryKey(r)
    <2>1. gen' = gen /\ cache' = cache
      BY <1>4 DEF QueryKey
    <2>2. \A q \in Requests \ {r} : req'[q] = req[q]
      BY <1>4 DEF QueryKey, Goto, TypeOK
    <2>3. /\ req'[r].key = req[r].key
          /\ req'[r].gen = req[r].gen
          /\ req'[r].late = req[r].late
          /\ \/ req'[r].pc = "refused"
             \/ /\ req'[r].pc = "store"
                /\ key[req[r].key] = "live" /\ ~expired[req[r].key]
                /\ req'[r].saw = status[TenantOf[req[r].key]]
      <3>1. CASE /\ key[req[r].key] = "live" /\ ~expired[req[r].key]
                 /\ req' = [req EXCEPT ![r].pc = "store", ![r].saw = status[TenantOf[req[r].key]]]
        BY <3>1 DEF TypeOK, RequestType
      <3>2. CASE req' = [req EXCEPT ![r].pc = "refused"]
        BY <3>2 DEF TypeOK, RequestType
      <3> QED BY <3>1, <3>2, <1>4 DEF QueryKey, Goto
    <2>4. NoStaleEntry'
      BY <2>1, <1>a, <1>b DEF NoStaleEntry
    <2>5. GenerationKnown'
      BY <2>1, <2>2, <2>3 DEF GenerationKnown
    <2>6. BusyHasKey'
      BY <1>4, <2>2, <2>3 DEF BusyHasKey, QueryKey
    <2>7. LateIsDead'
      BY <2>2, <2>3, <1>a DEF LateIsDead
    <2>8. HeldResult'
      BY <2>1, <2>2, <2>3, <1>a DEF HeldResult, EvictionPending
    <2> QED BY <1>0, <2>4, <2>5, <2>6, <2>7, <2>8
  <1>5. CASE Store(r)
    <2>1. NoStaleEntry'
      BY <1>5, <1>a, <1>b DEF Store, TypeOK, NoStaleEntry, HeldResult, BusyHasKey
    <2>2. GenerationKnown' /\ BusyHasKey' /\ LateIsDead'
      BY <1>5, <1>a DEF Store, Decide, Goto, TypeOK, GenerationKnown, BusyHasKey, LateIsDead
    <2>3. HeldResult'
      BY <1>5, <1>a, <1>b DEF Store, Decide, Goto, TypeOK, HeldResult, BusyHasKey
    <2> QED BY <1>0, <2>1, <2>2, <2>3
  <1>6. CASE Respond(r)
    <2>1. NoStaleEntry'
      BY <1>6, <1>a, <1>b DEF Respond, NoStaleEntry
    <2>2. GenerationKnown' /\ BusyHasKey' /\ LateIsDead'
      BY <1>6, <1>a DEF Respond, Idle, TypeOK, GenerationKnown, BusyHasKey, LateIsDead
    <2>3. HeldResult'
      BY <1>6, <1>a, <1>b DEF Respond, Idle, TypeOK, HeldResult, BusyHasKey
    <2> QED BY <1>0, <2>1, <2>2, <2>3
  <1> QED BY <1>1, <1>2, <1>3, <1>4, <1>5, <1>6 DEF Serve

\* A step of time or of the handlers that change keys: the requests do nothing.
LEMMA WorldInv ==
  ASSUME Inv,
         \/ \E k \in Keys : Mint(k) \/ Reactivate(k) \/ Expire(k) \/ Forget(k)
         \/ \E a \in Admins : Evict(a) \/ (\E k \in Keys : Revoke(a, k))
                                \/ (\E t \in Tenants : Suspend(a, t))
  PROVE  Inv'
  <1> USE DEF Inv
  <1>0. TypeOK'
    BY WorldTypeOK
  <1>1. ASSUME NEW k \in Keys, Mint(k) \/ Reactivate(k) PROVE Inv'
    <2>1. /\ \A d \in Keys : key[d] # "unused" => key'[d] = key[d]
          /\ \A d \in Keys : key[d] = "live" => key'[d] = "live"
          /\ \A t \in Tenants : status[t] = "active" => status'[t] = "active"
          /\ UNCHANGED <<expired, cache, gen, req, admin>>
      BY <1>1, AuthAssumption DEF Mint, Reactivate, TypeOK
    <2>2. \A d \in Keys : EvictionPending(d)' <=> EvictionPending(d)
      BY <2>1 DEF EvictionPending
    <2>3. NoStaleEntry' /\ HeldResult'
      BY <2>1, <2>2, AuthAssumption DEF NoStaleEntry, HeldResult, BusyHasKey
    <2>4. GenerationKnown' /\ BusyHasKey' /\ LateIsDead'
      BY <2>1 DEF GenerationKnown, BusyHasKey, LateIsDead
    <2> QED BY <1>0, <2>3, <2>4
  <1>2. ASSUME NEW k \in Keys, Expire(k) \/ Forget(k) PROVE Inv'
    <2>1. /\ UNCHANGED <<key, status, gen, req, admin>>
          /\ \A d \in Keys : expired[d] => expired'[d]
          /\ \A d \in Keys : cache'[d] \in {cache[d], "none"}
      BY <1>2 DEF Expire, Forget, TypeOK
    <2>2. \A d \in Keys : EvictionPending(d)' <=> EvictionPending(d)
      BY <2>1 DEF EvictionPending
    <2>3. NoStaleEntry' /\ HeldResult'
      BY <2>1, <2>2 DEF NoStaleEntry, HeldResult, BusyHasKey
    <2>4. GenerationKnown' /\ BusyHasKey' /\ LateIsDead'
      BY <2>1 DEF GenerationKnown, BusyHasKey, LateIsDead
    <2> QED BY <1>0, <2>3, <2>4
  <1>3. ASSUME NEW a \in Admins, Evict(a) PROVE Inv'
    <2>1. /\ UNCHANGED <<key, expired, status, req>>
          /\ gen' = gen + 1
      BY <1>3 DEF Evict
    <2>2. \A d \in Keys : cache'[d] # "none" =>
            cache'[d] = cache[d] /\ (EvictionPending(d) => EvictionPending(d)')
      BY <1>3 DEF Evict, EvictionPending, TypeOK
    <2>3. NoStaleEntry'
      BY <2>1, <2>2 DEF NoStaleEntry
    <2>4. GenerationKnown' /\ BusyHasKey' /\ LateIsDead'
      BY <2>1 DEF GenerationKnown, BusyHasKey, LateIsDead, TypeOK, RequestType
    <2>5. HeldResult'
      BY <2>1 DEF HeldResult, GenerationKnown, TypeOK, RequestType
    <2> QED BY <1>0, <2>3, <2>4, <2>5
  <1>4. ASSUME NEW a \in Admins, NEW c \in Keys \cup Tenants, admin[a] = Nothing,
               admin' = [admin EXCEPT ![a] = c], UNCHANGED <<expired, cache, gen, req>>,
               \A d \in Keys : \/ key'[d] = key[d] /\ status'[TenantOf[d]] = status[TenantOf[d]]
                               \/ key[d] # "unused" /\ key'[d] = "revoked" /\ c \in {d, TenantOf[d]}
                               \/ key'[d] = key[d] /\ c = TenantOf[d]
        PROVE  Inv'
    <2>1. \A d \in Keys : /\ EvictionPending(d) => EvictionPending(d)'
                          /\ c \in {d, TenantOf[d]} => EvictionPending(d)'
      BY <1>4, AuthAssumption DEF EvictionPending, TypeOK
    <2>2. NoStaleEntry'
      BY <1>4, <2>1 DEF NoStaleEntry
    <2>3. HeldResult'
      BY <1>4, <2>1 DEF HeldResult, BusyHasKey
    <2>4. GenerationKnown' /\ BusyHasKey'
      BY <1>4 DEF GenerationKnown, BusyHasKey
    <2>5. LateIsDead'
      BY <1>4 DEF LateIsDead, BusyHasKey
    <2> QED BY <1>0, <2>2, <2>3, <2>4, <2>5
  <1>5. ASSUME NEW a \in Admins, NEW k \in Keys, Revoke(a, k) PROVE Inv'
    <2>1. \A d \in Keys : \/ key'[d] = key[d] /\ status'[TenantOf[d]] = status[TenantOf[d]]
                          \/ key[d] # "unused" /\ key'[d] = "revoked" /\ k \in {d, TenantOf[d]}
      BY <1>5 DEF Revoke, TypeOK
    <2> QED BY <1>4, <1>5, <2>1 DEF Revoke
  <1>6. ASSUME NEW a \in Admins, NEW t \in Tenants, Suspend(a, t) PROVE Inv'
    <2>1. \A d \in Keys : \/ key'[d] = key[d] /\ status'[TenantOf[d]] = status[TenantOf[d]]
                          \/ key[d] # "unused" /\ key'[d] = "revoked" /\ t \in {d, TenantOf[d]}
                          \/ key'[d] = key[d] /\ t = TenantOf[d]
      BY <1>6, AuthAssumption DEF Suspend, TypeOK
    <2> QED BY <1>4, <1>6, <2>1 DEF Suspend
  <1> QED BY <1>1, <1>2, <1>3, <1>5, <1>6

\* The invariant holds in every reachable state.
THEOREM InvHolds == Spec => []Inv
  <1>1. Inv /\ [Next]_vars => Inv'
    <2> SUFFICES ASSUME Inv, [Next]_vars PROVE Inv'
      OBVIOUS
    <2>1. CASE Next
      BY <2>1, ServeInv, WorldInv DEF Next
    <2>2. CASE UNCHANGED vars
      BY <2>2 DEF vars, Inv, TypeOK, NoStaleEntry, GenerationKnown, BusyHasKey, HeldResult,
                  LateIsDead, EvictionPending
    <2> QED BY <2>1, <2>2
  <1> QED BY <1>1, InitInv, PTL DEF Spec

\* No stale entry: a cached key is live, and its tenant active if the entry says so, or its
\* eviction is still to come.
THEOREM CacheIsFresh == Spec => []NoStaleEntry
  BY InvHolds, PTL DEF Inv

\* A request that arrives with a dead key is never let through.
THEOREM RevocationIsImmediate == Spec => []DeadKeyRefused
  <1>1. Inv => DeadKeyRefused
    BY DEF Inv, LateIsDead, DeadKeyRefused
  <1> QED BY <1>1, InvHolds, PTL

=============================================================================
