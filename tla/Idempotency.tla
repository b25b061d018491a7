------------------------------ MODULE Idempotency -----------------------------
(***************************************************************************)
(* middleware.IdempotencyStore: requests that carry the same key run the   *)
(* handler one at a time, the later ones wait, and a success is replayed   *)
(* to retries until its entry expires or has to make room.                 *)
(*                                                                         *)
(* A key here is the store's full key, so it belongs to one tenant; a body *)
(* stands for its hash. Requests without a key pass through and are left   *)
(* out. The store is in memory: a restart of the process empties it.       *)
(***************************************************************************)
EXTENDS Naturals, FiniteSets, Sequences, SequencesExt

CONSTANTS
  Keys,        \* full keys: tenant, method, URI and Idempotency-Key
  TenantOf,    \* the tenant of each key
  Bodies,      \* hashes of request bodies
  Requests,    \* goroutines that serve requests
  Nothing,     \* the key and body of an idle request, the owner of a missing entry
  TenantCap,   \* maxIdempotencyPerTenant
  GlobalCap    \* maxIdempotencyEntries

IdempotencyAssumption ==
  /\ IsFiniteSet(Keys)
  /\ Nothing \notin Keys \cup Bodies \cup Requests
  /\ DOMAIN TenantOf = Keys
  /\ TenantCap \in Nat \ {0}
  /\ GlobalCap \in Nat \ {0}

VARIABLES
  entry,   \* the entry of each key; its owner is the request that reserved it
  order,   \* the keys that have an entry, oldest createdAt first
  req      \* what each request is doing; on is the owner of the entry it waits for

vars == <<entry, order, req>>

NoEntry == [owner |-> Nothing, body |-> Nothing, pending |-> FALSE, expired |-> FALSE]
Idle == [pc |-> "idle", key |-> Nothing, body |-> Nothing, on |-> Nothing, stored |-> FALSE]

Init ==
  /\ entry = [k \in Keys |-> NoEntry]
  /\ order = <<>>
  /\ req = [r \in Requests |-> Idle]

Has(k) == entry[k].owner # Nothing
Completed(k) == Has(k) /\ ~entry[k].pending
Mine(r) == entry[req[r].key].owner = r

Goto(r, pc) == req' = [req EXCEPT ![r].pc = pc]

-----------------------------------------------------------------------------
(* reserve: room is made among completed entries, the oldest first. *)

\* A pending entry is never evicted: its handler is still running.
Evictable(k) == Completed(k)

\* The entry of k was created before that of c.
Older(k, c) == \E i, j \in DOMAIN order : i < j /\ order[i] = k /\ order[j] = c

\* The oldest evictable key among keys, if there is one and the cap is reached.
Victim(keys, cap) ==
  IF Cardinality({k \in keys : Has(k)}) >= cap
    THEN {k \in keys : Evictable(k) /\ \A c \in keys \ {k} : Evictable(c) => Older(k, c)}
    ELSE {}

\* The keys that go when key k is reserved: one of the tenant's, then, if the store is still
\* full, one of anybody's.
MakeRoom(k) ==
  LET mine == Victim({d \in Keys \ {k} : TenantOf[d] = TenantOf[k]}, TenantCap)
  IN mine \cup Victim((Keys \ {k}) \ mine, GlobalCap)

\* entry and order once the keys in gone are dropped and k is reserved by r.
Reserve(r, k, body) ==
  LET gone == MakeRoom(k)
      kept == SelectSeq(order, LAMBDA d : d # k /\ d \notin gone)
  IN /\ entry' = [d \in Keys |->
                    IF d = k THEN [owner |-> r, body |-> body, pending |-> TRUE, expired |-> FALSE]
                    ELSE IF d \in gone THEN NoEntry ELSE entry[d]]
     /\ order' = Append(kept, k)

Drop(keys) ==
  /\ entry' = [k \in Keys |-> IF k \in keys THEN NoEntry ELSE entry[k]]
  /\ order' = SelectSeq(order, LAMBDA k : k \notin keys)

-----------------------------------------------------------------------------
(* A request. *)

Arrive(r, k, body) ==
  /\ req[r].pc = "idle"
  /\ req' = [req EXCEPT ![r] = [Idle EXCEPT !.pc = "look", !.key = k, !.body = body]]
  /\ UNCHANGED <<entry, order>>

\* Under mu: reserve; or wait for the request that holds the entry; or answer at once, with
\* 409 (another body) or the stored response.
Look(r) ==
  LET k == req[r].key
      e == entry[k]
  IN /\ req[r].pc = "look"
     /\ \/ /\ ~Has(k) \/ (Completed(k) /\ e.expired)
           /\ Reserve(r, k, req[r].body)
           /\ Goto(r, "run")
        \/ /\ Has(k) /\ ~(Completed(k) /\ e.expired)
           /\ UNCHANGED <<entry, order>>
           /\ IF e.body = req[r].body /\ e.pending
                THEN req' = [req EXCEPT ![r].pc = "wait", ![r].on = e.owner]
                ELSE req' = [req EXCEPT ![r] = Idle]

\* The handler answers: a 2xx of bounded size is to be stored, anything else, a panic
\* included, is not.
Run(r) ==
  /\ req[r].pc = "run"
  /\ Goto(r, "store") \/ Goto(r, "release")
  /\ UNCHANGED <<entry, order>>

\* Under mu: the entry is completed and its replay window starts.
Store(r) ==
  LET k == req[r].key
  IN /\ req[r].pc = "store"
     /\ entry' = IF Mine(r) THEN [entry EXCEPT ![k].pending = FALSE, ![k].expired = FALSE] ELSE entry
     /\ req' = [req EXCEPT ![r].pc = "release", ![r].stored = Mine(r)]
     /\ UNCHANGED order

\* close(done): the requests that wait for the entry of r look again, and r is through.
Close(r) ==
  req' = [q \in Requests |->
            IF q = r THEN Idle
            ELSE IF req[q].pc = "wait" /\ req[q].on = r
              THEN [req[q] EXCEPT !.pc = "look", !.on = Nothing]
              ELSE req[q]]

\* Mutant: the entry is dropped whether or not a response was stored.
ReleaseAlways(r) ==
  /\ req[r].pc = "release"
  /\ IF Mine(r) THEN Drop({req[r].key}) ELSE UNCHANGED <<entry, order>>
  /\ Close(r)

\* Mutant: nobody is woken when the handler produced nothing to replay.
ReleaseQuietly(r) ==
  /\ req[r].pc = "release"
  /\ IF ~req[r].stored /\ Mine(r) THEN Drop({req[r].key}) ELSE UNCHANGED <<entry, order>>
  /\ IF req[r].stored THEN Close(r) ELSE req' = [req EXCEPT ![r] = Idle]

\* The deferred release: an entry without a response is dropped, then the waiters are woken.
Release(r) ==
  /\ req[r].pc = "release"
  /\ IF ~req[r].stored /\ Mine(r) THEN Drop({req[r].key}) ELSE UNCHANGED <<entry, order>>
  /\ Close(r)

\* The client of a waiting request goes away.
GiveUp(r) ==
  /\ req[r].pc = "wait"
  /\ req' = [req EXCEPT ![r] = Idle]
  /\ UNCHANGED <<entry, order>>

-----------------------------------------------------------------------------
(* Time. *)

\* idempotencyTTL is over, for an entry of either kind.
Expire(k) ==
  /\ Has(k) /\ ~entry[k].expired
  /\ entry' = [entry EXCEPT ![k].expired = TRUE]
  /\ UNCHANGED <<order, req>>

\* Mutant: the sweep drops whatever has expired.
SweepAny ==
  /\ \E k \in Keys : Has(k) /\ entry[k].expired
  /\ Drop({k \in Keys : Has(k) /\ entry[k].expired})
  /\ UNCHANGED req

\* sweep: expired entries go, but never a pending one.
Sweep ==
  /\ \E k \in Keys : Completed(k) /\ entry[k].expired
  /\ Drop({k \in Keys : Completed(k) /\ entry[k].expired})
  /\ UNCHANGED req

Serve(r) == Look(r) \/ Run(r) \/ Store(r) \/ Release(r)

Next ==
  \/ \E r \in Requests, k \in Keys, body \in Bodies : Arrive(r, k, body)
  \/ \E r \in Requests : Serve(r) \/ GiveUp(r)
  \/ \E k \in Keys : Expire(k)
  \/ Sweep

Spec == Init /\ [][Next]_vars

-----------------------------------------------------------------------------
(* Properties. *)

\* Entries, their order and the requests keep their types; an entry is in order once.
TypeOK ==
  /\ entry \in [Keys -> [owner : Requests \cup {Nothing}, body : Bodies \cup {Nothing},
                         pending : BOOLEAN, expired : BOOLEAN]]
  /\ order \in Seq(Keys)
  /\ ToSet(order) = {k \in Keys : Has(k)}
  /\ Len(order) = Cardinality(ToSet(order))
  /\ req \in [Requests -> [pc : {"idle", "look", "run", "store", "release", "wait"},
                           key : Keys \cup {Nothing}, body : Bodies \cup {Nothing},
                           on : Requests \cup {Nothing}, stored : BOOLEAN]]

Running(r) == req[r].pc \in {"run", "store"}

\* The comments on sweep and on expiry: a retry must not start a second, concurrent execution.
\* At most one handler runs for a key, however long it takes and however full the store is.
OneRunPerKey ==
  \A r, q \in Requests : Running(r) /\ Running(q) /\ req[r].key = req[q].key => r = q

\* A pending entry has a request behind it that will complete or drop it; an orphan would make
\* every retry of the key wait for nothing until the process restarts.
PendingHasRunner ==
  \A k \in Keys : Has(k) /\ entry[k].pending =>
    LET r == entry[k].owner
    IN req[r].key = k /\ req[r].pc \in {"run", "store", "release"} /\ ~req[r].stored

\* A request never waits for one that has left: whatever a handler answers, and whether or not
\* its entry is still there, the request it waits for has yet to close the channel.
WaiterHasRunner ==
  \A q \in Requests : req[q].pc = "wait" =>
    LET r == req[q].on
    IN r # q /\ req[r].key = req[q].key /\ req[r].pc \in {"run", "store", "release"}

\* Neither an entry nor a waiting request is left behind by the handler it depends on.
RunnersKnown == PendingHasRunner /\ WaiterHasRunner

\* Key d is reserved in this step.
Reserved(d) == entry'[d] # entry[d] /\ entry'[d].pending

\* A stored response is there for retries until it expires: it is lost sooner only to make room
\* for another key, of its own tenant at that tenant's cap or of anybody when the store is
\* full, and then no older response of the tenant is kept in its place.
KeepsStored ==
  \A k \in Keys :
    Completed(k) /\ ~entry[k].expired /\ ~Has(k)' =>
      \E d \in Keys \ {k} :
        LET held == {c \in Keys \ {d} : Has(c)}
            ofTenant == {c \in held : TenantOf[c] = TenantOf[k]}
        IN /\ Reserved(d)
           /\ \/ TenantOf[d] = TenantOf[k] /\ Cardinality(ofTenant) >= TenantCap
              \/ Cardinality(held) >= GlobalCap
           /\ \A c \in ofTenant \ {k} : Completed(c) /\ Has(c)' => Older(k, c)

StoredUntilExpiry == [][KeepsStored]_vars

=============================================================================
