-------------------------------- MODULE Keyring --------------------------------
(***************************************************************************)
(* The API keys of one tenant.  At most MaxKeys of them are live: not      *)
(* revoked and not expired.  Creation and recovery check that inside their *)
(* INSERT; a recovery that finds the keyring full revokes the oldest key   *)
(* and tries again.  Keys that have expired stay until they are revoked.   *)
(*                                                                         *)
(* A key is what the queries look at: when it was made, in seconds, and    *)
(* when it expires.  Revoked keys leave the model; that they leave the     *)
(* cache too is the subject of AuthCache.                                  *)
(***************************************************************************)
EXTENDS Naturals, Sequences, FiniteSets, SequencesExt

CONSTANTS
  MaxKeys,         \* maxKeysPerTenant
  Requests,        \* handlers of creations and recoveries
  MaxTime,         \* bound: seconds
  MaxMints,        \* bound: keys made
  MaxSuspensions   \* bound: suspensions of the tenant

KeyringAssumption == MaxKeys \in Nat \ {0} /\ MaxTime \in Nat

Never == MaxTime + 2

VARIABLES
  now,       \* seconds
  keys,      \* the keys that are not revoked, in the order of their INSERTs
  status,    \* the tenant
  req,       \* what each handler is doing, and the time it read when it began
  mints, suspensions   \* bounds

vars == <<now, keys, status, req, mints, suspensions>>

\* The history of a recovery: how many keys it revoked that it counted as live and how many that
\* it did not, how many keys others made meanwhile or had made beyond the quota, and whether one
\* that it did not revoke went.
Idle == [pc |-> "idle", kind |-> "create", now |-> 0, attempt |-> 0,
         spent |-> 0, wasted |-> 0, others |-> 0, cleared |-> FALSE]

TypeOK ==
  /\ now \in 0..MaxTime /\ status \in {"active", "suspended"}
  /\ \A i \in DOMAIN keys : keys[i] \in [born : 0..MaxTime, until : 1..Never, survivor : BOOLEAN]
  /\ \A r \in Requests :
       /\ req[r].pc \in {"idle", "insert", "revoke", "created", "conflict"}
       /\ req[r].kind \in {"create", "recover"}
       /\ req[r].now \in 0..now /\ req[r].attempt \in 0..MaxKeys
       /\ req[r].spent + req[r].wasted = req[r].attempt

\* liveAPIKeySQL: the keys that are listed and that count.
LiveKeys(t) == {i \in DOMAIN keys : keys[i].until > t}

\* Registration makes the tenant and its first key in one transaction.
Init ==
  /\ now = 0 /\ status = "active"
  /\ keys = <<[born |-> 0, until |-> Never, survivor |-> FALSE]>>
  /\ req = [r \in Requests |-> Idle]
  /\ mints = 1 /\ suspensions = 0

Goto(r, pc) == req' = [req EXCEPT ![r].pc = pc]

Recovering(r) == req[r].kind = "recover" /\ req[r].pc \in {"insert", "revoke"}

\* What the recoveries under way see of a key that is made, or goes.
SeeMade(r) == IF Recovering(r) THEN [req[r] EXCEPT !.others = @ + 1] ELSE req[r]

SeeGone(r) == IF Recovering(r) THEN [req[r] EXCEPT !.cleared = TRUE] ELSE req[r]

\* The INSERT of handler r.
Insert(r, until) ==
  /\ mints < MaxMints /\ mints' = mints + 1
  /\ keys' = Append(keys, [born |-> req[r].now, until |-> until, survivor |-> status = "suspended"])
  /\ req' = [q \in Requests |-> IF q = r THEN [req[r] EXCEPT !.pc = "created"] ELSE SeeMade(q)]

\* expires_in, or none.
Expiries(r) == ((req[r].now + 1)..MaxTime) \cup {Never}

Surplus == LET n == Cardinality(LiveKeys(now)) IN IF n > MaxKeys THEN n - MaxKeys ELSE 0

Fits(r) == Cardinality(LiveKeys(req[r].now)) < MaxKeys

-----------------------------------------------------------------------------
(* handleKeyCreate and handleKeyRevoke; the caller's key was live when the request came. *)

Begin(r, kind) ==
  /\ req[r].pc = "idle" /\ status = "active"
  /\ req' = [req EXCEPT ![r] = [Idle EXCEPT !.pc = "insert", !.kind = kind, !.now = now,
                                !.others = IF kind = "recover" THEN Surplus ELSE 0]]
  /\ UNCHANGED <<now, keys, status, mints, suspensions>>

BeginCreate(r) == Begin(r, "create")

\* Mutant: the quota is checked when the request comes.
InsertUnchecked(r) ==
  /\ req[r].pc = "insert" /\ req[r].kind = "create"
  /\ \E until \in Expiries(r) : Insert(r, until)
  /\ UNCHANGED <<now, status, suspensions>>

InsertKey(r) ==
  /\ req[r].pc = "insert" /\ req[r].kind = "create"
  /\ \/ Fits(r) /\ \E until \in Expiries(r) : Insert(r, until)
     \/ ~Fits(r) /\ Goto(r, "conflict") /\ UNCHANGED <<keys, mints>>
  /\ UNCHANGED <<now, status, suspensions>>

Revoke(i) ==
  /\ status = "active" /\ i \in DOMAIN keys
  /\ keys' = RemoveAt(keys, i) /\ req' = [r \in Requests |-> SeeGone(r)]
  /\ UNCHANGED <<now, status, mints, suspensions>>

-----------------------------------------------------------------------------
(* handleKeyRecover. *)

\* The tenant is active when it is looked up.
BeginRecover(r) == Begin(r, "recover")

\* Mutant: one retry too few.
GiveUpEarly(r) ==
  /\ req[r].pc = "insert" /\ req[r].kind = "recover"
  /\ \/ Fits(r) /\ Insert(r, Never)
     \/ /\ ~Fits(r)
        /\ Goto(r, IF req[r].attempt + 1 >= MaxKeys THEN "conflict" ELSE "revoke")
        /\ UNCHANGED <<keys, mints>>
  /\ UNCHANGED <<now, status, suspensions>>

\* The INSERT, MaxKeys retries at most.
InsertRecoveryKey(r) ==
  /\ req[r].pc = "insert" /\ req[r].kind = "recover"
  /\ \/ Fits(r) /\ Insert(r, Never)
     \/ /\ ~Fits(r)
        /\ Goto(r, IF req[r].attempt >= MaxKeys THEN "conflict" ELSE "revoke")
        /\ UNCHANGED <<keys, mints>>
  /\ UNCHANGED <<now, status, suspensions>>

\* revokeOldestWhere asks for keys that are not revoked, expired or not.
OldestKeys == {i \in DOMAIN keys : \A j \in DOMAIN keys : keys[i].born <= keys[j].born}

RevokeOldest(r) ==
  /\ req[r].pc = "revoke"
  /\ \/ \E i \in OldestKeys :
          /\ keys' = RemoveAt(keys, i)
          /\ req' = [q \in Requests |-> IF q # r THEN SeeGone(q) ELSE
               [req[r] EXCEPT !.pc = "insert", !.attempt = @ + 1,
                              !.spent = IF i \in LiveKeys(req[r].now) THEN @ + 1 ELSE @,
                              !.wasted = IF i \in LiveKeys(req[r].now) THEN @ ELSE @ + 1]]
     \/ keys = <<>> /\ Goto(r, "conflict") /\ keys' = keys
  /\ UNCHANGED <<now, status, mints, suspensions>>

\* The answer, and the next request.
Answer(r) ==
  /\ req[r].pc \in {"created", "conflict"}
  /\ req' = [req EXCEPT ![r] = Idle]
  /\ UNCHANGED <<now, keys, status, mints, suspensions>>

-----------------------------------------------------------------------------
(* The tenant, and time. *)

\* commitTenantSuspension revokes every key, in the transaction that suspends the tenant.
Suspend ==
  /\ status = "active" /\ suspensions < MaxSuspensions
  /\ suspensions' = suspensions + 1
  /\ status' = "suspended" /\ keys' = <<>> /\ req' = [r \in Requests |-> SeeGone(r)]
  /\ UNCHANGED <<now, mints>>

\* handleTenantReactivate makes a key without asking how many there are.
Reactivate ==
  /\ status = "suspended" /\ mints < MaxMints
  /\ mints' = mints + 1 /\ status' = "active"
  /\ keys' = Append(keys, [born |-> now, until |-> Never, survivor |-> FALSE])
  /\ req' = [r \in Requests |-> SeeMade(r)]
  /\ UNCHANGED <<now, suspensions>>

Tick ==
  /\ now < MaxTime /\ now' = now + 1
  /\ UNCHANGED <<keys, status, req, mints, suspensions>>

Next ==
  \/ \E r \in Requests : \/ BeginCreate(r) \/ InsertKey(r) \/ BeginRecover(r)
                         \/ InsertRecoveryKey(r) \/ RevokeOldest(r) \/ Answer(r)
  \/ \E i \in DOMAIN keys : Revoke(i)
  \/ Suspend \/ Reactivate \/ Tick

Spec == Init /\ [][Next]_vars

-----------------------------------------------------------------------------
(* Properties. *)

\* A tenant has at most MaxKeys live keys, whatever creations, recoveries, expiries and
\* reactivations meet; a key that was inserted when the tenant was suspended is not counted.
KeysCapped == Cardinality({i \in LiveKeys(now) : ~keys[i].survivor}) <= MaxKeys

\* A recovery gives up at most one live key, and one more for every key others made meanwhile; it
\* is refused only when expired keys and others' keys used up its retries, or others revoked keys.
\* That expired keys can use them up is a fault of its own: see RecoverySucceeds.
RecoveryCostsOneKey ==
  \A r \in Requests : req[r].kind = "recover" =>
    /\ req[r].spent <= 1 + req[r].others
    /\ req[r].pc = "conflict" =>
         req[r].cleared \/ req[r].wasted + req[r].others >= MaxKeys

\* recovery.go, handleKeyRecover: with a keyring full of live keys the oldest live key makes room, so
\* that a recovery "should always succeed ..., even with every key slot in use"; unless others make or
\* revoke keys meanwhile. RevokeOldest does not ask for a live key, so this is refuted.
RecoverySucceeds ==
  \A r \in Requests : req[r].kind = "recover" /\ req[r].pc = "conflict" =>
                        req[r].cleared \/ req[r].others > 0

=============================================================================
