----------------------------- MODULE ServerProofs -----------------------------
(***************************************************************************)
(* Proofs about the components that Server composes.  What they say of a   *)
(* component's specification holds of ServerSpec in the component's scene, *)
(* and in the others there is nothing to say: the last theorems of this    *)
(* module and of ArtifactsProofs.                                          *)
(***************************************************************************)
EXTENDS Server, Integers, Sequences, FiniteSets, FiniteSetTheorems, TLAPS

-----------------------------------------------------------------------------
(* One execution per idempotency key. *)

EntryType == [owner : IdemRequests \cup {Nothing}, body : Bodies \cup {Nothing}, pending : BOOLEAN, expired : BOOLEAN]

ReqType == [pc : {"idle", "look", "run", "store", "release", "wait"}, key : IdemKeys \cup {Nothing},
            body : Bodies \cup {Nothing}, on : IdemRequests \cup {Nothing}, stored : BOOLEAN]

\* A request whose entry may not have been completed: it holds the key.
Holding(r) == idemReq[r].pc \in {"run", "store"} \/ (idemReq[r].pc = "release" /\ ~idemReq[r].stored)

\* The entry of r is there, pending, until r completes or drops it.
HoldsEntry == \A r \in IdemRequests : Holding(r) => entry[idemReq[r].key].owner = r /\ entry[idemReq[r].key].pending

\* A pending entry is somebody's who will see to it.
PendingIsHeld == \A k \in IdemKeys : entry[k].owner # Nothing /\ entry[k].pending =>
                   \E r \in IdemRequests : entry[k].owner = r /\ Holding(r) /\ idemReq[r].key = k

\* Who waits does so for another request of the same key, which is still to close its channel.
WaitIsAnswered == \A q \in IdemRequests : idemReq[q].pc = "wait" =>
                    /\ idemReq[q].on \in IdemRequests \ {q} /\ idemReq[idemReq[q].on].key = idemReq[q].key
                    /\ idemReq[idemReq[q].on].pc \in {"run", "store", "release"}

IdemInv ==
  /\ entry \in [IdemKeys -> EntryType] /\ idemReq \in [IdemRequests -> ReqType]
  /\ \A r \in IdemRequests : idemReq[r].pc # "idle" => idemReq[r].key \in IdemKeys
  /\ \A r \in IdemRequests : idemReq[r].pc \in {"look", "wait", "run", "store"} => ~idemReq[r].stored
  /\ HoldsEntry /\ PendingIsHeld /\ WaitIsAnswered

\* Who goes to make room is completed, is not the key that comes, and nobody else of its tenant,
\* or of all, is older.
LEMMA RoomIsCompleted ==
  ASSUME NEW k \in IdemKeys, NEW d \in Idem!MakeRoom(k)
  PROVE  d \in IdemKeys \ {k} /\ entry[d].owner # Nothing /\ ~entry[d].pending
  BY DEF Idem!MakeRoom, Idem!Victim, Idem!Evictable, Idem!Completed, Idem!Has

\* A request that looks up its key and reserves it disturbs nobody who holds a key.
LEMMA ReserveKeeps ==
  ASSUME IdemInv, Idem!IdempotencyAssumption, NEW r \in IdemRequests, idemReq[r].pc = "look",
         entry[idemReq[r].key].owner = Nothing \/ ~entry[idemReq[r].key].pending,
         Idem!Reserve(r, idemReq[r].key, idemReq[r].body), Idem!Goto(r, "run")
  PROVE  IdemInv'
  <1> DEFINE k == idemReq[r].key
  <1> DEFINE new == [owner |-> r, body |-> idemReq[r].body, pending |-> TRUE, expired |-> FALSE]
  <1>0. /\ ~idemReq[r].stored /\ k \in IdemKeys /\ Nothing \notin IdemRequests
        /\ idemReq[r] \in ReqType /\ idemReq \in [IdemRequests -> ReqType] /\ entry \in [IdemKeys -> EntryType]
    BY DEF IdemInv, Idem!IdempotencyAssumption
  <1>1. new \in EntryType /\ Idem!NoEntry \in EntryType
    BY <1>0 DEF EntryType, ReqType, Idem!NoEntry
  <1>2. entry' = [d \in IdemKeys |-> IF d = k THEN new ELSE IF d \in Idem!MakeRoom(k) THEN Idem!NoEntry ELSE entry[d]]
    BY DEF Idem!Reserve
  <1>3. entry' \in [IdemKeys -> EntryType] /\ entry'[k] = new
    BY <1>0, <1>1, <1>2
  <1>4. \A d \in IdemKeys \ {k} : entry'[d] = entry[d] \/ (entry'[d] = Idem!NoEntry /\ ~entry[d].pending)
    BY <1>0, <1>2, RoomIsCompleted
  <1>5. /\ idemReq' \in [IdemRequests -> ReqType]
        /\ idemReq'[r].pc = "run" /\ idemReq'[r].key = k /\ ~idemReq'[r].stored
        /\ \A q \in IdemRequests \ {r} : idemReq'[q] = idemReq[q]
    BY <1>0 DEF Idem!Goto, ReqType
  <1>6. \A q \in IdemRequests \ {r} : Holding(q) => idemReq[q].key # k /\ idemReq[q].key \in IdemKeys
    BY <1>0 DEF IdemInv, HoldsEntry, Holding
  <1>7. HoldsEntry'
    BY <1>0, <1>3, <1>4, <1>5, <1>6 DEF IdemInv, HoldsEntry, Holding
  <1>8. PendingIsHeld'
    <2>1. ASSUME NEW d \in IdemKeys \ {k}, entry'[d].owner # Nothing, entry'[d].pending
          PROVE  \E q \in IdemRequests : entry'[d].owner = q /\ Holding(q)' /\ idemReq'[q].key = d
      <3>1. entry'[d] = entry[d]
        BY <1>4, <2>1 DEF Idem!NoEntry
      <3>2. PICK q \in IdemRequests : entry[d].owner = q /\ Holding(q) /\ idemReq[q].key = d
        BY <2>1, <3>1 DEF IdemInv, PendingIsHeld
      <3>3. q # r
        BY <3>2 DEF Holding
      <3> QED BY <1>5, <3>1, <3>2, <3>3 DEF Holding
    <2>2. Holding(r)' /\ idemReq'[r].key = k
      BY <1>5 DEF Holding
    <2> QED BY <1>3, <2>1, <2>2 DEF PendingIsHeld
  <1>9. WaitIsAnswered'
    BY <1>0, <1>5 DEF IdemInv, WaitIsAnswered
  <1> QED BY <1>0, <1>3, <1>5, <1>7, <1>8, <1>9 DEF IdemInv

\* A request that closes its channel wakes those that wait for it; it may drop the entry of its
\* key, if nobody else holds it, and it leaves no pending entry.
LEMMA CloseKeeps ==
  ASSUME IdemInv, Nothing \notin IdemRequests, NEW r \in IdemRequests, idemReq[r].pc = "release", Idem!Close(r),
         entry' \in [IdemKeys -> EntryType],
         \A d \in IdemKeys : entry'[d] = entry[d]
                        \/ (entry'[d].owner = Nothing /\ \A q \in IdemRequests \ {r} : Holding(q) => idemReq[q].key # d),
         \A d \in IdemKeys : entry'[d].owner = r => ~entry'[d].pending
  PROVE  IdemInv'
  <1>0. idemReq \in [IdemRequests -> ReqType] /\ entry \in [IdemKeys -> EntryType]
    BY DEF IdemInv
  <1>1. /\ idemReq'[r] = Idem!Idle
        /\ \A q \in IdemRequests \ {r} :
             IF idemReq[q].pc = "wait" /\ idemReq[q].on = r
               THEN idemReq'[q] = [idemReq[q] EXCEPT !.pc = "look", !.on = Nothing] ELSE idemReq'[q] = idemReq[q]
    BY <1>0 DEF Idem!Close
  <1>2. idemReq' \in [IdemRequests -> ReqType]
    <2>1. Idem!Idle \in ReqType
      BY DEF Idem!Idle, ReqType
    <2>2. ASSUME NEW q \in IdemRequests
          PROVE  [idemReq[q] EXCEPT !.pc = "look", !.on = Nothing] \in ReqType
      <3>1. idemReq[q] \in ReqType
        BY <1>0
      <3> QED BY <3>1 DEF ReqType
    <2> QED BY <1>0, <2>1, <2>2 DEF Idem!Close
  <1>3. ASSUME NEW q \in IdemRequests \ {r}
        PROVE  /\ idemReq'[q].key = idemReq[q].key /\ idemReq'[q].stored = idemReq[q].stored
               /\ idemReq'[q].pc = idemReq[q].pc \/ (idemReq[q].pc = "wait" /\ idemReq'[q].pc = "look")
               /\ idemReq'[q].pc = "wait" => idemReq'[q].on = idemReq[q].on /\ idemReq[q].on # r
    <2>1. idemReq[q] \in ReqType
      BY <1>0
    <2>2. CASE idemReq[q].pc = "wait" /\ idemReq[q].on = r
      <3>1. idemReq'[q] = [idemReq[q] EXCEPT !.pc = "look", !.on = Nothing]
        BY <1>1, <2>2
      <3> QED BY <2>1, <2>2, <3>1 DEF ReqType
    <2>3. CASE ~(idemReq[q].pc = "wait" /\ idemReq[q].on = r)
      BY <1>1, <2>3
    <2> QED BY <2>2, <2>3
  <1>4. idemReq'[r].pc = "idle" /\ ~Holding(r)'
    <2>1. idemReq'[r] = Idem!Idle
      BY <1>1
    <2>2. idemReq'[r].pc = "idle"
      BY <2>1 DEF Idem!Idle
    <2> QED BY <2>2 DEF Holding
  <1>5. \A q \in IdemRequests \ {r} : Holding(q)' = Holding(q)
    BY <1>3 DEF Holding
  <1>6. HoldsEntry'
    BY <1>0, <1>3, <1>4, <1>5 DEF IdemInv, HoldsEntry, Holding
  <1>7. PendingIsHeld'
    <2>1. ASSUME NEW d \in IdemKeys, entry'[d].owner # Nothing, entry'[d].pending
          PROVE  \E q \in IdemRequests : entry'[d].owner = q /\ Holding(q)' /\ idemReq'[q].key = d
      <3>1. entry'[d] = entry[d] /\ entry[d].owner # r
        BY <2>1
      <3>2. PICK q \in IdemRequests : entry[d].owner = q /\ Holding(q) /\ idemReq[q].key = d
        BY <2>1, <3>1 DEF IdemInv, PendingIsHeld
      <3> QED BY <1>3, <1>5, <3>1, <3>2
    <2> QED BY <2>1 DEF PendingIsHeld
  <1>8. WaitIsAnswered'
    BY <1>3, <1>4 DEF IdemInv, WaitIsAnswered
  <1>9. \A q \in IdemRequests : /\ idemReq'[q].pc # "idle" => idemReq'[q].key \in IdemKeys
                                /\ idemReq'[q].pc \in {"look", "wait", "run", "store"} => ~idemReq'[q].stored
    BY <1>3, <1>4 DEF IdemInv
  <1> QED BY <1>2, <1>6, <1>7, <1>8, <1>9 DEF IdemInv

\* The inductive step.
LEMMA IdemStep ==
  ASSUME IdemInv, Idem!IdempotencyAssumption, Idem!Next
  PROVE  IdemInv'
  <1>0. /\ idemReq \in [IdemRequests -> ReqType] /\ entry \in [IdemKeys -> EntryType] /\ Nothing \notin IdemRequests \cup IdemKeys
        /\ Idem!Idle \in ReqType
    BY DEF IdemInv, Idem!IdempotencyAssumption, ReqType, Idem!Idle
  <1>1. ASSUME NEW r \in IdemRequests, NEW k \in IdemKeys, NEW body \in Bodies, Idem!Arrive(r, k, body)
        PROVE  IdemInv'
    <2>1. /\ idemReq' \in [IdemRequests -> ReqType] /\ idemReq[r].pc = "idle"
          /\ idemReq'[r].pc = "look" /\ idemReq'[r].key = k /\ ~idemReq'[r].stored
          /\ \A q \in IdemRequests \ {r} : idemReq'[q] = idemReq[q]
      BY <1>0, <1>1 DEF Idem!Arrive, ReqType, Idem!Idle
    <2>2. entry' = entry
      BY <1>1 DEF Idem!Arrive
    <2>3. HoldsEntry' /\ PendingIsHeld'
      BY <1>0, <2>1, <2>2 DEF IdemInv, HoldsEntry, PendingIsHeld, Holding, EntryType
    <2>4. WaitIsAnswered'
      BY <1>0, <2>1 DEF IdemInv, WaitIsAnswered
    <2> QED BY <1>0, <2>1, <2>2, <2>3, <2>4 DEF IdemInv
  <1>2. ASSUME NEW r \in IdemRequests, Idem!Look(r)
        PROVE  IdemInv'
    <2> DEFINE k == idemReq[r].key
    <2>0. idemReq[r].pc = "look" /\ ~idemReq[r].stored /\ k \in IdemKeys
      BY <1>2 DEF Idem!Look, IdemInv
    <2>1. CASE Idem!Reserve(r, k, idemReq[r].body) /\ Idem!Goto(r, "run") /\ (~Idem!Has(k) \/ Idem!Completed(k))
      BY <2>0, <2>1, ReserveKeeps DEF Idem!Has, Idem!Completed
    <2>2. CASE UNCHANGED entry /\ idemReq' = [idemReq EXCEPT ![r] = Idem!Idle]
      <3>1. /\ idemReq' \in [IdemRequests -> ReqType] /\ idemReq'[r] = Idem!Idle
            /\ \A q \in IdemRequests \ {r} : idemReq'[q] = idemReq[q]
        BY <1>0, <2>2
      <3>2. HoldsEntry' /\ PendingIsHeld'
        BY <1>0, <2>0, <2>2, <3>1 DEF IdemInv, HoldsEntry, PendingIsHeld, Holding, EntryType, Idem!Idle
      <3>3. WaitIsAnswered'
        BY <1>0, <2>0, <3>1 DEF IdemInv, WaitIsAnswered, Idem!Idle
      <3> QED BY <1>0, <2>2, <3>1, <3>2, <3>3 DEF IdemInv, Idem!Idle
    <2>3. CASE /\ UNCHANGED entry /\ entry[k].owner # Nothing /\ entry[k].pending
               /\ idemReq' = [idemReq EXCEPT ![r].pc = "wait", ![r].on = entry[k].owner]
      <3>0. entry[k].owner \in IdemRequests
        BY <1>0, <2>0, <2>3 DEF EntryType
      <3>1. /\ idemReq' \in [IdemRequests -> ReqType] /\ idemReq'[r].pc = "wait" /\ idemReq'[r].on = entry[k].owner
            /\ idemReq'[r].key = k /\ ~idemReq'[r].stored
            /\ \A q \in IdemRequests \ {r} : idemReq'[q] = idemReq[q]
        BY <1>0, <2>0, <2>3, <3>0 DEF ReqType
      <3>2. HoldsEntry' /\ PendingIsHeld'
        BY <1>0, <2>0, <2>3, <3>1 DEF IdemInv, HoldsEntry, PendingIsHeld, Holding, EntryType
      <3>3. WaitIsAnswered'
        BY <1>0, <2>0, <2>3, <3>0, <3>1 DEF IdemInv, WaitIsAnswered, PendingIsHeld, Holding
      <3> QED BY <1>0, <2>0, <2>3, <3>1, <3>2, <3>3 DEF IdemInv
    <2> QED BY <1>2, <2>1, <2>2, <2>3 DEF Idem!Look, Idem!Has, Idem!Completed
  <1>3. ASSUME NEW r \in IdemRequests, Idem!Run(r)
        PROVE  IdemInv'
    <2>1. /\ idemReq' \in [IdemRequests -> ReqType] /\ idemReq[r].pc = "run" /\ idemReq'[r].pc \in {"store", "release"}
          /\ idemReq'[r].key = idemReq[r].key /\ idemReq'[r].stored = idemReq[r].stored
          /\ \A q \in IdemRequests \ {r} : idemReq'[q] = idemReq[q]
      BY <1>0, <1>3 DEF Idem!Run, Idem!Goto, ReqType
    <2>2. entry' = entry /\ ~idemReq[r].stored
      BY <1>3, <2>1 DEF Idem!Run, IdemInv
    <2>3. HoldsEntry' /\ PendingIsHeld'
      BY <1>0, <2>1, <2>2 DEF IdemInv, HoldsEntry, PendingIsHeld, Holding, EntryType
    <2>4. WaitIsAnswered'
      BY <1>0, <2>1 DEF IdemInv, WaitIsAnswered
    <2> QED BY <1>0, <2>1, <2>2, <2>3, <2>4 DEF IdemInv
  <1>4. ASSUME NEW r \in IdemRequests, Idem!Store(r)
        PROVE  IdemInv'
    <2> DEFINE k == idemReq[r].key
    <2>0. idemReq[r].pc = "store" /\ k \in IdemKeys /\ entry[k].owner = r /\ entry[k].pending
      BY <1>4 DEF Idem!Store, IdemInv, HoldsEntry, Holding
    <2>1. /\ idemReq' \in [IdemRequests -> ReqType] /\ idemReq'[r].pc = "release"
          /\ idemReq'[r].key = k /\ idemReq'[r].stored
          /\ \A q \in IdemRequests \ {r} : idemReq'[q] = idemReq[q]
      BY <1>0, <1>4, <2>0 DEF Idem!Store, Idem!Mine, ReqType
    <2>2. /\ entry' \in [IdemKeys -> EntryType] /\ ~entry'[k].pending
          /\ \A d \in IdemKeys \ {k} : entry'[d] = entry[d]
      <3>1. entry' = [entry EXCEPT ![k].pending = FALSE, ![k].expired = FALSE]
        BY <1>4, <2>0 DEF Idem!Store, Idem!Mine
      <3>2. [entry[k] EXCEPT !.pending = FALSE, !.expired = FALSE] \in EntryType
        BY <1>0, <2>0 DEF EntryType
      <3>3. entry' = [entry EXCEPT ![k] = [entry[k] EXCEPT !.pending = FALSE, !.expired = FALSE]]
        BY <1>0, <2>0, <3>1 DEF EntryType
      <3>4. [entry[k] EXCEPT !.pending = FALSE, !.expired = FALSE].pending = FALSE
        BY <1>0, <2>0 DEF EntryType
      <3> QED BY <1>0, <2>0, <3>2, <3>3, <3>4
    <2>3. HoldsEntry' /\ PendingIsHeld'
      BY <1>0, <2>0, <2>1, <2>2 DEF IdemInv, HoldsEntry, PendingIsHeld, Holding, EntryType
    <2>4. WaitIsAnswered'
      BY <1>0, <2>0, <2>1 DEF IdemInv, WaitIsAnswered
    <2> QED BY <1>0, <2>0, <2>1, <2>2, <2>3, <2>4 DEF IdemInv
  <1>5. ASSUME NEW r \in IdemRequests, Idem!Release(r)
        PROVE  IdemInv'
    <2> DEFINE k == idemReq[r].key
    <2>0. idemReq[r].pc = "release" /\ k \in IdemKeys
      BY <1>5 DEF Idem!Release, IdemInv
    <2>1. CASE idemReq[r].stored
      <3>1. entry' = entry
        BY <1>5, <2>1 DEF Idem!Release
      <3>2. \A d \in IdemKeys : entry[d].owner = r => ~entry[d].pending
        BY <1>0, <2>0, <2>1 DEF IdemInv, PendingIsHeld, Holding
      <3> QED BY <1>0, <1>5, <2>0, <3>1, <3>2, CloseKeeps DEF Idem!Release
    <2>2. CASE ~idemReq[r].stored
      <3>1. entry[k].owner = r /\ entry[k].pending
        BY <2>0, <2>2 DEF IdemInv, HoldsEntry, Holding
      <3>2. Idem!Drop({k})
        BY <1>5, <2>2, <3>1 DEF Idem!Release, Idem!Mine
      <3>3. entry' = [entry EXCEPT ![k] = Idem!NoEntry]
        BY <1>0, <2>0, <3>2 DEF Idem!Drop
      <3>4. Idem!NoEntry \in EntryType /\ Idem!NoEntry.owner = Nothing
        BY DEF Idem!NoEntry, EntryType
      <3>5. /\ entry' \in [IdemKeys -> EntryType] /\ entry'[k].owner = Nothing
            /\ \A d \in IdemKeys \ {k} : entry'[d] = entry[d]
        BY <1>0, <2>0, <3>3, <3>4
      <3>6. \A d \in IdemKeys \ {k} : entry[d].owner = r => ~entry[d].pending
        BY <1>0, <2>0 DEF IdemInv, PendingIsHeld
      <3>7. \A q \in IdemRequests \ {r} : Holding(q) => idemReq[q].key # k
        BY <3>1 DEF IdemInv, HoldsEntry
      <3> QED BY <1>0, <1>5, <2>0, <3>5, <3>6, <3>7, CloseKeeps DEF Idem!Release
    <2> QED BY <2>1, <2>2
  <1>6. ASSUME NEW r \in IdemRequests, Idem!GiveUp(r)
        PROVE  IdemInv'
    <2>1. /\ idemReq' \in [IdemRequests -> ReqType] /\ idemReq[r].pc = "wait" /\ idemReq'[r] = Idem!Idle
          /\ \A q \in IdemRequests \ {r} : idemReq'[q] = idemReq[q]
      BY <1>0, <1>6 DEF Idem!GiveUp
    <2>2. entry' = entry
      BY <1>6 DEF Idem!GiveUp
    <2>3. HoldsEntry' /\ PendingIsHeld'
      BY <1>0, <2>1, <2>2 DEF IdemInv, HoldsEntry, PendingIsHeld, Holding, EntryType, Idem!Idle
    <2>4. WaitIsAnswered'
      BY <1>0, <2>1 DEF IdemInv, WaitIsAnswered, Idem!Idle
    <2> QED BY <1>0, <2>1, <2>2, <2>3, <2>4 DEF IdemInv, Idem!Idle
  <1>7. ASSUME NEW k \in IdemKeys, Idem!Expire(k)
        PROVE  IdemInv'
    <2>1. /\ idemReq' = idemReq /\ entry' \in [IdemKeys -> EntryType]
          /\ \A d \in IdemKeys : entry'[d].owner = entry[d].owner /\ entry'[d].pending = entry[d].pending
      BY <1>0, <1>7 DEF Idem!Expire, EntryType
    <2>2. HoldsEntry' /\ PendingIsHeld' /\ WaitIsAnswered'
      BY <2>1 DEF IdemInv, HoldsEntry, PendingIsHeld, WaitIsAnswered, Holding
    <2> QED BY <2>1, <2>2 DEF IdemInv
  <1>8. CASE Idem!Sweep
    <2>1. /\ idemReq' = idemReq /\ entry' \in [IdemKeys -> EntryType]
          /\ \A d \in IdemKeys : entry'[d] = entry[d] \/ (~entry[d].pending /\ entry'[d] = Idem!NoEntry)
      BY <1>0, <1>8 DEF Idem!Sweep, Idem!Drop, Idem!Completed, Idem!NoEntry, EntryType
    <2>2. HoldsEntry' /\ PendingIsHeld' /\ WaitIsAnswered'
      BY <2>1 DEF IdemInv, HoldsEntry, PendingIsHeld, WaitIsAnswered, Holding, Idem!NoEntry
    <2> QED BY <2>1, <2>2 DEF IdemInv
  <1> QED BY <1>1, <1>2, <1>3, <1>4, <1>5, <1>6, <1>7, <1>8 DEF Idem!Next, Idem!Serve

\* The invariant of the idempotency entries, whatever handlers answer, however full the store is
\* and whenever entries expire.
LEMMA IdemInductive ==
  /\ Idem!Init => IdemInv
  /\ IdemInv /\ [Idem!Next]_idemVars => IdemInv'
  <1>1. Idem!Init => IdemInv
    BY DEF Idem!Init, IdemInv, HoldsEntry, PendingIsHeld, WaitIsAnswered, Holding, EntryType, ReqType, Idem!NoEntry,
       Idem!Idle
  <1>2. IdemInv /\ UNCHANGED idemVars => IdemInv'
    BY DEF IdemInv, HoldsEntry, PendingIsHeld, WaitIsAnswered, Holding, idemVars
  <1> QED BY <1>1, <1>2, IdemStep, ServerAssumption

\* It holds in its scene.
THEOREM IdemInvHolds == ServerSpec => [](scene = "idempotency" => IdemInv)
  <1>1. ServerInit => (scene = "idempotency" => IdemInv)
    BY IdemInductive DEF ServerInit
  <1>2. (scene = "idempotency" => IdemInv) /\ [ServerNext]_serverVars => (scene = "idempotency" => IdemInv)'
    BY IdemInductive DEF ServerNext, serverVars
  <1> QED BY <1>1, <1>2, PTL DEF ServerSpec

\* At most one handler runs for a key: a retry never starts a second, concurrent execution,
\* however long the first one takes.
THEOREM RetriesWait == ServerSpec => []OneRunPerKey
  <1>1. (scene = "idempotency" => IdemInv) => OneRunPerKey
    BY DEF OneRunPerKey, IdemInv, HoldsEntry, Holding, Idem!OneRunPerKey, Idem!Running
  <1> QED BY <1>1, IdemInvHolds, PTL

\* No pending entry is orphaned, and no request waits for one that has left.
THEOREM NobodyWaitsInVain == ServerSpec => []RunnersKnown
  <1>1. ASSUME IdemInv
        PROVE  Idem!RunnersKnown
    <2>1. Idem!PendingHasRunner
      <3>1. ASSUME NEW k \in IdemKeys, Idem!Has(k), entry[k].pending
            PROVE  /\ idemReq[entry[k].owner].key = k /\ idemReq[entry[k].owner].pc \in {"run", "store", "release"}
                   /\ ~idemReq[entry[k].owner].stored
        <4>1. entry[k].owner \in IdemRequests /\ Holding(entry[k].owner) /\ idemReq[entry[k].owner].key = k
          BY <1>1, <3>1 DEF IdemInv, PendingIsHeld, EntryType, Idem!Has
        <4> QED BY <1>1, <4>1 DEF IdemInv, Holding
      <3> QED BY <3>1 DEF Idem!PendingHasRunner
    <2>2. Idem!WaiterHasRunner
      BY <1>1 DEF IdemInv, WaitIsAnswered, Idem!WaiterHasRunner
    <2> QED BY <2>1, <2>2 DEF Idem!RunnersKnown
  <1>2. (scene = "idempotency" => IdemInv) => RunnersKnown
    BY <1>1 DEF RunnersKnown
  <1> QED BY <1>2, IdemInvHolds, PTL

\* The module Idempotency has its own copy of the operators on finite sets.
LEMMA IdemFinite == ASSUME NEW S PROVE Idem!IsFiniteSet(S) <=> IsFiniteSet(S)
  BY DEF Idem!IsFiniteSet, IsFiniteSet

\* The same of cardinality.
LEMMA IdemCardinality == ASSUME NEW S PROVE Idem!Cardinality(S) = Cardinality(S)
  BY DEF Idem!Cardinality, Cardinality

\* A victim is the oldest completed entry of those it is chosen from, which reach their cap.
LEMMA VictimIsOldest ==
  ASSUME NEW among, NEW cap, NEW k \in Idem!Victim(among, cap)
  PROVE  /\ k \in among /\ Idem!Cardinality({c \in among : Idem!Has(c)}) >= cap
         /\ \A c \in among \ {k} : Idem!Evictable(c) => Idem!Older(k, c)
  <1>1. CASE Idem!Cardinality({c \in among : Idem!Has(c)}) >= cap
    BY <1>1 DEF Idem!Victim
  <1>2. CASE ~(Idem!Cardinality({c \in among : Idem!Has(c)}) >= cap)
    <2>1. Idem!Victim(among, cap) = {}
      BY <1>2, Zenon DEF Idem!Victim
    <2> QED BY <2>1
  <1> QED BY <1>1, <1>2

\* Who makes room for key d is the oldest completed entry of d's tenant or, in a store that is
\* still full, of anybody; the cap was reached.
LEMMA RoomIsNeeded ==
  ASSUME Idem!IdempotencyAssumption, NEW d \in IdemKeys, NEW k \in Idem!MakeRoom(d)
  PROVE  LET held == {c \in IdemKeys \ {d} : Idem!Has(c)}
             ofTenant == {c \in held : IdemTenantOf[c] = IdemTenantOf[k]}
         IN /\ \/ IdemTenantOf[d] = IdemTenantOf[k] /\ Idem!Cardinality(ofTenant) >= TenantCap
               \/ Idem!Cardinality(held) >= GlobalCap
            /\ \A c \in ofTenant \ {k} : Idem!Completed(c) => c \in Idem!MakeRoom(d) \/ Idem!Older(k, c)
  <1> DEFINE held == {c \in IdemKeys \ {d} : Idem!Has(c)}
  <1> DEFINE ofTenant == {c \in held : IdemTenantOf[c] = IdemTenantOf[k]}
  <1> DEFINE tenants == {c \in IdemKeys \ {d} : IdemTenantOf[c] = IdemTenantOf[d]}
  <1> DEFINE mine == Idem!Victim(tenants, TenantCap)
  <1>0. /\ Idem!MakeRoom(d) = mine \cup Idem!Victim((IdemKeys \ {d}) \ mine, GlobalCap)
        /\ IsFiniteSet(IdemKeys) /\ GlobalCap \in Nat
    <2>1. Idem!MakeRoom(d) = mine \cup Idem!Victim((IdemKeys \ {d}) \ mine, GlobalCap)
      BY Zenon DEF Idem!MakeRoom
    <2>2. IsFiniteSet(IdemKeys) /\ GlobalCap \in Nat
      BY IdemFinite DEF Idem!IdempotencyAssumption
    <2> QED BY <2>1, <2>2
  <1>1. CASE k \in mine
    <2>1. /\ k \in tenants /\ Idem!Cardinality({c \in tenants : Idem!Has(c)}) >= TenantCap
          /\ \A c \in tenants \ {k} : Idem!Evictable(c) => Idem!Older(k, c)
      <3> HIDE DEF tenants
      <3> QED BY <1>1, VictimIsOldest
    <2>2. ofTenant = {c \in tenants : Idem!Has(c)}
      BY <2>1
    <2>3. Idem!Cardinality(ofTenant) >= TenantCap /\ IdemTenantOf[d] = IdemTenantOf[k]
      BY <2>1, <2>2
    <2>4. \A c \in ofTenant \ {k} : Idem!Completed(c) => Idem!Older(k, c)
      BY <2>1, <2>2 DEF Idem!Evictable
    <2> QED BY <2>3, <2>4
  <1>2. CASE k \notin mine
    <2> DEFINE rest == (IdemKeys \ {d}) \ mine
    <2>1. /\ Idem!Cardinality({c \in rest : Idem!Has(c)}) >= GlobalCap
          /\ \A c \in rest \ {k} : Idem!Evictable(c) => Idem!Older(k, c)
      <3> HIDE DEF rest, mine
      <3>1. k \in Idem!Victim((IdemKeys \ {d}) \ mine, GlobalCap)
        BY <1>0, <1>2
      <3>2. k \in Idem!Victim(rest, GlobalCap)
        BY <3>1 DEF rest
      <3> QED BY <3>2, VictimIsOldest
    <2>2. IsFiniteSet(held) /\ {c \in rest : Idem!Has(c)} \subseteq held
      <3>1. held \subseteq IdemKeys /\ {c \in rest : Idem!Has(c)} \subseteq held
        OBVIOUS
      <3> QED BY <1>0, <3>1, FS_Subset
    <2>3. Idem!Cardinality(held) >= GlobalCap
      <3> HIDE DEF held, rest
      <3>1. /\ Idem!Cardinality(held) \in Nat /\ Idem!Cardinality({c \in rest : Idem!Has(c)}) \in Nat
            /\ Idem!Cardinality({c \in rest : Idem!Has(c)}) <= Idem!Cardinality(held)
        BY <2>2, FS_Subset, FS_CardinalityType, IdemCardinality
      <3> QED BY <1>0, <2>1, <3>1
    <2>4. \A c \in ofTenant \ {k} : Idem!Completed(c) => c \in mine \/ Idem!Older(k, c)
      BY <2>1 DEF Idem!Evictable
    <2> QED BY <1>0, <2>3, <2>4
  <1> QED BY <1>1, <1>2

\* A stored response is there for retries until it expires, or goes to make room for a key, and
\* then no older response of its tenant is kept in its place.
THEOREM ResponsesStay == ServerSpec => StoredUntilExpiry
  <1>1. ASSUME IdemInv, Idem!IdempotencyAssumption, Idem!Next
        PROVE  Idem!KeepsStored
    <2> SUFFICES ASSUME NEW k \in IdemKeys, Idem!Completed(k), ~entry[k].expired, ~Idem!Has(k)'
                 PROVE  \E d \in IdemKeys \ {k} :
                          LET held == {c \in IdemKeys \ {d} : Idem!Has(c)}
                              ofTenant == {c \in held : IdemTenantOf[c] = IdemTenantOf[k]}
                          IN /\ Idem!Reserved(d)
                             /\ \/ IdemTenantOf[d] = IdemTenantOf[k] /\ Idem!Cardinality(ofTenant) >= TenantCap
                                \/ Idem!Cardinality(held) >= GlobalCap
                             /\ \A c \in ofTenant \ {k} : Idem!Completed(c) /\ Idem!Has(c)' => Idem!Older(k, c)
      BY Zenon DEF Idem!KeepsStored
    <2>0. /\ entry \in [IdemKeys -> EntryType] /\ entry[k].owner # Nothing /\ ~entry[k].pending
          /\ entry'[k].owner = Nothing /\ Nothing \notin IdemRequests
      BY <1>1 DEF IdemInv, Idem!Completed, Idem!Has, Idem!IdempotencyAssumption
    <2>1. ASSUME NEW r \in IdemRequests, Idem!Look(r)
          PROVE  Idem!Reserve(r, idemReq[r].key, idemReq[r].body) /\ idemReq[r].key \in IdemKeys
                 /\ (~Idem!Has(idemReq[r].key) \/ Idem!Completed(idemReq[r].key))
      BY <1>1, <2>0, <2>1 DEF Idem!Look, IdemInv
    <2>2. ASSUME NEW r \in IdemRequests, Idem!Store(r) \/ Idem!Release(r)
          PROVE  FALSE
      <3>1. Holding(r) => idemReq[r].key \in IdemKeys /\ entry[idemReq[r].key].owner = r /\ entry[idemReq[r].key].pending
        BY <1>1 DEF IdemInv, HoldsEntry, Holding
      <3>2. CASE Idem!Store(r)
        <4>1. entry' = [entry EXCEPT ![idemReq[r].key].pending = FALSE, ![idemReq[r].key].expired = FALSE]
              /\ idemReq[r].key \in IdemKeys /\ k # idemReq[r].key
          BY <2>0, <3>1, <3>2 DEF Idem!Store, Idem!Mine, Holding
        <4> QED BY <2>0, <4>1
      <3>3. CASE Idem!Release(r)
        <4>1. \/ entry' = entry
              \/ Holding(r) /\ entry' = [d \in IdemKeys |-> IF d \in {idemReq[r].key} THEN Idem!NoEntry ELSE entry[d]]
          BY <3>3 DEF Idem!Release, Idem!Drop, Holding
        <4> QED BY <2>0, <3>1, <4>1
      <3> QED BY <2>2, <3>2, <3>3
    <2>3. PICK r \in IdemRequests : Idem!Look(r)
      <3>1. ASSUME NEW c \in IdemKeys, Idem!Expire(c)
            PROVE  FALSE
        <4>1. entry' = [entry EXCEPT ![c] = [entry[c] EXCEPT !.expired = TRUE]]
          BY <2>0, <3>1 DEF Idem!Expire, EntryType
        <4>2. [entry[c] EXCEPT !.expired = TRUE].owner = entry[c].owner
          BY <2>0 DEF EntryType
        <4> QED BY <2>0, <4>1, <4>2
      <3>2. ~Idem!Sweep
        BY <2>0 DEF Idem!Sweep, Idem!Drop
      <3>3. entry' # entry
        BY <2>0
      <3> QED BY <1>1, <2>2, <3>1, <3>2, <3>3 DEF Idem!Next, Idem!Serve, Idem!Arrive, Idem!Run, Idem!GiveUp
    <2> DEFINE d == idemReq[r].key
    <2>4. /\ Idem!Reserve(r, d, idemReq[r].body) /\ d \in IdemKeys /\ (entry[d].owner = Nothing \/ ~entry[d].pending)
      BY <2>1, <2>3 DEF Idem!Has, Idem!Completed
    <2>5. entry' = [c \in IdemKeys |-> IF c = d THEN [owner |-> r, body |-> idemReq[r].body, pending |-> TRUE, expired |-> FALSE]
                                  ELSE IF c \in Idem!MakeRoom(d) THEN Idem!NoEntry ELSE entry[c]]
      BY <2>4 DEF Idem!Reserve
    <2>6. entry'[d].owner = r /\ entry'[d].pending
      BY <2>4, <2>5
    <2>7. k # d /\ k \in Idem!MakeRoom(d)
      BY <2>0, <2>5, <2>6
    <2>8. Idem!Reserved(d)
      BY <2>0, <2>4, <2>6 DEF Idem!Reserved
    <2>9. \A c \in IdemKeys \ {d} : Idem!Has(c)' => c \notin Idem!MakeRoom(d)
      BY <2>5 DEF Idem!Has, Idem!NoEntry
    <2> HIDE DEF d
    <2> QED BY <1>1, <2>4, <2>7, <2>8, <2>9, RoomIsNeeded
  <1>2. (scene = "idempotency" => IdemInv) /\ [ServerNext]_serverVars
        => [scene = "idempotency" => Idem!KeepsStored]_idemVars
    BY <1>1, ServerAssumption DEF ServerNext, serverVars
  <1> QED BY <1>2, IdemInvHolds, PTL DEF ServerSpec, StoredUntilExpiry

-----------------------------------------------------------------------------
(* Rotation of the master key. *)


Column == Rotation!Column
None == "none"

\* A database whose secrets and hash key are under one key.
Good == {d \in Rotation!Db : Rotation!Coherent(d)}

TxType == [pc : 1..(Len(Columns) + 2), old : MasterKeys, new : MasterKeys, dry : BOOLEAN, errors : BOOLEAN, db : Rotation!Db]

\* Until there is a hash key nothing is encrypted, and the master key is the first one.
Unseeded == db.hash = Rotation!NoSecret => file.master = FirstKey /\ \A c \in Column : db.secret[c] = None

\* The server has the key that everything is under.
ServerFits == Rotation!Up => /\ tx = Rotation!NoTx /\ server.key \in MasterKeys /\ server.hash = FirstKey
                            /\ db.hash.under = server.key
                            /\ \A c \in Column : db.secret[c] \in {None, server.key}

\* A rotation has done the columns it has passed, or has counted an error.
TxFits == tx # Rotation!NoTx =>
  /\ tx \in TxType
  /\ db.hash = Rotation!NoSecret => tx.old = FirstKey
  /\ tx.pc <= Len(Columns) + 1 => tx.db.hash = db.hash
  /\ tx.pc = Len(Columns) + 2 /\ ~tx.dry => tx.db.hash = [under |-> tx.new, holds |-> FirstKey]
  /\ ~tx.dry /\ ~tx.errors => \A i \in 1..Len(Columns) : i < tx.pc => tx.db.secret[Columns[i]] \in {None, tx.new}

RotInv ==
  /\ db \in Good /\ backups \in Seq(Good) /\ dump \in Seq(Good)
  /\ file \in [master : MasterKeys \cup {None}, fresh : MasterKeys \cup {None}, old : MasterKeys \cup {None}]
  /\ Unseeded /\ ServerFits /\ TxFits

\* Nothing but the database, the server, the rotation, the files and the copies matters.
LEMMA ColumnsAre ==
  ASSUME Rotation!KeyRotationAssumption
  PROVE  /\ Len(Columns) \in Nat /\ Column = {Columns[i] : i \in 1..Len(Columns)}
         /\ FirstKey \in MasterKeys /\ None \notin MasterKeys
  BY DEF Rotation!KeyRotationAssumption, Column, Rotation!Column, None

\* What is under one key.
LEMMA GoodIs ==
  ASSUME NEW d
  PROVE  d \in Good <=> /\ d \in Rotation!Db
                        /\ d.hash # Rotation!NoSecret => d.hash.holds = FirstKey
                        /\ \E k \in MasterKeys : \A c \in Column : d.secret[c] \in {None, k} /\ d.hash.under \in {None, k}
  BY DEF Good, Rotation!Coherent, Column, Rotation!None, None

\* The start of the server finds everything under its master key, or is refused.
LEMMA StartKeeps ==
  ASSUME RotInv, Rotation!KeyRotationAssumption, Rotation!Start
  PROVE  RotInv'
  <1>0. /\ db \in Rotation!Db /\ file.master \in MasterKeys /\ FirstKey \in MasterKeys /\ None \notin MasterKeys
        /\ tx = Rotation!NoTx /\ UNCHANGED <<tx, file, dump, backups>>
    BY ColumnsAre, GoodIs DEF RotInv, Rotation!Start, Rotation!None, None
  <1> DEFINE master == file.master
  <1> DEFINE hash == IF db.hash = Rotation!NoSecret THEN [under |-> master, holds |-> master] ELSE db.hash
  <1>1. /\ hash.under = master /\ db' = [db EXCEPT !.hash = hash]
        /\ server' = [key |-> master, hash |-> hash.holds]
    BY DEF Rotation!Start
  <1>2. hash \in [under : MasterKeys \cup {None}, holds : MasterKeys \cup {None}] /\ hash.holds = FirstKey
    BY <1>0, GoodIs DEF RotInv, Unseeded, Rotation!Db, Rotation!None, None
  <1>3. db' \in Rotation!Db /\ db'.hash = hash /\ db'.secret = db.secret
    BY <1>0, <1>1, <1>2 DEF Rotation!Db, Rotation!None, None
  <1>4. \A c \in Column : db.secret[c] \in {None, master}
    <2>1. CASE db.hash = Rotation!NoSecret
      BY <2>1 DEF RotInv, Unseeded
    <2>2. CASE db.hash # Rotation!NoSecret
      <3>1. PICK k \in MasterKeys : \A c \in Column : db.secret[c] \in {None, k} /\ db.hash.under \in {None, k}
        BY GoodIs DEF RotInv
      <3>2. db.hash.under = master
        BY <1>1, <2>2
      <3> QED BY <1>0, <3>1, <3>2
    <2> QED BY <2>1, <2>2
  <1> HIDE DEF hash
  <1>5. db' \in Good
    BY <1>0, <1>1, <1>2, <1>3, <1>4, GoodIs
  <1>6. Unseeded'
    BY <1>0, <1>1, <1>3 DEF Unseeded, Rotation!NoSecret, Rotation!None, None
  <1>7. ServerFits'
    BY <1>0, <1>1, <1>2, <1>3, <1>4 DEF ServerFits
  <1>8. TxFits'
    BY <1>0 DEF TxFits
  <1> QED BY <1>0, <1>5, <1>6, <1>7, <1>8 DEF RotInv

\* A rotation takes the columns one by one, then the hash key, and commits all or nothing.
LEMMA RotationKeeps ==
  ASSUME RotInv, Rotation!KeyRotationAssumption, tx # Rotation!NoTx, Rotation!RotateKeys
  PROVE  RotInv'
  <1>0. /\ tx \in TxType /\ ~Rotation!Up /\ Len(Columns) \in Nat /\ db \in Rotation!Db
        /\ FirstKey \in MasterKeys /\ None \notin MasterKeys
        /\ Column = {Columns[i] : i \in 1..Len(Columns)}
    BY ColumnsAre, GoodIs DEF RotInv, TxFits, ServerFits
  <1>1. UNCHANGED <<file, server, dump, backups>>
    BY DEF Rotation!RotateKeys, Rotation!RotateColumn, Rotation!RotateHashKey, Rotation!Commit, Rotation!Rollback
  <1>2. ServerFits'
    BY <1>0, <1>1 DEF ServerFits, Rotation!Up
  <1>3. CASE Rotation!RotateColumn
    <2> DEFINE c == Columns[tx.pc]
    <2> DEFINE old == tx.db.secret[c]
    <2> DEFINE value == IF old = tx.old /\ ~tx.dry THEN tx.new ELSE old
    <2>0. /\ tx.pc \in 1..Len(Columns) /\ c \in Column /\ db' = db
          /\ tx.db \in Rotation!Db /\ tx.db.secret \in [Column -> MasterKeys \cup {None}]
      BY <1>0, <1>3 DEF Rotation!RotateColumn, TxType, Rotation!Db, Column, Rotation!None, None
    <2>1. tx' = [tx EXCEPT !.pc = tx.pc + 1, !.errors = tx.errors \/ old \notin {None, tx.old},
                           !.db = [tx.db EXCEPT !.secret = [tx.db.secret EXCEPT ![c] = value]]]
      BY <1>0, <1>3 DEF Rotation!RotateColumn, TxType, Rotation!Db, Rotation!None, None
    <2>2. value \in MasterKeys \cup {None} /\ (~tx.dry /\ old \in {None, tx.old} => value \in {None, tx.new})
      BY <1>0, <2>0 DEF TxType
    <2> HIDE DEF value, old
    <2>3. [tx.db EXCEPT !.secret = [tx.db.secret EXCEPT ![c] = value]] \in Rotation!Db
      BY <2>0, <2>2 DEF Rotation!Db, Column, Rotation!None, None
    <2>4. /\ tx' \in TxType /\ tx'.pc = tx.pc + 1 /\ tx'.old = tx.old /\ tx'.new = tx.new /\ tx'.dry = tx.dry
          /\ tx'.errors = (tx.errors \/ old \notin {None, tx.old})
          /\ tx'.db = [tx.db EXCEPT !.secret = [tx.db.secret EXCEPT ![c] = value]]
      <3> DEFINE failed == tx.errors \/ old \notin {None, tx.old}
      <3> DEFINE data == [tx.db EXCEPT !.secret = [tx.db.secret EXCEPT ![c] = value]]
      <3>1. failed \in BOOLEAN
        BY <1>0 DEF TxType
      <3>2. tx.pc + 1 \in 1..(Len(Columns) + 2) /\ data \in Rotation!Db
        BY <1>0, <2>0, <2>3
      <3>3. tx' = [tx EXCEPT !.pc = tx.pc + 1, !.errors = failed, !.db = data]
        BY <2>1
      <3> HIDE DEF failed, data
      <3>4. /\ tx' \in TxType /\ tx'.pc = tx.pc + 1 /\ tx'.old = tx.old /\ tx'.new = tx.new /\ tx'.dry = tx.dry
            /\ tx'.errors = failed /\ tx'.db = data
        BY <1>0, <3>1, <3>2, <3>3 DEF TxType
      <3> QED BY <3>4 DEF failed, data
    <2>5. /\ tx'.db.hash = tx.db.hash
          /\ tx'.db.secret = [tx.db.secret EXCEPT ![c] = value]
      BY <2>0, <2>4 DEF Rotation!Db
    <2>6. ASSUME ~tx'.dry, ~tx'.errors, NEW i \in 1..Len(Columns), i < tx'.pc
          PROVE  tx'.db.secret[Columns[i]] \in {None, tx'.new}
      <3>1. CASE Columns[i] = c
        BY <2>0, <2>2, <2>4, <2>5, <2>6, <3>1
      <3>2. CASE Columns[i] # c
        <4>1. i < tx.pc /\ Columns[i] \in Column
          BY <1>0, <2>0, <2>4, <2>6, <3>2 DEF TxType
        <4>2. tx.db.secret[Columns[i]] \in {None, tx.new}
          BY <2>4, <2>6, <4>1 DEF RotInv, TxFits
        <4> QED BY <2>0, <2>4, <2>5, <3>2, <4>1, <4>2
      <3> QED BY <3>1, <3>2
    <2>7. TxFits'
      BY <1>0, <2>0, <2>4, <2>5, <2>6 DEF RotInv, TxFits
    <2> QED BY <1>1, <1>2, <2>0, <2>7 DEF RotInv, Unseeded
  <1>4. CASE Rotation!RotateHashKey
    <2> DEFINE hash == IF tx.dry THEN tx.db.hash
                       ELSE [under |-> tx.new,
                             holds |-> IF tx.db.hash = Rotation!NoSecret THEN tx.old ELSE tx.db.hash.holds]
    <2>0. /\ tx.pc = Len(Columns) + 1 /\ db' = db /\ tx.db \in Rotation!Db
          /\ tx' = [tx EXCEPT !.pc = tx.pc + 1, !.db = [tx.db EXCEPT !.hash = hash]]
      BY <1>0, <1>4 DEF Rotation!RotateHashKey, TxType, Rotation!Db, Rotation!None, None
    <2>1. tx.db.hash = db.hash /\ (db.hash = Rotation!NoSecret => tx.old = FirstKey)
      BY <1>0, <2>0 DEF RotInv, TxFits
    <2>2. /\ hash \in [under : MasterKeys \cup {None}, holds : MasterKeys \cup {None}]
          /\ ~tx.dry => hash = [under |-> tx.new, holds |-> FirstKey]
      BY <1>0, <2>0, <2>1, GoodIs DEF RotInv, TxType, Rotation!Db, Rotation!None, None
    <2> HIDE DEF hash
    <2>3. /\ [tx.db EXCEPT !.hash = hash] \in Rotation!Db
          /\ [tx.db EXCEPT !.hash = hash].secret = tx.db.secret /\ [tx.db EXCEPT !.hash = hash].hash = hash
      BY <2>0, <2>2 DEF Rotation!Db, Rotation!None, None
    <2>4. /\ tx' \in TxType /\ tx'.pc = Len(Columns) + 2 /\ tx'.old = tx.old /\ tx'.new = tx.new
          /\ tx'.dry = tx.dry /\ tx'.errors = tx.errors /\ tx'.db.secret = tx.db.secret /\ tx'.db.hash = hash
      <3> DEFINE data == [tx.db EXCEPT !.hash = hash]
      <3>1. tx.pc + 1 \in 1..(Len(Columns) + 2) /\ data \in Rotation!Db
        BY <1>0, <2>0, <2>3
      <3>2. tx' = [tx EXCEPT !.pc = tx.pc + 1, !.db = data]
        BY <2>0
      <3> HIDE DEF data
      <3>3. /\ tx' \in TxType /\ tx'.pc = tx.pc + 1 /\ tx'.old = tx.old /\ tx'.new = tx.new
            /\ tx'.dry = tx.dry /\ tx'.errors = tx.errors /\ tx'.db = data
        BY <1>0, <3>1, <3>2 DEF TxType
      <3>4. data.secret = tx.db.secret /\ data.hash = hash
        BY <2>3 DEF data
      <3>5. tx.pc + 1 = Len(Columns) + 2
        BY <1>0, <2>0
      <3> QED BY <3>3, <3>4, <3>5
    <2>5. TxFits'
      BY <1>0, <2>0, <2>1, <2>2, <2>4 DEF RotInv, TxFits
    <2> QED BY <1>1, <1>2, <2>0, <2>5 DEF RotInv, Unseeded
  <1>5. CASE Rotation!Commit
    <2>1. /\ db' = tx.db /\ tx' = Rotation!NoTx /\ tx.pc = Len(Columns) + 2 /\ ~tx.errors /\ ~tx.dry
      BY <1>5 DEF Rotation!Commit
    <2>2. /\ tx.db.hash = [under |-> tx.new, holds |-> FirstKey] /\ tx.new \in MasterKeys /\ tx.db \in Rotation!Db
          /\ \A c \in Column : tx.db.secret[c] \in {None, tx.new}
      BY <1>0, <2>1 DEF RotInv, TxFits, TxType
    <2>3. db' \in Good
      BY <1>0, <2>1, <2>2, GoodIs
    <2>4. db'.hash # Rotation!NoSecret
      BY <1>0, <2>1, <2>2 DEF Rotation!NoSecret, Rotation!None, None
    <2> QED BY <1>1, <1>2, <2>1, <2>3, <2>4 DEF RotInv, Unseeded, TxFits
  <1>6. CASE Rotation!Rollback
    BY <1>1, <1>2, <1>6 DEF Rotation!Rollback, RotInv, Unseeded, TxFits
  <1> QED BY <1>3, <1>4, <1>5, <1>6 DEF Rotation!RotateKeys

\* The inductive step.
LEMMA RotStep ==
  ASSUME RotInv, Rotation!KeyRotationAssumption, Rotation!Next
  PROVE  RotInv'
  <1>0. /\ db \in Rotation!Db /\ FirstKey \in MasterKeys /\ None \notin MasterKeys
    BY ColumnsAre, GoodIs DEF RotInv
  <1>1. CASE Rotation!Stop
    BY <1>1 DEF Rotation!Stop, RotInv, Unseeded, ServerFits, TxFits, Rotation!Up
  <1>2. ASSUME NEW c \in Column, Rotation!WriteSecret(c)
        PROVE  RotInv'
    <2>1. PICK k \in {server.key, None} : db' = [db EXCEPT !.secret[c] = k]
      BY <1>2 DEF Rotation!WriteSecret, Rotation!None, None
    <2>2. /\ Rotation!Up /\ server.key \in MasterKeys /\ tx = Rotation!NoTx /\ db.hash.under = server.key
          /\ \A d \in Column : db.secret[d] \in {None, server.key}
          /\ UNCHANGED <<tx, file, server, dump, backups>>
      BY <1>2 DEF Rotation!WriteSecret, RotInv, ServerFits
    <2>3. db' \in Rotation!Db /\ db'.hash = db.hash /\ db'.secret = [db.secret EXCEPT ![c] = k]
      BY <1>0, <2>1, <2>2 DEF Rotation!Db, Rotation!None, None
    <2>4. \A d \in Column : db'.secret[d] \in {None, server.key}
      BY <1>0, <2>1, <2>2, <2>3 DEF Rotation!Db, Column
    <2>5. db' \in Good
      BY <2>2, <2>3, <2>4, GoodIs DEF RotInv
    <2>6. db.hash # Rotation!NoSecret
      BY <1>0, <2>2 DEF Rotation!NoSecret, Rotation!None, None
    <2> QED BY <2>2, <2>3, <2>4, <2>5, <2>6 DEF RotInv, Unseeded, ServerFits, TxFits
  <1>3. ASSUME NEW dry \in BOOLEAN, Rotation!BeginRotation(dry)
        PROVE  RotInv'
    <2>1. PICK old \in Rotation!KeyFiles, new \in Rotation!KeyFiles :
             /\ db.hash = Rotation!NoSecret => old = FirstKey
             /\ tx' = [pc |-> 1, old |-> old, new |-> new, dry |-> dry, errors |-> FALSE, db |-> db]
      BY <1>3 DEF Rotation!BeginRotation
    <2>2. old \in MasterKeys /\ new \in MasterKeys
      BY <2>1 DEF Rotation!KeyFiles, RotInv, Rotation!None, None
    <2>3. Len(Columns) \in Nat
      BY ColumnsAre
    <2>4. tx' \in TxType
      BY <1>0, <2>1, <2>2, <2>3 DEF TxType
    <2>5. ~Rotation!Up /\ UNCHANGED <<db, file, server, dump, backups>>
      BY <1>3 DEF Rotation!BeginRotation
    <2>6. TxFits'
      BY <2>1, <2>3, <2>4, <2>5 DEF TxFits
    <2> QED BY <2>5, <2>6 DEF RotInv, Unseeded, ServerFits, Rotation!Up
  <1>4. CASE Rotation!GenerateKey \/ Rotation!MoveOldKey \/ Rotation!MoveNewKey
    <2>1. UNCHANGED <<db, tx, server, dump, backups>>
      BY <1>4 DEF Rotation!GenerateKey, Rotation!MoveOldKey, Rotation!MoveNewKey
    <2>2. file' \in [master : MasterKeys \cup {None}, fresh : MasterKeys \cup {None}, old : MasterKeys \cup {None}]
      BY <1>4 DEF Rotation!GenerateKey, Rotation!MoveOldKey, Rotation!MoveNewKey, RotInv, Rotation!None, None
    <2>3. db.hash = Rotation!NoSecret => file'.master = file.master
      <3>1. CASE Rotation!GenerateKey
        BY <3>1 DEF Rotation!GenerateKey, RotInv
      <3>2. CASE Rotation!MoveOldKey
        BY <3>2 DEF Rotation!MoveOldKey, Rotation!NoSecret
      <3>3. CASE Rotation!MoveNewKey
        BY <1>0, <3>3 DEF Rotation!MoveNewKey, RotInv, Unseeded, Rotation!None, None
      <3> QED BY <1>4, <3>1, <3>2, <3>3
    <2>4. Unseeded'
      BY <2>1, <2>3 DEF RotInv, Unseeded
    <2> QED BY <2>1, <2>2, <2>4 DEF RotInv, ServerFits, TxFits, Rotation!Up
  <1>5. CASE Rotation!Vacuum \/ Rotation!Publish \/ Rotation!AbandonBackup
    <2>1. UNCHANGED <<db, tx, file, server>>
      BY <1>5 DEF Rotation!Vacuum, Rotation!Publish, Rotation!AbandonBackup
    <2>2. dump' \in Seq(Good) /\ backups' \in Seq(Good)
      <3>1. CASE Rotation!Publish
        <4>1. dump # <<>> /\ dump[1] \in Good
          BY <3>1 DEF Rotation!Publish, RotInv
        <4>2. Append(backups, dump[1]) \in Seq(Good) /\ Append(backups, dump[1]) # <<>>
          BY <4>1 DEF RotInv
        <4>3. Tail(Append(backups, dump[1])) \in Seq(Good)
          BY <4>2
        <4> QED BY <3>1, <4>2, <4>3 DEF Rotation!Publish
      <3>2. CASE Rotation!Vacuum
        <4>1. <<db>> \in Seq(Good)
          BY DEF RotInv
        <4> QED BY <3>2, <4>1 DEF Rotation!Vacuum, RotInv
      <3>3. CASE Rotation!AbandonBackup
        BY <3>3 DEF Rotation!AbandonBackup, RotInv
      <3> QED BY <1>5, <3>1, <3>2, <3>3
    <2> QED BY <2>1, <2>2 DEF RotInv, Unseeded, ServerFits, TxFits, Rotation!Up
  <1>6. CASE Rotation!Restore
    <2>1. PICK i \in DOMAIN backups : backups[i].hash # Rotation!NoSecret /\ db' = backups[i]
      BY <1>6 DEF Rotation!Restore
    <2>2. ~Rotation!Up /\ tx = Rotation!NoTx /\ UNCHANGED <<tx, file, server, dump, backups>>
      BY <1>6 DEF Rotation!Restore, Rotation!Rotating
    <2>3. db' \in Good
      BY <2>1 DEF RotInv
    <2> QED BY <2>1, <2>2, <2>3 DEF RotInv, Unseeded, ServerFits, TxFits, Rotation!Up
  <1>7. CASE Rotation!RotateKeys
    <2>1. tx # Rotation!NoTx
      BY <1>7 DEF Rotation!RotateKeys, Rotation!RotateColumn, Rotation!RotateHashKey, Rotation!Commit,
         Rotation!Rollback, Rotation!Rotating
    <2> QED BY <1>7, <2>1, RotationKeeps
  <1> QED BY <1>1, <1>2, <1>3, <1>4, <1>5, <1>6, <1>7, StartKeeps DEF Rotation!Next, Column

\* Whatever failed, was killed, repeated, given the wrong key files, backed up or restored, the
\* database and every backup are under one key, and a server that runs can read every secret and
\* verify every API key ever minted.
THEOREM SecretsStayReadable == ServerSpec => []SecretsReadable
  <1>1. ASSUME Rotation!Init
        PROVE  RotInv
    <2>1. FirstKey \in MasterKeys /\ None \notin MasterKeys
      BY ColumnsAre, ServerAssumption
    <2>2. db = [secret |-> [c \in Column |-> None], hash |-> Rotation!NoSecret]
      BY <1>1 DEF Rotation!Init, Column, Rotation!None, None
    <2>3. db \in Rotation!Db /\ \A c \in Column : db.secret[c] = None
      BY <2>2 DEF Rotation!Db, Rotation!NoSecret, Column, Rotation!None, None
    <2>4. db \in Good
      BY <2>1, <2>2, <2>3, GoodIs DEF Rotation!NoSecret, Rotation!None, None
    <2>5. /\ file \in [master : MasterKeys \cup {None}, fresh : MasterKeys \cup {None}, old : MasterKeys \cup {None}]
          /\ file.master = FirstKey /\ tx = Rotation!NoTx /\ ~Rotation!Up
          /\ backups \in Seq(Good) /\ dump \in Seq(Good)
      BY <1>1, <2>1 DEF Rotation!Init, Rotation!Up, Rotation!None, None
    <2> QED BY <2>3, <2>4, <2>5 DEF RotInv, Unseeded, ServerFits, TxFits
  <1>2. RotInv /\ UNCHANGED rotationVars => RotInv'
    BY DEF RotInv, Unseeded, ServerFits, TxFits, rotationVars, Rotation!Up
  <1>3. ServerInit => (scene = "rotation" => RotInv)
    BY <1>1 DEF ServerInit
  <1>5. (scene = "rotation" => RotInv) /\ [ServerNext]_serverVars => (scene = "rotation" => RotInv)'
    BY <1>2, RotStep, ServerAssumption DEF ServerNext, serverVars
  <1>4. RotInv => Rotation!SecretsReadable
    <2>1. RotInv => Rotation!Coherent(db) /\ \A i \in DOMAIN backups : Rotation!Coherent(backups[i])
      BY DEF RotInv, Good
    <2>2. RotInv /\ Rotation!Up => server.hash = FirstKey /\ \A c \in Column : db.secret[c] \in {None, server.key}
      BY DEF RotInv, ServerFits
    <2> QED BY <2>1, <2>2 DEF Rotation!SecretsReadable, Column, Rotation!None, None
  <1>6. (scene = "rotation" => RotInv) => SecretsReadable
    BY <1>4 DEF SecretsReadable
  <1> QED BY <1>3, <1>5, <1>6, PTL DEF ServerSpec

-----------------------------------------------------------------------------
(* Metering. *)


Metered == Services \cup Sandboxes
NoBaseline == MaxUse + 1

\* The part of a container's counter that is not billed yet.
Unbilled(c) == IF lastCPU[c] = NoBaseline
               THEN IF c \in fresh THEN counter[c] ELSE 0
               ELSE IF counter[c] >= lastCPU[c] THEN counter[c] - lastCPU[c] ELSE counter[c]

\* What a tick may still bill of a container was used and is not billed.
BilledFits(c) ==
  /\ billed[c] <= used[c] /\ counter[c] <= used[c]
  /\ row[c] = "running" \/ c \in tick.todo => billed[c] + Unbilled(c) <= used[c]

\* A container that has not started has used nothing, and is in no tick.
NewIsClean(c) == row[c] = "new" =>
  counter[c] = 0 /\ used[c] = 0 /\ billed[c] = 0 /\ lastCPU[c] = NoBaseline /\ c \notin tick.todo

\* The counter of a sandbox does not fall while it runs, and the baseline of one that was watched
\* from its start is the sum of what was billed.
FreshFits(c) == c \in Sandboxes /\ row[c] = "running" =>
  /\ lastCPU[c] # NoBaseline => lastCPU[c] <= counter[c]
  /\ c \in fresh => billed[c] = (IF lastCPU[c] = NoBaseline THEN 0 ELSE lastCPU[c])

\* A running sandbox that a complete list lacks started after it.
ListIsComplete == tick.pc = "sample" /\ tick.sandboxesListed =>
  \A c \in Sandboxes : row[c] = "running" /\ c \notin tick.todo \cup tick.seen => lastCPU[c] = NoBaseline

TickType == [pc : {"idle", "sandboxes", "sample"}, todo : SUBSET Metered, seen : SUBSET Metered,
             sandboxesListed : BOOLEAN]

MeterTyped ==
  /\ row \in [Metered -> {"new", "running", "stopped"}]
  /\ counter \in [Metered -> 0..MaxUse] /\ used \in [Metered -> 0..MaxUse]
  /\ billed \in [Metered -> Nat] /\ lastCPU \in [Metered -> 0..NoBaseline]
  /\ tick \in TickType /\ fresh \subseteq Sandboxes

Fits(c) == BilledFits(c) /\ NewIsClean(c) /\ FreshFits(c)

MeterInv == MeterTyped /\ ListIsComplete /\ \A c \in Metered : Fits(c)

\* A container that a step does not touch fits as before.
LEMMA FitsElsewhere ==
  ASSUME NEW c, Fits(c), row'[c] = row[c], counter'[c] = counter[c], used'[c] = used[c], billed'[c] = billed[c],
         lastCPU'[c] = lastCPU[c], c \in fresh' <=> c \in fresh,
         c \in tick'.todo => c \in tick.todo \/ row[c] = "running"
  PROVE  Fits(c)'
  <1>1. Unbilled(c)' = Unbilled(c)
    BY DEF Unbilled, NoBaseline
  <1>2. BilledFits(c)'
    BY <1>1 DEF Fits, BilledFits
  <1>3. NewIsClean(c)'
    BY DEF Fits, NewIsClean, NoBaseline
  <1>4. FreshFits(c)'
    BY DEF Fits, FreshFits, NoBaseline
  <1> QED BY <1>2, <1>3, <1>4 DEF Fits

\* A sample bills what is unbilled, or nothing.
LEMMA SampleKeeps ==
  ASSUME MeterInv, Meter!MeteringAssumption, NEW c \in Metered, Meter!Sample(c)
  PROVE  MeterInv'
  <1>0. /\ c \in tick.todo /\ tick.pc = "sample" /\ MaxUse \in Nat /\ MeterTyped /\ Fits(c)
        /\ UNCHANGED <<row, counter, used, fresh>>
    BY DEF Meter!Sample, MeterInv, Meter!MeteringAssumption
  <1>1. /\ counter[c] \in 0..MaxUse /\ used[c] \in 0..MaxUse /\ billed[c] \in Nat /\ lastCPU[c] \in 0..NoBaseline
        /\ row[c] \in {"new", "running", "stopped"} /\ row[c] # "new"
    BY <1>0 DEF MeterTyped, Fits, NewIsClean
  <1>2. tick' = [tick EXCEPT !.todo = tick.todo \ {c}, !.seen = tick.seen \cup {c}]
    BY DEF Meter!Sample
  <1>3. /\ tick' \in TickType /\ tick'.pc = tick.pc /\ tick'.sandboxesListed = tick.sandboxesListed
        /\ tick'.todo = tick.todo \ {c} /\ tick'.seen = tick.seen \cup {c}
    BY <1>0, <1>2 DEF MeterTyped, TickType
  <1>4. CASE UNCHANGED <<billed, lastCPU>>
    <2>1. \A d \in Metered : Fits(d)'
      BY <1>0, <1>3, <1>4, FitsElsewhere DEF MeterInv
    <2>2. ListIsComplete'
      BY <1>0, <1>3, <1>4 DEF MeterInv, ListIsComplete
    <2> QED BY <1>0, <1>3, <1>4, <2>1, <2>2 DEF MeterInv, MeterTyped
  <1>5. CASE \E reading \in Meter!Readings(c) : Meter!Record(c, Meter!Delta(c, reading))
                                               /\ lastCPU' = [lastCPU EXCEPT ![c] = reading]
    <2>1. PICK reading \in Meter!Readings(c) : Meter!Record(c, Meter!Delta(c, reading))
                                              /\ lastCPU' = [lastCPU EXCEPT ![c] = reading]
      BY <1>5
    <2>2. reading \in 0..MaxUse /\ (reading = counter[c] \/ (reading = 0 /\ row[c] = "stopped"))
      BY <1>0, <1>1 DEF Meter!Readings
    <2> DEFINE delta == Meter!Delta(c, reading)
    <2>3. delta \in Nat /\ (delta = Unbilled(c) \/ (delta = 0 /\ reading = 0 /\ row[c] = "stopped"))
      <3>1. CASE lastCPU[c] = NoBaseline
        BY <1>0, <1>1, <2>2, <3>1 DEF Meter!Delta, Meter!None, NoBaseline, Unbilled
      <3>2. CASE lastCPU[c] # NoBaseline
        <4>1. delta = IF reading >= lastCPU[c] THEN reading - lastCPU[c] ELSE reading
          BY <3>2 DEF Meter!Delta, Meter!CounterDelta, Meter!None, NoBaseline
        <4> HIDE DEF delta
        <4> QED BY <1>0, <1>1, <2>2, <3>2, <4>1 DEF NoBaseline, Unbilled
      <3> QED BY <3>1, <3>2
    <2>4. billed' = [billed EXCEPT ![c] = billed[c] + delta]
      BY <2>1 DEF Meter!Record
    <2> HIDE DEF delta
    <2>5. /\ billed' \in [Metered -> Nat] /\ lastCPU' \in [Metered -> 0..NoBaseline]
          /\ billed'[c] = billed[c] + delta /\ lastCPU'[c] = reading
          /\ \A d \in Metered \ {c} : billed'[d] = billed[d] /\ lastCPU'[d] = lastCPU[d]
      BY <1>0, <1>1, <2>1, <2>2, <2>3, <2>4 DEF MeterTyped, NoBaseline
    <2>6. ASSUME NEW d \in Metered \ {c}
          PROVE  Fits(d)'
      BY <1>0, <1>3, <2>5, FitsElsewhere DEF MeterInv
    <2>7. Fits(c)'
      <3>1. billed'[c] <= used[c]
        <4>1. Unbilled(c) \in Nat /\ billed[c] + Unbilled(c) <= used[c]
          BY <1>0, <1>1 DEF Fits, BilledFits, Unbilled, NoBaseline
        <4> QED BY <1>1, <2>3, <2>5, <4>1
      <3>2. row[c] = "running" => Unbilled(c)' = 0
        BY <1>0, <1>1, <2>2, <2>5 DEF Unbilled, NoBaseline
      <3>3. BilledFits(c)'
        BY <1>0, <1>1, <1>3, <2>3, <2>5, <3>1, <3>2 DEF Fits, BilledFits
      <3>4. NewIsClean(c)'
        BY <1>0, <1>1 DEF NewIsClean
      <3>5. FreshFits(c)'
        <4>1. CASE c \in Sandboxes /\ row[c] = "running"
          <5>1. reading = counter[c] /\ delta = Unbilled(c) /\ lastCPU'[c] = counter[c]
            BY <2>2, <2>3, <2>5, <4>1
          <5>2. c \in fresh => billed[c] = (IF lastCPU[c] = NoBaseline THEN 0 ELSE lastCPU[c])
            BY <1>0, <4>1 DEF Fits, FreshFits
          <5>3. lastCPU[c] # NoBaseline => lastCPU[c] <= counter[c]
            BY <1>0, <4>1 DEF Fits, FreshFits
          <5>4. c \in fresh => billed[c] + Unbilled(c) = counter[c]
            BY <1>1, <5>2, <5>3 DEF Unbilled, NoBaseline
          <5> QED BY <1>0, <1>1, <2>5, <5>1, <5>4 DEF FreshFits, NoBaseline
        <4>2. CASE ~(c \in Sandboxes /\ row[c] = "running")
          BY <1>0, <4>2 DEF FreshFits
        <4> QED BY <4>1, <4>2
      <3> QED BY <3>3, <3>4, <3>5 DEF Fits
    <2>8. ListIsComplete'
      BY <1>0, <1>3, <2>5 DEF MeterInv, MeterTyped, ListIsComplete, Metered
    <2> QED BY <1>0, <1>3, <2>5, <2>6, <2>7, <2>8 DEF MeterInv, MeterTyped
  <1> QED BY <1>4, <1>5 DEF Meter!Sample

\* Containers start, work and go.
LEMMA ContainerKeeps ==
  ASSUME MeterInv, Meter!MeteringAssumption, NEW c \in Metered,
         Meter!Appear(c) \/ Meter!Use(c) \/ Meter!Leave(c) \/ Meter!StartService(c)
  PROVE  MeterInv'
  <1>0. /\ MaxUse \in Nat /\ MeterTyped /\ Fits(c) /\ Services \cap Sandboxes = {}
        /\ UNCHANGED <<billed, lastCPU, tick>>
    BY DEF Meter!Appear, Meter!Use, Meter!Leave, Meter!StartService, MeterInv, Meter!MeteringAssumption
  <1>1. /\ counter[c] \in 0..MaxUse /\ used[c] \in 0..MaxUse /\ billed[c] \in Nat /\ lastCPU[c] \in 0..NoBaseline
        /\ row[c] \in {"new", "running", "stopped"}
    BY <1>0 DEF MeterTyped
  <1>2. /\ MeterTyped'
        /\ \A d \in Metered \ {c} : row'[d] = row[d] /\ counter'[d] = counter[d] /\ used'[d] = used[d]
        /\ \A d \in Metered \ {c} : d \in fresh' <=> d \in fresh
    <2>1. CASE Meter!Appear(c)
      BY <1>0, <2>1 DEF Meter!Appear, MeterTyped
    <2>2. CASE Meter!Use(c)
      <3>1. used[c] + 1 \in 0..MaxUse /\ counter[c] + 1 \in 0..MaxUse
        BY <1>0, <1>1, <2>2 DEF Meter!Use, Fits, BilledFits
      <3> QED BY <1>0, <2>2, <3>1 DEF Meter!Use, MeterTyped
    <2>3. CASE Meter!Leave(c) \/ Meter!StartService(c)
      BY <1>0, <2>3 DEF Meter!Leave, Meter!StartService, MeterTyped
    <2> QED BY <2>1, <2>2, <2>3
  <1>3. ASSUME NEW d \in Metered \ {c}
        PROVE  Fits(d)'
    <2>1. Fits(d)
      BY DEF MeterInv
    <2>2. row'[d] = row[d] /\ counter'[d] = counter[d] /\ used'[d] = used[d] /\ (d \in fresh' <=> d \in fresh)
      BY <1>2
    <2> QED BY <1>0, <2>1, <2>2, FitsElsewhere
  <1>4. Fits(c)' /\ (row'[c] = "running" /\ c \in Sandboxes => row[c] = "running" \/ lastCPU[c] = NoBaseline)
    <2>1. CASE Meter!Appear(c)
      <3>1. /\ row'[c] = "running" /\ row[c] = "new" /\ UNCHANGED <<counter, used>>
        BY <1>0, <2>1 DEF Meter!Appear, MeterTyped
      <3>2. counter[c] = 0 /\ used[c] = 0 /\ billed[c] = 0 /\ lastCPU[c] = NoBaseline
        BY <1>0, <3>1 DEF Fits, NewIsClean
      <3> QED BY <1>0, <3>1, <3>2 DEF Fits, BilledFits, NewIsClean, FreshFits, Unbilled
    <2>2. CASE Meter!Use(c)
      <3>1. /\ row' = row /\ row[c] = "running" /\ fresh' = fresh
            /\ used'[c] = used[c] + 1 /\ counter'[c] = counter[c] + 1
        BY <1>0, <2>2 DEF Meter!Use, MeterTyped
      <3>2. Unbilled(c)' <= Unbilled(c) + 1
        BY <1>0, <1>1, <3>1 DEF Unbilled, NoBaseline
      <3>3. Unbilled(c) \in Int /\ Unbilled(c)' \in Int
        BY <1>0, <1>1, <3>1 DEF Unbilled, NoBaseline
      <3>4. BilledFits(c)'
        BY <1>0, <1>1, <3>1, <3>2, <3>3 DEF Fits, BilledFits
      <3>5. FreshFits(c)'
        BY <1>0, <1>1, <3>1 DEF Fits, FreshFits, NoBaseline
      <3> QED BY <3>1, <3>4, <3>5 DEF Fits, NewIsClean
    <2>3. CASE Meter!Leave(c)
      <3>1. row'[c] = "stopped" /\ row[c] = "running" /\ UNCHANGED <<counter, used, fresh>>
        BY <1>0, <2>3 DEF Meter!Leave, MeterTyped
      <3>2. Unbilled(c)' = Unbilled(c)
        BY <1>0, <3>1 DEF Unbilled, NoBaseline
      <3> QED BY <1>0, <3>1, <3>2 DEF Fits, BilledFits, NewIsClean, FreshFits
    <2>4. CASE Meter!StartService(c)
      <3>1. /\ c \notin Sandboxes /\ c \notin fresh /\ row'[c] = "running" /\ counter'[c] = 0
            /\ UNCHANGED <<used, fresh>>
        BY <1>0, <2>4 DEF Meter!StartService, MeterTyped
      <3>2. Unbilled(c)' = 0
        BY <1>0, <1>1, <3>1 DEF Unbilled, NoBaseline
      <3> QED BY <1>0, <1>1, <3>1, <3>2 DEF Fits, BilledFits, NewIsClean, FreshFits
    <2> QED BY <2>1, <2>2, <2>3, <2>4
  <1>5. ListIsComplete'
    <2>1. ASSUME NEW d \in Sandboxes, row'[d] = "running"
          PROVE  row[d] = "running" \/ lastCPU[d] = NoBaseline
      BY <1>2, <1>4, <2>1 DEF Metered
    <2> QED BY <1>0, <2>1 DEF MeterInv, ListIsComplete, NoBaseline
  <1> QED BY <1>0, <1>2, <1>3, <1>4, <1>5 DEF MeterInv

\* A tick lists what runs and ends with the baselines that its list allows it to drop; a restart
\* of ah drops all of them.
LEMMA TickKeeps ==
  ASSUME MeterInv, Meter!MeteringAssumption,
         Meter!ListServices \/ Meter!ListSandboxes \/ Meter!EndTick \/ Meter!RestartAh
  PROVE  MeterInv'
  <1>0. /\ MaxUse \in Nat /\ MeterTyped /\ UNCHANGED <<row, counter, used, billed>>
        /\ \A c \in Metered : Fits(c)
    BY DEF Meter!ListServices, Meter!ListSandboxes, Meter!EndTick, Meter!RestartAh, MeterInv, Meter!MeteringAssumption
  <1>1. CASE Meter!ListServices
    <2>1. PICK read \in SUBSET (Meter!Running \cap Services) : tick' = [tick EXCEPT !.pc = "sandboxes", !.todo = read]
      BY <1>1 DEF Meter!ListServices
    <2>2. \A c \in read : c \in Metered /\ row[c] = "running"
      BY DEF Meter!Running, Meter!Containers, Metered
    <2>3. tick' \in TickType /\ tick'.pc = "sandboxes" /\ tick'.todo = read
      BY <1>0, <2>1, <2>2 DEF MeterTyped, TickType
    <2>4. UNCHANGED <<fresh, lastCPU>>
      BY <1>1 DEF Meter!ListServices
    <2>5. \A c \in Metered : Fits(c)'
      BY <1>0, <2>2, <2>3, <2>4, FitsElsewhere
    <2> QED BY <1>0, <2>3, <2>4, <2>5 DEF MeterInv, MeterTyped, ListIsComplete
  <1>2. CASE Meter!ListSandboxes
    <2>1. PICK read \in SUBSET (Meter!Running \cap Sandboxes) :
             tick' = [tick EXCEPT !.pc = "sample", !.todo = tick.todo \cup read,
                                  !.sandboxesListed = (read = Meter!Running \cap Sandboxes)]
      BY <1>2 DEF Meter!ListSandboxes
    <2>2. \A c \in read : c \in Metered /\ row[c] = "running"
      BY DEF Meter!Running, Meter!Containers, Metered
    <2>3. /\ tick' \in TickType /\ tick'.todo = tick.todo \cup read /\ tick'.seen = tick.seen
          /\ tick'.sandboxesListed = (read = Meter!Running \cap Sandboxes)
      <3>1. (read = Meter!Running \cap Sandboxes) \in BOOLEAN
        OBVIOUS
      <3> QED BY <1>0, <2>1, <2>2, <3>1 DEF MeterTyped, TickType
    <2>4. UNCHANGED <<fresh, lastCPU>>
      BY <1>2 DEF Meter!ListSandboxes
    <2>5. \A c \in Metered : Fits(c)'
      BY <1>0, <2>2, <2>3, <2>4, FitsElsewhere
    <2>6. ListIsComplete'
      <3>1. ASSUME NEW c \in Sandboxes, row[c] = "running", read = Meter!Running \cap Sandboxes
            PROVE  c \in read
        BY <3>1 DEF Meter!Running, Meter!Containers
      <3> QED BY <1>0, <2>3, <3>1 DEF ListIsComplete
    <2> QED BY <1>0, <2>3, <2>4, <2>5, <2>6 DEF MeterInv, MeterTyped
  <1>3. CASE Meter!EndTick
    <2>1. /\ tick.pc = "sample" /\ tick.todo = {} /\ tick' = Meter!Idle /\ fresh' = fresh
          /\ lastCPU' = [c \in Metered |-> IF c \in tick.seen \/ ~tick.sandboxesListed THEN lastCPU[c] ELSE NoBaseline]
      BY <1>3 DEF Meter!EndTick, Meter!Containers, Metered, Meter!None, NoBaseline
    <2>2. tick' \in TickType /\ tick'.todo = {} /\ tick'.pc = "idle"
      BY <2>1 DEF Meter!Idle, TickType
    <2>3. NoBaseline \in 0..NoBaseline
      BY <1>0 DEF NoBaseline
    <2>4. lastCPU' \in [Metered -> 0..NoBaseline]
      BY <1>0, <2>1, <2>3 DEF MeterTyped
    <2>5. ASSUME NEW c \in Metered
          PROVE  Fits(c)'
      <3>1. CASE lastCPU'[c] = lastCPU[c]
        BY <1>0, <2>1, <2>2, <3>1, FitsElsewhere
      <3>2. CASE lastCPU'[c] # lastCPU[c]
        <4>1. c \notin tick.seen /\ tick.sandboxesListed /\ lastCPU'[c] = NoBaseline /\ lastCPU[c] # NoBaseline
          BY <2>1, <3>2
        <4>2. ~(c \in Sandboxes /\ row[c] = "running")
          BY <2>1, <4>1 DEF MeterInv, ListIsComplete
        <4>3. row[c] = "running" => Unbilled(c)' = 0
          BY <1>0, <2>1, <4>1, <4>2 DEF Unbilled, NoBaseline, MeterTyped
        <4>4. billed[c] \in Nat /\ used[c] \in Nat
          BY <1>0 DEF MeterTyped
        <4>5. BilledFits(c)'
          BY <1>0, <2>2, <4>3, <4>4 DEF Fits, BilledFits
        <4> QED BY <1>0, <2>2, <4>1, <4>2, <4>5 DEF Fits, NewIsClean, FreshFits
      <3> QED BY <3>1, <3>2
    <2> QED BY <1>0, <2>1, <2>2, <2>4, <2>5 DEF MeterInv, MeterTyped, ListIsComplete
  <1>4. CASE Meter!RestartAh
    <2>1. fresh' = {} /\ tick' = Meter!Idle /\ lastCPU' = [c \in Metered |-> NoBaseline]
      BY <1>4 DEF Meter!RestartAh, Meter!Containers, Metered, Meter!None, NoBaseline
    <2>2. tick' \in TickType /\ tick'.todo = {} /\ tick'.pc = "idle"
      BY <2>1 DEF Meter!Idle, TickType
    <2>3. lastCPU' \in [Metered -> 0..NoBaseline]
      BY <1>0, <2>1 DEF NoBaseline
    <2>4. ASSUME NEW c \in Metered
          PROVE  Fits(c)'
      <3>1. Unbilled(c)' = 0 /\ lastCPU'[c] = NoBaseline
        BY <2>1 DEF Unbilled
      <3>2. billed[c] \in Nat /\ used[c] \in Nat
        BY <1>0 DEF MeterTyped
      <3> QED BY <1>0, <2>1, <2>2, <3>1, <3>2 DEF Fits, BilledFits, NewIsClean, FreshFits
    <2> QED BY <1>0, <2>1, <2>2, <2>3, <2>4 DEF MeterInv, MeterTyped, ListIsComplete
  <1> QED BY <1>1, <1>2, <1>3, <1>4

\* No use is billed twice, whatever list was cut short and whatever sample or record failed; and
\* a sandbox watched from its start has been billed all that its baseline says was read.
THEOREM UseIsBilledOnce == ServerSpec => []BilledOnce
  <1>1. ASSUME Meter!Init
        PROVE  MeterInv
    <2>0. MaxUse \in Nat
      BY ServerAssumption DEF Meter!MeteringAssumption
    <2>1. /\ row = [c \in Metered |-> "new"] /\ counter = [c \in Metered |-> 0] /\ used = counter
          /\ billed = counter /\ lastCPU = [c \in Metered |-> NoBaseline] /\ fresh = {} /\ tick = Meter!Idle
      BY <1>1 DEF Meter!Init, Meter!Containers, Metered, Meter!None, NoBaseline
    <2>2. tick \in TickType /\ tick.pc = "idle" /\ tick.todo = {}
      BY <2>1 DEF Meter!Idle, TickType
    <2>3. MeterTyped
      BY <2>0, <2>1, <2>2 DEF MeterTyped, NoBaseline
    <2>4. \A c \in Metered : Fits(c)
      BY <2>1, <2>2 DEF Fits, BilledFits, NewIsClean, FreshFits
    <2> QED BY <2>2, <2>3, <2>4 DEF MeterInv, ListIsComplete
  <1>2. MeterInv /\ UNCHANGED meterVars => MeterInv'
    <2>1. ASSUME UNCHANGED meterVars, NEW c, Fits(c)
          PROVE  Fits(c)'
      BY <2>1, FitsElsewhere DEF meterVars
    <2> QED BY <2>1 DEF MeterInv, MeterTyped, ListIsComplete, meterVars
  <1>3. MeterInv /\ [Meter!Next]_meterVars => MeterInv'
    BY <1>2, SampleKeeps, ContainerKeeps, TickKeeps, ServerAssumption DEF Meter!Next, Meter!Containers, Metered
  <1>4. ASSUME MeterInv
        PROVE  Meter!BilledOnce
    <2>1. \A c \in Metered : billed[c] <= used[c]
      BY <1>4 DEF MeterInv, Fits, BilledFits
    <2>2. ASSUME NEW c \in (fresh \cap Meter!Running) \ missed, lastCPU[c] # NoBaseline
          PROVE  billed[c] = lastCPU[c]
      <3>1. c \in Metered /\ c \in Sandboxes /\ row[c] = "running"
        BY <1>4, <2>2 DEF MeterInv, MeterTyped, Meter!Running, Metered
      <3> QED BY <1>4, <2>2, <3>1 DEF MeterInv, Fits, FreshFits
    <2> QED BY <2>1, <2>2 DEF Meter!BilledOnce, Meter!Containers, Metered, Meter!None, NoBaseline
  <1>5. ServerInit => (scene = "metering" => MeterInv)
    BY <1>1 DEF ServerInit
  <1>6. (scene = "metering" => MeterInv) /\ [ServerNext]_serverVars => (scene = "metering" => MeterInv)'
    BY <1>3 DEF ServerNext, serverVars
  <1>7. (scene = "metering" => MeterInv) => BilledOnce
    BY <1>4 DEF BilledOnce
  <1> QED BY <1>5, <1>6, <1>7, PTL DEF ServerSpec

-----------------------------------------------------------------------------
(* Registration. *)


\* The module Registration has its own copy of the operators on finite sets.
LEMMA LimitsFinite == ASSUME NEW S PROVE Limits!IsFiniteSet(S) <=> IsFiniteSet(S)
  BY DEF Limits!IsFiniteSet, IsFiniteSet

\* The same of cardinality.
LEMMA LimitsCardinality == ASSUME NEW S PROVE Limits!Cardinality(S) = Cardinality(S)
  BY DEF Limits!Cardinality, Cardinality

Stages == {"idle", "token", "count", "insert", "charge", "act"}
Handler == [pc : Stages, kind : {"register", "admin"}]

\* The handlers whose state is among those of P.
Those(P) == {r \in RegRequests : regReq[r] \in P}

Inserts == [pc : {"insert"}, kind : {"register", "admin"}]
Charges == [pc : {"charge"}, kind : {"register"}]
Registers == [pc : Stages \ {"idle"}, kind : {"register"}]

\* What a window can make: the budget, and what ran when it was used up.
Budget == Global + Cardinality(RegRequests) - 1

\* The count of the registration window.
Spent == global["register"].count

LimitsTyped ==
  /\ regReq \in [RegRequests -> Handler]
  /\ \A r \in RegRequests : regReq[r].pc \in {"count", "insert", "charge"} => regReq[r].kind = "register"
  /\ global \in [{"register", "admin"} -> [count : Nat, until : Nat]] /\ now \in Nat \ {0}
  /\ active \in Nat /\ made \in Nat /\ windows \in Nat /\ reactivated \in Nat

\* Who is about to insert a tenant has seen that the cap was not reached.
TenantsFit == active + Cardinality(Those(Inserts)) <= MaxTenants + Cardinality(RegRequests) - 1 + reactivated

\* In w windows, n charges to the last one, m tenants, c handlers that are about to charge theirs
\* and g that register: a tenant has been charged to a window or is about to be, and who registers
\* has been let in by the window that is open, or by one that has ended.
Within(w, n, m, c, g) ==
  IF w = 0 THEN m = 0 /\ g = 0
  ELSE m <= (w - 1) * Budget + n + c /\ n + g <= Budget

BudgetFits ==
  /\ Within(windows, Spent, made, Cardinality(Those(Charges)), Cardinality(Those(Registers)))
  /\ windows = 0 => global["register"].until = 0

LimitsInv == LimitsTyped /\ TenantsFit /\ BudgetFits

\* The numbers of handlers, which are at most all of them.
LEMMA Counts ==
  ASSUME Limits!RegistrationAssumption, NEW P
  PROVE  /\ Cardinality(RegRequests) \in Nat \ {0} /\ Cardinality(Those(P)) \in Nat
         /\ Cardinality(Those(P)) <= Cardinality(RegRequests) /\ IsFiniteSet(Those(P))
  <1>1. IsFiniteSet(RegRequests) /\ RegRequests # {}
    BY LimitsFinite DEF Limits!RegistrationAssumption
  <1>2. Those(P) \subseteq RegRequests
    BY DEF Those
  <1> QED BY <1>1, <1>2, FS_Subset, FS_CardinalityType, FS_EmptySet

\* What happens to a number of handlers when one of them moves.
LEMMA Moves ==
  ASSUME Limits!RegistrationAssumption, NEW P, NEW r \in RegRequests, NEW v, LimitsTyped,
         regReq' = [regReq EXCEPT ![r] = v]
  PROVE  /\ Cardinality(Those(P)') \in Nat /\ Cardinality(Those(P)') <= Cardinality(RegRequests)
         /\ v \in P /\ regReq[r] \notin P => Cardinality(Those(P)') = Cardinality(Those(P)) + 1
         /\ v \notin P /\ regReq[r] \in P => Cardinality(Those(P)') = Cardinality(Those(P)) - 1
         /\ (v \in P <=> regReq[r] \in P) => Cardinality(Those(P)') = Cardinality(Those(P))
  <1> DEFINE S == {q \in RegRequests : regReq'[q] \in P}
  <1>0. IsFiniteSet(Those(P)) /\ IsFiniteSet(RegRequests)
    BY Counts, LimitsFinite DEF Limits!RegistrationAssumption
  <1>1. regReq'[r] = v /\ \A q \in RegRequests \ {r} : regReq'[q] = regReq[q]
    BY DEF LimitsTyped
  <1>2. Those(P)' = S
    BY DEF Those
  <1>3. v \in P => S = Those(P) \cup {r}
    BY <1>1 DEF Those
  <1>4. v \notin P => S = Those(P) \ {r}
    BY <1>1 DEF Those
  <1>5. r \in Those(P) <=> regReq[r] \in P
    BY DEF Those
  <1>6. S \subseteq RegRequests
    OBVIOUS
  <1> HIDE DEF S
  <1>7. Cardinality(S) \in Nat /\ Cardinality(S) <= Cardinality(RegRequests)
    BY <1>0, <1>6, FS_Subset, FS_CardinalityType
  <1>8. Cardinality(S) = IF v \in P
                         THEN IF regReq[r] \in P THEN Cardinality(Those(P)) ELSE Cardinality(Those(P)) + 1
                         ELSE IF regReq[r] \in P THEN Cardinality(Those(P)) - 1 ELSE Cardinality(Those(P))
    BY <1>0, <1>3, <1>4, <1>5, FS_AddElement, FS_RemoveElement
  <1> QED BY <1>2, <1>7, <1>8

\* A window more, or less.
LEMMA NextWindow ==
  ASSUME NEW w \in Nat, NEW b \in Nat
  PROVE  /\ (w + 1) * b = w * b + b /\ w * b \in Nat
         /\ w # 0 => w * b = (w - 1) * b + b /\ (w - 1) * b \in Nat
  BY SMT

\* The state of a handler says where it counts.
LEMMA Where ==
  ASSUME NEW h \in Handler
  PROVE  /\ h \in Inserts <=> h.pc = "insert"
         /\ h \in Charges <=> h.pc = "charge" /\ h.kind = "register"
         /\ h \in Registers <=> h.pc # "idle" /\ h.kind = "register"
  BY DEF Handler, Inserts, Charges, Registers, Stages

\* A handler that goes elsewhere in its request, or ends it.
LEMMA GotoIs ==
  ASSUME LimitsTyped, NEW r \in RegRequests, NEW pc \in Stages, Limits!Goto(r, pc)
  PROVE  \E v \in Handler : /\ regReq' = [regReq EXCEPT ![r] = v] /\ v.pc = pc
                            /\ v.kind = (IF pc = "idle" THEN "register" ELSE regReq[r].kind)
  <1>0. regReq[r] \in Handler
    BY DEF LimitsTyped
  <1>1. CASE pc = "idle"
    <2>1. regReq' = [regReq EXCEPT ![r] = Limits!Idle]
      BY <1>1 DEF Limits!Goto
    <2>2. Limits!Idle \in Handler /\ Limits!Idle.pc = "idle" /\ Limits!Idle.kind = "register"
      BY DEF Limits!Idle, Handler, Stages
    <2> QED BY <1>1, <2>1, <2>2
  <1>2. CASE pc # "idle"
    <2>1. regReq' = [regReq EXCEPT ![r] = [regReq[r] EXCEPT !.pc = pc]]
      BY <1>2 DEF Limits!Goto
    <2>2. /\ [regReq[r] EXCEPT !.pc = pc] \in Handler /\ [regReq[r] EXCEPT !.pc = pc].pc = pc
          /\ [regReq[r] EXCEPT !.pc = pc].kind = regReq[r].kind
      BY <1>0 DEF Handler
    <2> QED BY <1>2, <2>1, <2>2
  <1> QED BY <1>1, <1>2

\* What is left of the types when a handler moves.
LEMMA MoveTyped ==
  ASSUME LimitsTyped, NEW r \in RegRequests, NEW v \in Handler, regReq' = [regReq EXCEPT ![r] = v],
         v.pc \in {"count", "insert", "charge"} => v.kind = "register",
         global' \in [{"register", "admin"} -> [count : Nat, until : Nat]], now' \in Nat \ {0},
         active' \in Nat, made' \in Nat, windows' \in Nat, reactivated' \in Nat
  PROVE  LimitsTyped'
  <1>1. regReq' \in [RegRequests -> Handler] /\ regReq'[r] = v /\ \A q \in RegRequests \ {r} : regReq'[q] = regReq[q]
    BY DEF LimitsTyped
  <1> QED BY <1>1 DEF LimitsTyped

\* A limiter that is asked opens a window if its own has ended; a window of registrations counts.
LEMMA OpenIs ==
  ASSUME LimitsTyped, BudgetFits, Limits!RegistrationAssumption, NEW kind \in {"register", "admin"},
         Limits!OpenedBy(kind)
  PROVE  /\ Limits!Open(kind) \in [count : Nat, until : Nat]
         /\ windows' \in Nat
         /\ kind = "admin" => windows' = windows
         /\ kind = "register" =>
              \/ windows' = windows /\ windows # 0 /\ Limits!Open(kind).count = Spent
              \/ windows' = windows + 1 /\ Limits!Open(kind).count = 0
  <1>0. global[kind] \in [count : Nat, until : Nat] /\ windows \in Nat /\ now \in Nat \ {0} /\ Window \in Nat
    BY DEF LimitsTyped, Limits!RegistrationAssumption
  <1>1. CASE Limits!Past(global[kind])
    <2>1. Limits!Open(kind) = [count |-> 0, until |-> now + Window]
      BY <1>1 DEF Limits!Open
    <2>2. windows' = IF kind = "register" THEN windows + 1 ELSE windows
      BY <1>1 DEF Limits!OpenedBy
    <2> QED BY <1>0, <2>1, <2>2
  <1>2. CASE ~Limits!Past(global[kind])
    <2>1. Limits!Open(kind) = global[kind] /\ windows' = windows
      BY <1>2 DEF Limits!Open, Limits!OpenedBy
    <2>2. kind = "register" => windows # 0
      BY <1>0, <1>2 DEF BudgetFits, Limits!Past
    <2> QED BY <1>0, <2>1, <2>2 DEF Spent
  <1> QED BY <1>1, <1>2

\* Adding the same count to both sides of the comparison of charges keeps it.
LEMMA AddBoth ==
  ASSUME NEW n \in Nat, NEW a \in Nat, NEW b \in Nat, NEW u \in Nat, NEW w \in Nat, a + u <= b + w
  PROVE  a + n + u <= b + n + w
  BY SMT

\* A step that opens no window: it makes no tenant that is not about to be charged.
LEMMA WithinSame ==
  ASSUME NEW w \in Nat, NEW n \in Nat, NEW m \in Nat, NEW c \in Nat, NEW g \in Nat, Budget \in Nat, Within(w, n, m, c, g),
         c <= g, NEW n1 \in Nat, NEW m1 \in Nat, NEW c1 \in Nat, NEW g1 \in Nat, c1 <= g1,
         m1 + n + c <= m + n1 + c1, w # 0 => n1 + g1 <= Budget, w = 0 => g1 = 0 /\ n1 = n
  PROVE  Within(w, n1, m1, c1, g1)
  <1>1. CASE w = 0
    <2>1. m = 0 /\ g = 0
      BY <1>1 DEF Within
    <2> QED BY <1>1, <2>1 DEF Within
  <1>2. CASE w # 0
    <2>1. (w - 1) * Budget \in Nat
      BY <1>2, NextWindow
    <2> DEFINE all == (w - 1) * Budget
    <2>2. m <= all + n + c
      BY <1>2 DEF Within
    <2> HIDE DEF all
    <2>3. m1 <= all + n1 + c1
      BY <2>1, <2>2 DEF all
    <2> QED BY <1>2, <2>3 DEF Within, all
  <1> QED BY <1>1, <1>2

\* A step that opens one.
LEMMA WithinNext ==
  ASSUME NEW w \in Nat, NEW n \in Nat, NEW m \in Nat, NEW c \in Nat, NEW g \in Nat, Budget \in Nat, Within(w, n, m, c, g),
         c <= g, NEW n1 \in Nat, NEW m1 \in Nat, NEW c1 \in Nat, NEW g1 \in Nat,
         m1 + c <= m + n1 + c1, n1 + g1 <= Budget
  PROVE  Within(w + 1, n1, m1, c1, g1)
  <1> DEFINE all == w * Budget
  <1>1. all \in Nat /\ (w + 1 - 1) * Budget = all /\ (w # 0 => all = (w - 1) * Budget + Budget /\ (w - 1) * Budget \in Nat)
    BY NextWindow
  <1>2. m <= all + c
    <2>1. CASE w = 0
      BY <1>1, <2>1 DEF Within
    <2>2. CASE w # 0
      <3> DEFINE before == (w - 1) * Budget
      <3>1. before \in Nat /\ all = before + Budget /\ m <= before + n + c /\ n + g <= Budget
        BY <1>1, <2>2 DEF Within
      <3> HIDE DEF before, all
      <3> QED BY <3>1
    <2> QED BY <2>1, <2>2
  <1> HIDE DEF all
  <1>3. m1 <= all + n1 + c1
    BY <1>1, <1>2
  <1>4. m1 <= (w + 1 - 1) * Budget + n1 + c1
    BY <1>1, <1>3
  <1> QED BY <1>4 DEF Within

\* The numbers that the budget is about.
LEMMA Numbers ==
  ASSUME LimitsTyped, Limits!RegistrationAssumption
  PROVE  /\ windows \in Nat /\ Spent \in Nat /\ made \in Nat /\ Cardinality(Those(Charges)) \in Nat
         /\ Cardinality(Those(Registers)) \in Nat /\ Cardinality(Those(Registers)) <= Cardinality(RegRequests)
         /\ Cardinality(Those(Charges)) <= Cardinality(Those(Registers))
         /\ Budget \in Nat /\ Global \in Nat \ {0} /\ MaxTenants \in Nat /\ Cardinality(RegRequests) \in Nat \ {0}
         /\ Cardinality(RegRequests) <= Budget /\ Budget = Global - 1 + Cardinality(RegRequests)
  <1>1. /\ windows \in Nat /\ Spent \in Nat /\ made \in Nat /\ Global \in Nat \ {0} /\ MaxTenants \in Nat
    BY DEF LimitsTyped, Spent, Limits!RegistrationAssumption
  <1>2. Those(Charges) \subseteq Those(Registers)
    BY DEF Those, Charges, Registers, Stages
  <1>3. Cardinality(Those(Charges)) <= Cardinality(Those(Registers))
    BY <1>2, Counts, FS_Subset
  <1>4. /\ Cardinality(RegRequests) \in Nat \ {0} /\ Cardinality(Those(Charges)) \in Nat
        /\ Cardinality(Those(Registers)) \in Nat /\ Cardinality(Those(Registers)) <= Cardinality(RegRequests)
    BY Counts
  <1> QED BY <1>1, <1>3, <1>4 DEF Budget

\* The limiter lets a request in, or does not; a registration that it lets in is within the budget.
LEMMA AllowKeeps ==
  ASSUME LimitsInv, Limits!RegistrationAssumption, NEW r \in RegRequests, NEW kind \in {"register", "admin"},
         NEW c \in Clients, Limits!Allow(r, kind, c)
  PROVE  LimitsInv'
  <1> DEFINE open == Limits!Open(kind)
  <1>0. /\ regReq[r].pc = "idle" /\ regReq[r] \in Handler /\ LimitsTyped /\ TenantsFit /\ BudgetFits
        /\ global' = [global EXCEPT ![kind] = open] /\ Limits!OpenedBy(kind)
        /\ UNCHANGED <<now, active, suspended, made, reactivated>>
    BY DEF Limits!Allow, LimitsInv, LimitsTyped
  <1>1. /\ open \in [count : Nat, until : Nat] /\ windows' \in Nat
        /\ kind = "admin" => windows' = windows
        /\ kind = "register" => \/ windows' = windows /\ windows # 0 /\ open.count = Spent
                                \/ windows' = windows + 1 /\ open.count = 0
    BY <1>0, OpenIs
  <1>2. /\ global' \in [{"register", "admin"} -> [count : Nat, until : Nat]]
        /\ global'["register"] = IF kind = "register" THEN open ELSE global["register"]
    BY <1>0, <1>1 DEF LimitsTyped
  <1>3. regReq' = regReq \/ (regReq' = [regReq EXCEPT ![r] = [pc |-> "token", kind |-> kind]] /\ open.count < Global)
    BY DEF Limits!Allow
  <1> HIDE DEF open
  <1> DEFINE v == [pc |-> "token", kind |-> kind]
  <1>4. v \in Handler /\ v.pc = "token" /\ v.kind = kind
    BY DEF Handler, Stages
  <1>5. LimitsTyped'
    <2>1. CASE regReq' = regReq
      BY <1>0, <1>1, <1>2, <2>1 DEF LimitsTyped
    <2>2. CASE regReq' = [regReq EXCEPT ![r] = v]
      BY <1>0, <1>1, <1>2, <1>4, <2>2, MoveTyped DEF LimitsTyped
    <2> QED BY <1>3, <2>1, <2>2
  <1> HIDE DEF v
  <1>6. /\ Cardinality(Those(Inserts)') = Cardinality(Those(Inserts))
        /\ Cardinality(Those(Charges)') = Cardinality(Those(Charges))
        /\ Cardinality(Those(Registers)') \in Nat /\ Cardinality(Those(Registers)') <= Cardinality(RegRequests)
        /\ \/ Cardinality(Those(Registers)') = Cardinality(Those(Registers))
           \/ Cardinality(Those(Registers)') = Cardinality(Those(Registers)) + 1 /\ kind = "register" /\ open.count < Global
    <2>1. CASE regReq' = regReq
      BY <1>0, <2>1, Numbers DEF Those
    <2>2. CASE regReq' = [regReq EXCEPT ![r] = v] /\ open.count < Global
      <3>1. /\ v \notin Inserts /\ v \notin Charges /\ regReq[r] \notin Inserts /\ regReq[r] \notin Charges
            /\ regReq[r] \notin Registers /\ (v \in Registers <=> kind = "register")
        BY <1>0, <1>4, Where
      <3> QED BY <1>0, <2>2, <3>1, Moves
    <2> QED BY <1>3, <2>1, <2>2 DEF v
  <1>7. TenantsFit'
    BY <1>0, <1>6 DEF TenantsFit
  <1>8. BudgetFits'
    <2>1. CASE kind = "admin"
      <3>1. /\ windows' = windows /\ global'["register"] = global["register"] /\ Spent' = Spent
            /\ Cardinality(Those(Registers)') = Cardinality(Those(Registers))
        BY <1>1, <1>2, <1>6, <2>1 DEF Spent
      <3> QED BY <1>0, <1>6, <3>1 DEF BudgetFits, Within, Budget
    <2>2. CASE kind = "register"
      <3>1. Spent' = open.count /\ open.count \in Nat
        BY <1>1, <1>2, <2>2 DEF Spent
      <3>2. windows' = windows /\ windows # 0 => Spent' + Cardinality(Those(Registers)') <= Budget
        <4>1. windows # 0 => Spent + Cardinality(Those(Registers)) <= Budget
          BY <1>0 DEF BudgetFits, Within
        <4> QED BY <1>0, <1>1, <1>6, <2>2, <3>1, <4>1, Numbers
      <3>3. open.count = 0 => Spent' + Cardinality(Those(Registers)') <= Budget
        BY <1>0, <1>6, <3>1, Numbers
      <3>4. CASE windows' = windows /\ windows # 0 /\ open.count = Spent
        <4>1. Within(windows, Spent', made, Cardinality(Those(Charges)), Cardinality(Those(Registers)'))
          <5> DEFINE n == Spent
          <5> DEFINE n1 == Spent'
          <5> DEFINE c1 == Cardinality(Those(Charges))
          <5> DEFINE g == Cardinality(Those(Registers))
          <5> DEFINE g1 == Cardinality(Those(Registers)')
          <5>1. /\ windows \in Nat /\ n \in Nat /\ made \in Nat /\ c1 \in Nat /\ g \in Nat /\ Budget \in Nat
                /\ n1 \in Nat /\ g1 \in Nat /\ c1 <= g /\ Within(windows, n, made, c1, g)
            BY <1>0, <1>6, <3>1, Numbers DEF BudgetFits
          <5>2. c1 <= g1 /\ n1 = n /\ windows # 0 /\ n1 + g1 <= Budget
            BY <1>6, <2>2, <3>1, <3>2, <3>4, <5>1
          <5> HIDE DEF n, n1, c1, g, g1
          <5>3. made + n + c1 <= made + n1 + c1
            BY <5>1, <5>2
          <5>4. Within(windows, n1, made, c1, g1)
            BY <5>1, <5>2, <5>3, WithinSame
          <5> QED BY <5>4 DEF n1, c1, g1
        <4> QED BY <1>0, <1>6, <3>4, <4>1 DEF BudgetFits, Within, Budget
      <3>5. CASE windows' = windows + 1 /\ open.count = 0
        <4>1. Within(windows + 1, Spent', made, Cardinality(Those(Charges)), Cardinality(Those(Registers)'))
          <5> DEFINE n == Spent
          <5> DEFINE n1 == Spent'
          <5> DEFINE c1 == Cardinality(Those(Charges))
          <5> DEFINE g == Cardinality(Those(Registers))
          <5> DEFINE g1 == Cardinality(Those(Registers)')
          <5>1. /\ windows \in Nat /\ n \in Nat /\ made \in Nat /\ c1 \in Nat /\ g \in Nat /\ Budget \in Nat
                /\ n1 \in Nat /\ g1 \in Nat /\ c1 <= g /\ Within(windows, n, made, c1, g)
            BY <1>0, <1>6, <3>1, Numbers DEF BudgetFits
          <5>2. n1 + g1 <= Budget
            BY <3>3, <3>5
          <5> HIDE DEF n, n1, c1, g, g1
          <5>3. made + c1 <= made + n1 + c1
            BY <5>1
          <5>4. Within(windows + 1, n1, made, c1, g1)
            BY <5>1, <5>2, <5>3, WithinNext
          <5> QED BY <5>4 DEF n1, c1, g1
        <4>2. windows' # 0
          BY <1>0, <3>5, Numbers
        <4> QED BY <1>0, <1>6, <3>5, <4>1, <4>2 DEF BudgetFits, Within, Budget
      <3> QED BY <1>1, <2>2, <3>4, <3>5
    <2> QED BY <2>1, <2>2
  <1> QED BY <1>5, <1>7, <1>8 DEF LimitsInv

\* A handler that moves between two requests to the limiter.
LEMMA HandlerKeeps ==
  ASSUME LimitsInv, Limits!RegistrationAssumption, NEW r \in RegRequests,
         \/ Limits!ValidateRegistration(r) \/ Limits!CountTenants(r) \/ Limits!InsertTenant(r)
         \/ Limits!SuspendTenant(r) \/ Limits!ReactivateTenant(r) \/ Limits!UpdateQuotas(r)
  PROVE  LimitsInv'
  <1>0. /\ regReq[r] \in Handler /\ LimitsTyped /\ TenantsFit /\ BudgetFits /\ UNCHANGED <<now, global, windows>>
    BY DEF Limits!ValidateRegistration, Limits!CountTenants, Limits!InsertTenant, Limits!SuspendTenant,
       Limits!ReactivateTenant, Limits!UpdateQuotas, LimitsInv, LimitsTyped
  <1>1. PICK pc \in Stages :
          /\ Limits!Goto(r, pc)
          /\ \/ regReq[r].pc = "token" /\ regReq[r].kind = "register" /\ pc \in {"count", "idle"}
                /\ UNCHANGED <<active, made, reactivated>>
             \/ regReq[r].pc = "count" /\ pc \in {"insert", "idle"} /\ (pc = "insert" => active < MaxTenants)
                /\ UNCHANGED <<active, made, reactivated>>
             \/ regReq[r].pc = "insert" /\ pc = "charge" /\ active' = active + 1 /\ made' = made + 1
                /\ UNCHANGED reactivated
             \/ regReq[r].pc = "insert" /\ pc = "idle" /\ UNCHANGED <<active, made, reactivated>>
             \/ regReq[r].pc = "act" /\ pc = "idle" /\ active > 0 /\ active' = active - 1
                /\ UNCHANGED <<made, reactivated>>
             \/ regReq[r].pc = "act" /\ pc = "idle" /\ active' = active + 1 /\ reactivated' = reactivated + 1
                /\ UNCHANGED made
             \/ regReq[r].pc = "act" /\ pc = "idle" /\ UNCHANGED <<active, made, reactivated>>
    <2>1. CASE Limits!ValidateRegistration(r)
      BY <2>1 DEF Limits!ValidateRegistration, Stages
    <2>2. CASE Limits!CountTenants(r)
      <3>1. MaxTenants \in Nat /\ active \in Nat
        BY <1>0 DEF LimitsTyped, Limits!RegistrationAssumption
      <3>2. CASE active >= MaxTenants
        BY <2>2, <3>1, <3>2 DEF Limits!CountTenants, Stages
      <3>3. CASE ~(active >= MaxTenants)
        BY <2>2, <3>1, <3>3 DEF Limits!CountTenants, Stages
      <3> QED BY <3>2, <3>3
    <2>3. CASE Limits!InsertTenant(r)
      BY <2>3 DEF Limits!InsertTenant, Stages
    <2>4. CASE Limits!SuspendTenant(r)
      BY <2>4 DEF Limits!SuspendTenant, Stages
    <2>5. CASE Limits!ReactivateTenant(r)
      BY <2>5 DEF Limits!ReactivateTenant, Stages
    <2>6. CASE Limits!UpdateQuotas(r)
      BY <2>6 DEF Limits!UpdateQuotas, Stages
    <2> QED BY <2>1, <2>2, <2>3, <2>4, <2>5, <2>6
  <1>2. PICK v \in Handler : /\ regReq' = [regReq EXCEPT ![r] = v] /\ v.pc = pc
                             /\ v.kind = (IF pc = "idle" THEN "register" ELSE regReq[r].kind)
    BY <1>0, <1>1, GotoIs
  <1>3. regReq[r].pc \in {"count", "insert", "charge"} => regReq[r].kind = "register"
    BY <1>0 DEF LimitsTyped
  <1>4. active \in Nat /\ made \in Nat /\ reactivated \in Nat
    BY <1>0 DEF LimitsTyped
  <1>5. active' \in Nat /\ made' \in Nat /\ reactivated' \in Nat
    BY <1>1, <1>4
  <1>6. v.pc \in {"count", "insert", "charge"} => v.kind = "register"
    BY <1>1, <1>2, <1>3
  <1>7. LimitsTyped'
    <2>1. /\ global' \in [{"register", "admin"} -> [count : Nat, until : Nat]] /\ now' \in Nat \ {0} /\ windows' \in Nat
      BY <1>0 DEF LimitsTyped
    <2> QED BY <1>0, <1>2, <1>5, <1>6, <2>1, MoveTyped
  <1> DEFINE i == Cardinality(Those(Inserts))
  <1> DEFINE c == Cardinality(Those(Charges))
  <1> DEFINE g == Cardinality(Those(Registers))
  <1>8. /\ v \in Inserts <=> pc = "insert"
        /\ v \in Charges <=> pc = "charge"
        /\ regReq[r] \in Inserts <=> regReq[r].pc = "insert"
        /\ regReq[r] \in Charges <=> regReq[r].pc = "charge"
        /\ v \in Registers => regReq[r] \in Registers
    BY <1>0, <1>1, <1>2, <1>3, Where
  <1>9. /\ i' \in Nat /\ i' <= Cardinality(RegRequests) /\ i \in Nat
        /\ pc = "insert" /\ regReq[r].pc # "insert" => i' = i + 1
        /\ pc # "insert" /\ regReq[r].pc = "insert" => i' = i - 1
        /\ pc # "insert" /\ regReq[r].pc # "insert" => i' = i
    BY <1>0, <1>2, <1>8, Moves, Counts
  <1>10. /\ c' \in Nat
         /\ pc = "charge" /\ regReq[r].pc # "charge" => c' = c + 1
         /\ pc # "charge" /\ regReq[r].pc # "charge" => c' = c
    BY <1>0, <1>2, <1>8, Moves
  <1>11. g' \in Nat /\ (g' = g \/ g' = g - 1)
    BY <1>0, <1>2, <1>8, Moves
  <1>12. c \in Nat /\ g \in Nat /\ c <= g /\ c' <= g' /\ Cardinality(RegRequests) \in Nat \ {0} /\ MaxTenants \in Nat
    <2>1. c' <= g'
      <3>1. /\ {q \in RegRequests : regReq'[q] \in Charges} \subseteq {q \in RegRequests : regReq'[q] \in Registers}
            /\ {q \in RegRequests : regReq'[q] \in Registers} \subseteq RegRequests
        BY DEF Charges, Registers, Stages
      <3>2. IsFiniteSet(RegRequests)
        BY LimitsFinite DEF Limits!RegistrationAssumption
      <3> QED BY <3>1, <3>2, FS_Subset DEF Those
    <2> QED BY <1>0, <2>1, Numbers
  <1>13. TenantsFit'
    <2> HIDE DEF i
    <2>1. active + i <= MaxTenants + Cardinality(RegRequests) - 1 + reactivated
      BY <1>0 DEF TenantsFit, i
    <2>2. active' + i' <= MaxTenants + Cardinality(RegRequests) - 1 + reactivated'
      BY <1>1, <1>4, <1>5, <1>9, <1>12, <2>1
    <2> QED BY <2>2 DEF TenantsFit, i
  <1>14. BudgetFits'
    <2> HIDE DEF c, g
    <2>0. Within(windows, Spent, made, c, g)
      BY <1>0 DEF BudgetFits, c, g
    <2>1. made' + c <= made + c'
      BY <1>1, <1>4, <1>10, <1>12
    <2>2. windows # 0 => Spent + g' <= Budget
      <3>1. windows # 0 => Spent + g <= Budget
        BY <2>0 DEF Within
      <3> QED BY <1>0, <1>11, <1>12, <3>1, Numbers
    <2>3. windows = 0 => g' = 0
      <3>1. windows = 0 => g = 0
        BY <2>0 DEF Within
      <3> QED BY <1>11, <1>12, <3>1
    <2>4. Within(windows, Spent, made', c', g')
      <3>1. windows \in Nat /\ Spent \in Nat /\ Budget \in Nat /\ made' + Spent + c <= made + Spent + c'
        <4>1. windows \in Nat /\ Spent \in Nat /\ Budget \in Nat
          BY <1>0, Numbers
        <4>2. made \in Nat /\ made' \in Nat /\ c \in Nat /\ c' \in Nat
          BY <1>4, <1>5, <1>10, <1>12
        <4> QED BY <2>1, <4>1, <4>2, AddBoth
      <3> QED BY <1>4, <1>5, <1>10, <1>11, <1>12, <2>0, <2>2, <2>3, <3>1, WithinSame
    <2>5. Spent' = Spent
      BY <1>0 DEF Spent
    <2> QED BY <1>0, <2>4, <2>5 DEF BudgetFits, Within, Budget, c, g
  <1> QED BY <1>7, <1>13, <1>14 DEF LimitsInv

\* A tenant that was made, and an operator who was let in, are charged to the window that is open.
LEMMA ChargeKeeps ==
  ASSUME LimitsInv, Limits!RegistrationAssumption, NEW r \in RegRequests,
         Limits!ChargeRegistration(r) \/ Limits!RequireAdmin(r)
  PROVE  LimitsInv'
  <1>0. /\ regReq[r] \in Handler /\ LimitsTyped /\ TenantsFit /\ BudgetFits
        /\ UNCHANGED <<now, active, suspended, made, reactivated>>
    BY DEF Limits!ChargeRegistration, Limits!RequireAdmin, LimitsInv, LimitsTyped
  <1> DEFINE i == Cardinality(Those(Inserts))
  <1> DEFINE c == Cardinality(Those(Charges))
  <1> DEFINE g == Cardinality(Those(Registers))
  <1>1. CASE Limits!RequireAdmin(r)
    <2>1. PICK pc \in {"act", "idle"} :
             /\ Limits!Goto(r, pc) /\ regReq[r].pc = "token" /\ regReq[r].kind = "admin"
             /\ Limits!ChargeGlobal("admin") \/ UNCHANGED <<global, windows>>
      BY <1>1 DEF Limits!RequireAdmin
    <2>2. PICK v \in Handler : /\ regReq' = [regReq EXCEPT ![r] = v] /\ v.pc = pc
                               /\ v.kind = (IF pc = "idle" THEN "register" ELSE regReq[r].kind)
      BY <1>0, <2>1, GotoIs DEF Stages
    <2>3. /\ global' \in [{"register", "admin"} -> [count : Nat, until : Nat]]
          /\ global'["register"] = global["register"] /\ windows' = windows
      <3>1. CASE Limits!ChargeGlobal("admin")
        <4>1. Limits!Open("admin") \in [count : Nat, until : Nat] /\ windows' = windows
          BY <1>0, <3>1, OpenIs DEF Limits!ChargeGlobal
        <4>2. [Limits!Open("admin") EXCEPT !.count = Limits!Open("admin").count + 1] \in [count : Nat, until : Nat]
          BY <4>1
        <4>3. global' = [global EXCEPT !["admin"] = [Limits!Open("admin") EXCEPT !.count = Limits!Open("admin").count + 1]]
          BY <3>1 DEF Limits!ChargeGlobal
        <4> QED BY <1>0, <4>1, <4>2, <4>3 DEF LimitsTyped
      <3>2. CASE UNCHANGED <<global, windows>>
        BY <1>0, <3>2 DEF LimitsTyped
      <3> QED BY <2>1, <3>1, <3>2
    <2>4. LimitsTyped'
      <3>1. now' \in Nat \ {0} /\ active' \in Nat /\ made' \in Nat /\ windows' \in Nat /\ reactivated' \in Nat
        BY <1>0, <2>3 DEF LimitsTyped
      <3> QED BY <1>0, <2>1, <2>2, <2>3, <3>1, MoveTyped
    <2>5. /\ v \notin Inserts /\ v \notin Charges /\ v \notin Registers
          /\ regReq[r] \notin Inserts /\ regReq[r] \notin Charges /\ regReq[r] \notin Registers
      BY <1>0, <2>1, <2>2, Where
    <2>6. i' = i /\ c' = c /\ g' = g
      BY <1>0, <2>2, <2>5, Moves
    <2>7. Spent' = Spent
      BY <2>3 DEF Spent
    <2> QED BY <1>0, <2>3, <2>4, <2>6, <2>7 DEF LimitsInv, TenantsFit, BudgetFits, Within, Budget
  <1>2. CASE Limits!ChargeRegistration(r)
    <2> DEFINE open == Limits!Open("register")
    <2>1. regReq[r].pc = "charge" /\ Limits!ChargeGlobal("register") /\ Limits!Goto(r, "idle")
      BY <1>2 DEF Limits!ChargeRegistration
    <2>2. PICK v \in Handler : regReq' = [regReq EXCEPT ![r] = v] /\ v.pc = "idle"
      BY <1>0, <2>1, GotoIs DEF Stages
    <2>3. /\ open \in [count : Nat, until : Nat] /\ windows' \in Nat
          /\ \/ windows' = windows /\ windows # 0 /\ open.count = Spent
             \/ windows' = windows + 1 /\ open.count = 0
      BY <1>0, <2>1, OpenIs DEF Limits!ChargeGlobal
    <2>4. global' = [global EXCEPT !["register"] = [open EXCEPT !.count = open.count + 1]]
      BY <2>1 DEF Limits!ChargeGlobal
    <2> HIDE DEF open
    <2>5. [open EXCEPT !.count = open.count + 1] \in [count : Nat, until : Nat]
          /\ [open EXCEPT !.count = open.count + 1].count = open.count + 1
      BY <2>3
    <2>6. /\ global' \in [{"register", "admin"} -> [count : Nat, until : Nat]]
          /\ Spent' = open.count + 1
      BY <1>0, <2>4, <2>5 DEF LimitsTyped, Spent
    <2>7. LimitsTyped'
      <3>1. now' \in Nat \ {0} /\ active' \in Nat /\ made' \in Nat /\ reactivated' \in Nat
        BY <1>0 DEF LimitsTyped
      <3> QED BY <1>0, <2>2, <2>3, <2>6, <3>1, MoveTyped
    <2>8. /\ v \notin Inserts /\ v \notin Charges /\ v \notin Registers
          /\ regReq[r] \notin Inserts /\ regReq[r] \in Charges /\ regReq[r] \in Registers
      BY <1>0, <2>1, <2>2, Where DEF LimitsTyped
    <2>9. i' = i /\ c' = c - 1 /\ g' = g - 1 /\ c' \in Nat /\ g' \in Nat
      BY <1>0, <2>2, <2>8, Moves
    <2>10. TenantsFit'
      BY <1>0, <2>9 DEF TenantsFit
    <2>11. BudgetFits'
      <3> DEFINE n1 == open.count + 1
      <3>0. /\ windows \in Nat /\ Spent \in Nat /\ made \in Nat /\ c \in Nat /\ g \in Nat /\ Budget \in Nat /\ c <= g
            /\ g <= Cardinality(RegRequests) /\ Cardinality(RegRequests) \in Nat /\ Cardinality(RegRequests) <= Budget
            /\ n1 \in Nat /\ Within(windows, Spent, made, c, g)
        BY <1>0, <2>3, Numbers DEF BudgetFits
      <3>1. n1 = open.count + 1
        OBVIOUS
      <3> HIDE DEF i, c, g, n1
      <3>2. CASE windows' = windows /\ windows # 0 /\ open.count = Spent
        <4>1. Spent + g <= Budget
          BY <3>0, <3>2 DEF Within
        <4>2. n1 + g' <= Budget /\ c' <= g' /\ made + Spent + c <= made + n1 + c'
          BY <2>9, <3>0, <3>1, <3>2, <4>1
        <4>3. Within(windows, n1, made, c', g')
          BY <2>9, <3>0, <3>2, <4>2, WithinSame
        <4> QED BY <1>0, <2>6, <3>1, <3>2, <4>3 DEF BudgetFits, Within, Budget, c, g
      <3>3. CASE windows' = windows + 1 /\ open.count = 0
        <4>1. n1 + g' <= Budget /\ made + c <= made + n1 + c'
          BY <2>9, <3>0, <3>1, <3>3
        <4>2. Within(windows + 1, n1, made, c', g')
          BY <2>9, <3>0, <3>3, <4>1, WithinNext
        <4>3. windows' # 0
          BY <3>0, <3>3
        <4> QED BY <1>0, <2>6, <3>1, <3>3, <4>2, <4>3 DEF BudgetFits, Within, Budget, c, g
      <3> QED BY <2>3, <3>2, <3>3
    <2> QED BY <2>7, <2>10, <2>11 DEF LimitsInv
  <1> QED BY <1>1, <1>2

\* Time and the sweep of the entries change nothing that the bounds are about.
LEMMA ClockKeeps ==
  ASSUME LimitsInv, UNCHANGED <<global, regReq, active, made, windows, reactivated>>, now' = now \/ now' = now + 1
  PROVE  LimitsInv'
  <1>1. now' \in Nat \ {0}
    BY DEF LimitsInv, LimitsTyped
  <1> QED BY <1>1 DEF LimitsInv, LimitsTyped, TenantsFit, BudgetFits, Within, Budget, Spent, Those

\* The invariant of registration, and what follows from it.
LEMMA LimitsInductive ==
  ASSUME Limits!RegistrationAssumption
  PROVE  /\ Limits!Init => LimitsInv
         /\ LimitsInv /\ [Limits!Next]_limitsVars => LimitsInv'
         /\ LimitsInv => Limits!TenantsBounded
  <1>1. ASSUME Limits!Init
        PROVE  LimitsInv
    <2>1. /\ regReq = [r \in RegRequests |-> [pc |-> "idle", kind |-> "register"]] /\ now = 1
          /\ global = [kind \in {"register", "admin"} |-> [count |-> 0, until |-> 0]]
          /\ active = 0 /\ made = 0 /\ windows = 0 /\ reactivated = 0
      BY <1>1 DEF Limits!Init, Limits!Idle, Limits!Absent, Limits!Kinds
    <2>2. LimitsTyped
      BY <2>1 DEF LimitsTyped, Handler, Stages
    <2>3. Those(Inserts) = {} /\ Those(Registers) = {}
      BY <2>1 DEF Those, Inserts, Registers, Stages
    <2>4. TenantsFit
      <3>1. Cardinality(RegRequests) \in Nat \ {0} /\ MaxTenants \in Nat
        BY <2>2, Numbers
      <3>2. Cardinality(Those(Inserts)) = 0
        BY <2>3, FS_EmptySet
      <3> QED BY <2>1, <3>1, <3>2 DEF TenantsFit
    <2>5. BudgetFits
      BY <2>1, <2>3, FS_EmptySet DEF BudgetFits, Within
    <2> QED BY <2>2, <2>4, <2>5 DEF LimitsInv
  <1>2. LimitsInv /\ UNCHANGED limitsVars => LimitsInv'
    BY ClockKeeps DEF limitsVars
  <1>3. ASSUME LimitsInv, Limits!Next
        PROVE  LimitsInv'
    <2>1. CASE (\E kind \in Limits!Kinds : Limits!Sweep(kind)) \/ Limits!Tick
      BY <1>3, <2>1, ClockKeeps DEF Limits!Sweep, Limits!Tick
    <2>2. CASE \E r \in RegRequests, kind \in Limits!Kinds, c \in Clients : Limits!Allow(r, kind, c)
      BY <1>3, <2>2, AllowKeeps DEF Limits!Kinds
    <2> QED BY <1>3, <2>1, <2>2, HandlerKeeps, ChargeKeeps DEF Limits!Next
  <1>4. LimitsInv /\ [Limits!Next]_limitsVars => LimitsInv'
    BY <1>2, <1>3
  <1>5. ASSUME LimitsInv
        PROVE  Limits!TenantsBounded
    <2> DEFINE i == Cardinality(Those(Inserts))
    <2> DEFINE c == Cardinality(Those(Charges))
    <2> DEFINE g == Cardinality(Those(Registers))
    <2>1. Limits!InFlight = Cardinality(RegRequests) - 1
      BY LimitsCardinality DEF Limits!InFlight
    <2>2. /\ windows \in Nat /\ Spent \in Nat /\ made \in Nat /\ c \in Nat /\ g \in Nat /\ i \in Nat /\ c <= g
          /\ Budget \in Nat /\ Cardinality(RegRequests) \in Nat /\ MaxTenants \in Nat
          /\ active \in Nat /\ reactivated \in Nat
      BY <1>5, Numbers, Counts DEF LimitsInv, LimitsTyped
    <2>3. active + i <= MaxTenants + Cardinality(RegRequests) - 1 + reactivated /\ Within(windows, Spent, made, c, g)
      BY <1>5 DEF LimitsInv, TenantsFit, BudgetFits
    <2> HIDE DEF i, c, g
    <2>4. active <= MaxTenants + Limits!InFlight + reactivated
      BY <2>1, <2>2, <2>3
    <2>5. made <= windows * Budget
      <3> DEFINE all == windows * Budget
      <3>1. CASE windows = 0
        BY <2>2, <2>3, <3>1, NextWindow DEF Within
      <3>2. CASE windows # 0
        <4> DEFINE before == (windows - 1) * Budget
        <4>1. before \in Nat /\ all = before + Budget
          BY <2>2, <3>2, NextWindow
        <4>2. made <= before + Spent + c /\ Spent + g <= Budget
          BY <2>3, <3>2 DEF Within
        <4> HIDE DEF all, before
        <4>3. made <= all
          BY <2>2, <4>1, <4>2
        <4> QED BY <4>3 DEF all
      <3> QED BY <3>1, <3>2
    <2>6. Budget = Global + Limits!InFlight
      BY <2>1, <2>2 DEF Budget, Limits!RegistrationAssumption
    <2> QED BY <2>4, <2>5, <2>6 DEF Limits!TenantsBounded
  <1> QED BY <1>1, <1>4, <1>5

-----------------------------------------------------------------------------
(* The keyring. *)

RingKey == [born : 0..MaxSeconds, until : 1..Ring!Never, survivor : BOOLEAN]

RingHandler == [pc : {"idle", "insert", "revoke", "created", "conflict"}, kind : {"create", "recover"},
                now : 0..MaxSeconds, attempt : 0..MaxKeys, spent : Nat, wasted : Nat, others : Nat,
                cleared : BOOLEAN]

\* Where a sequence has the values of V.
Among(s, V) == {i \in DOMAIN s : s[i] \in V}

\* The keys that are live at t, and those of them that the cap counts.
LiveAt(t) == {k \in RingKey : k.until > t}
CountedAt(t) == {k \in RingKey : k.until > t /\ ~k.survivor}

\* How many keys are live at t.
Alive(t) == Cardinality(Among(keys, LiveAt(t)))

RingTyped ==
  /\ second \in 0..MaxSeconds /\ keys \in Seq(RingKey) /\ tenant \in {"active", "suspended"}
  /\ ringReq \in [RingRequests -> RingHandler]
  /\ \A r \in RingRequests : /\ ringReq[r].now <= second
                             /\ ringReq[r].spent + ringReq[r].wasted = ringReq[r].attempt
                             /\ ringReq[r].pc = "revoke" => ringReq[r].kind = "recover"

\* What recovery h may still revoke, of the n keys that it sees live: others account for all but
\* one of what it has revoked, and for what is over the quota.
RecoveryFits(h, n) == h.kind = "recover" =>
  /\ h.spent <= 1 + h.others
  /\ h.pc \in {"insert", "revoke"} => n + h.spent <= MaxKeys + h.others
  /\ h.pc = "revoke" => h.spent <= h.others /\ h.attempt < MaxKeys /\ (h.cleared \/ n >= MaxKeys)
  /\ h.pc = "conflict" => h.cleared \/ h.wasted + h.others >= MaxKeys

RingInv ==
  /\ RingTyped
  /\ Cardinality(Among(keys, CountedAt(second))) <= MaxKeys
  /\ tenant = "suspended" => \A i \in DOMAIN keys : keys[i].survivor
  /\ \A r \in RingRequests : RecoveryFits(ringReq[r], Alive(ringReq[r].now))

\* The module Keyring has its own copy of the operator.
LEMMA RingCardinality == ASSUME NEW S PROVE Ring!Cardinality(S) = Cardinality(S)
  BY DEF Ring!Cardinality, Cardinality

\* The values of V in a sequence are finitely many, and fewer than those of a larger set.
LEMMA AmongIs ==
  ASSUME NEW T, NEW s \in Seq(T), NEW V
  PROVE  /\ IsFiniteSet(Among(s, V)) /\ Cardinality(Among(s, V)) \in Nat
         /\ \A W : W \subseteq V => Cardinality(Among(s, W)) <= Cardinality(Among(s, V))
  <1>1. Among(s, V) \in SUBSET (1..Len(s)) /\ Len(s) \in Int
    BY DEF Among
  <1>2. IsFiniteSet(1..Len(s))
    BY <1>1, FS_Interval
  <1>4. IsFiniteSet(Among(s, V))
    BY <1>1, <1>2, FS_Subset
  <1>5. Cardinality(Among(s, V)) \in Nat
    BY <1>4, FS_CardinalityType
  <1>3. ASSUME NEW W, W \subseteq V
        PROVE  Among(s, W) \in SUBSET Among(s, V)
    BY <1>3 DEF Among
  <1> QED BY <1>3, <1>4, <1>5, FS_Subset

\* One more at the end.
LEMMA AmongAppend ==
  ASSUME NEW T, NEW s \in Seq(T), NEW e \in T, NEW V
  PROVE  Cardinality(Among(Append(s, e), V)) = Cardinality(Among(s, V)) + (IF e \in V THEN 1 ELSE 0)
  <1>0. Among(s, V) \subseteq 1..Len(s) /\ Len(s) \in Nat
    BY DEF Among
  <1>1. /\ Among(s, V) \subseteq 1..Len(s) /\ Len(s) \in Nat /\ IsFiniteSet(Among(s, V))
        /\ Cardinality(Among(s, V)) \in Nat
    BY <1>0, AmongIs
  <1>2. DOMAIN Append(s, e) = 1..(Len(s) + 1)
    OBVIOUS
  <1>3. \A i \in 1..Len(s) : Append(s, e)[i] = s[i]
    OBVIOUS
  <1>4. Append(s, e)[Len(s) + 1] = e
    OBVIOUS
  <1>5. CASE e \in V
    <2>1. Among(Append(s, e), V) = Among(s, V) \cup {Len(s) + 1}
      BY <1>1, <1>2, <1>3, <1>4, <1>5 DEF Among
    <2>2. Len(s) + 1 \notin Among(s, V)
      BY <1>1
    <2> QED BY <1>1, <1>5, <2>1, <2>2, FS_AddElement
  <1>6. CASE e \notin V
    <2>1. Among(Append(s, e), V) = Among(s, V)
      BY <1>1, <1>2, <1>3, <1>4, <1>6 DEF Among
    <2> QED BY <1>1, <1>6, <2>1
  <1> QED BY <1>5, <1>6

\* A sequence without its i-th value.
LEMMA WithoutIs ==
  ASSUME NEW T, NEW s \in Seq(T), NEW i \in DOMAIN s
  PROVE  /\ Ring!RemoveAt(s, i) \in Seq(T) /\ DOMAIN Ring!RemoveAt(s, i) = 1..(Len(s) - 1)
         /\ \A j \in 1..(Len(s) - 1) : Ring!RemoveAt(s, i)[j] = IF j < i THEN s[j] ELSE s[j + 1]
  <1> DEFINE before == SubSeq(s, 1, i - 1)
  <1> DEFINE after == SubSeq(s, i + 1, Len(s))
  <1>1. i \in 1..Len(s) /\ Len(s) \in Nat
    OBVIOUS
  <1>2. /\ before \in Seq(T) /\ Len(before) = i - 1
        /\ \A j \in 1..(i - 1) : before[j] = s[j]
    BY <1>1
  <1>3. /\ after \in Seq(T) /\ Len(after) = Len(s) - i
        /\ \A j \in 1..(Len(s) - i) : after[j] = s[i + j]
    BY <1>1
  <1>4. Ring!RemoveAt(s, i) = before \o after
    BY DEF Ring!RemoveAt
  <1> HIDE DEF before, after
  <1>5. /\ before \o after \in Seq(T) /\ Len(before \o after) = Len(before) + Len(after)
        /\ \A j \in 1..(Len(before) + Len(after)) :
             (before \o after)[j] = IF j <= Len(before) THEN before[j] ELSE after[j - Len(before)]
    BY <1>2, <1>3
  <1>7. Len(before) + Len(after) = Len(s) - 1
    BY <1>1, <1>2, <1>3
  <1>6. ASSUME NEW j \in 1..(Len(s) - 1)
        PROVE  (before \o after)[j] = IF j < i THEN s[j] ELSE s[j + 1]
    <2>1. CASE j < i
      BY <1>1, <1>2, <1>5, <1>7, <2>1
    <2>2. CASE ~(j < i)
      <3>1. j - (i - 1) \in 1..(Len(s) - i) /\ i + (j - (i - 1)) = j + 1
        BY <1>1, <2>2
      <3>2. (before \o after)[j] = after[j - (i - 1)]
        BY <1>1, <1>2, <1>5, <1>7, <2>2
      <3>3. after[j - (i - 1)] = s[j + 1]
        BY <1>3, <3>1
      <3> QED BY <2>2, <3>2, <3>3
    <2> QED BY <2>1, <2>2
  <1> QED BY <1>1, <1>4, <1>5, <1>6, <1>7

\* One less.
LEMMA AmongRemove ==
  ASSUME NEW T, NEW s \in Seq(T), NEW i \in DOMAIN s, NEW V
  PROVE  /\ s[i] \in V => Cardinality(Among(s, V)) = Cardinality(Among(Ring!RemoveAt(s, i), V)) + 1
         /\ s[i] \notin V => Cardinality(Among(s, V)) = Cardinality(Among(Ring!RemoveAt(s, i), V))
  <1> DEFINE t == Ring!RemoveAt(s, i)
  <1> DEFINE up(j) == IF j < i THEN j ELSE j + 1
  <1> DEFINE S == Among(t, V)
  <1> DEFINE R == Among(s, V) \ {i}
  <1> DEFINE f == [j \in S |-> up(j)]
  <1>1. /\ i \in 1..Len(s) /\ Len(s) \in Nat /\ t \in Seq(T) /\ DOMAIN t = 1..(Len(s) - 1)
        /\ \A j \in 1..(Len(s) - 1) : t[j] = s[up(j)]
    BY WithoutIs
  <1> HIDE DEF t
  <1>2. ASSUME NEW j \in S
        PROVE  up(j) \in R
    BY <1>1, <1>2 DEF Among
  <1>3. ASSUME NEW j \in S, NEW k \in S, up(j) = up(k)
        PROVE  j = k
    BY <1>1, <1>3 DEF Among
  <1>4. ASSUME NEW j \in R
        PROVE  \E k \in S : up(k) = j
    <2> DEFINE k == IF j < i THEN j ELSE j - 1
    <2>1. j \in 1..Len(s) /\ j # i /\ s[j] \in V
      BY <1>4 DEF Among
    <2>2. k \in 1..(Len(s) - 1) /\ up(k) = j
      BY <1>1, <2>1
    <2>3. k \in S
      BY <1>1, <2>1, <2>2 DEF Among
    <2> QED BY <2>2, <2>3
  <1>5. f \in Injection(S, R)
    BY <1>2, <1>3 DEF Injection, IsInjective
  <1>6. f \in Surjection(S, R)
    BY <1>2, <1>4 DEF Surjection
  <1>7. IsFiniteSet(Among(s, V)) /\ Cardinality(Among(s, V)) \in Nat
    BY AmongIs
  <1>8. IsFiniteSet(R) /\ Cardinality(R) = IF i \in Among(s, V) THEN Cardinality(Among(s, V)) - 1
                                           ELSE Cardinality(Among(s, V))
    BY <1>7, FS_RemoveElement
  <1>9. Cardinality(S) = Cardinality(R)
    BY <1>5, <1>6, <1>8, FS_Injection
  <1>10. i \in Among(s, V) <=> s[i] \in V
    BY DEF Among
  <1> QED BY <1>7, <1>8, <1>9, <1>10 DEF t

\* The empty sequence has none.
LEMMA AmongNone == ASSUME NEW V PROVE Cardinality(Among(<<>>, V)) = 0
  BY FS_EmptySet DEF Among

\* What Keyring counts.
LEMMA AliveIs ==
  ASSUME RingTyped, NEW t
  PROVE  /\ Ring!LiveKeys(t) = Among(keys, LiveAt(t))
         /\ Ring!Cardinality(Ring!LiveKeys(t)) = Alive(t) /\ Alive(t) \in Nat
  <1>1. \A i \in DOMAIN keys : keys[i] \in RingKey
    BY DEF RingTyped
  <1>2. Ring!LiveKeys(t) = Among(keys, LiveAt(t))
    BY <1>1 DEF Ring!LiveKeys, Among, LiveAt
  <1>3. Cardinality(Among(keys, LiveAt(t))) \in Nat
    BY AmongIs DEF RingTyped
  <1> QED BY <1>2, <1>3, RingCardinality DEF Alive

\* How a handler sees a key that is made, or goes, while it recovers; what it does not see is
\* nothing to one that does not.
LEMMA Seen ==
  ASSUME NEW h \in RingHandler, NEW n \in Nat, NEW m \in Nat, RecoveryFits(h, n), MaxKeys \in Nat
  PROVE  /\ n <= m /\ m <= n + 1 => RecoveryFits([h EXCEPT !.others = @ + 1], m)
         /\ m <= n => RecoveryFits([h EXCEPT !.cleared = TRUE], m)
         /\ ~(h.kind = "recover" /\ h.pc \in {"insert", "revoke"}) => RecoveryFits(h, m)
         /\ [h EXCEPT !.others = @ + 1] \in RingHandler /\ [h EXCEPT !.cleared = TRUE] \in RingHandler
  <1> DEFINE a == [h EXCEPT !.others = @ + 1]
  <1> DEFINE b == [h EXCEPT !.cleared = TRUE]
  <1>1. /\ a \in RingHandler /\ a.pc = h.pc /\ a.kind = h.kind /\ a.attempt = h.attempt /\ a.spent = h.spent
        /\ a.wasted = h.wasted /\ a.others = h.others + 1 /\ a.cleared = h.cleared
    BY DEF RingHandler
  <1>2. /\ b \in RingHandler /\ b.pc = h.pc /\ b.kind = h.kind /\ b.attempt = h.attempt /\ b.spent = h.spent
        /\ b.wasted = h.wasted /\ b.others = h.others /\ b.cleared = TRUE
    BY DEF RingHandler
  <1>3. h.spent \in Nat /\ h.wasted \in Nat /\ h.others \in Nat /\ h.attempt \in Nat
    BY DEF RingHandler
  <1> HIDE DEF a, b
  <1>4. n <= m /\ m <= n + 1 => RecoveryFits(a, m)
    BY <1>1, <1>3 DEF RecoveryFits
  <1>5. m <= n => RecoveryFits(b, m)
    BY <1>2, <1>3 DEF RecoveryFits
  <1>6. ~(h.kind = "recover" /\ h.pc \in {"insert", "revoke"}) => RecoveryFits(h, m)
    BY DEF RecoveryFits
  <1> QED BY <1>1, <1>2, <1>4, <1>5, <1>6 DEF a, b

\* The handlers when key e is made.
LEMMA MadeKeeps ==
  ASSUME RingInv, NEW e \in RingKey, keys' = Append(keys, e), NEW q \in RingRequests, MaxKeys \in Nat,
         ringReq'[q] = Ring!SeeMade(q)
  PROVE  /\ ringReq'[q] \in RingHandler /\ ringReq'[q].now = ringReq[q].now /\ ringReq'[q].kind = ringReq[q].kind
         /\ ringReq'[q].pc = ringReq[q].pc /\ ringReq'[q].attempt = ringReq[q].attempt
         /\ ringReq'[q].spent = ringReq[q].spent /\ ringReq'[q].wasted = ringReq[q].wasted
         /\ RecoveryFits(ringReq[q], Alive(ringReq[q].now))'
  <1> DEFINE h == ringReq[q]
  <1> DEFINE n == Cardinality(Among(keys, LiveAt(h.now)))
  <1> DEFINE m == Cardinality(Among(keys', LiveAt(h.now)))
  <1>1. h \in RingHandler /\ keys \in Seq(RingKey) /\ RecoveryFits(h, n)
    BY DEF RingInv, RingTyped, Alive
  <1>2. n \in Nat /\ m = n + (IF e \in LiveAt(h.now) THEN 1 ELSE 0)
    BY <1>1, AmongIs, AmongAppend
  <1>3. ringReq'[q] = IF h.kind = "recover" /\ h.pc \in {"insert", "revoke"}
                      THEN [h EXCEPT !.others = @ + 1] ELSE h
    BY DEF Ring!SeeMade, Ring!Recovering
  <1>4. /\ ringReq'[q].now = h.now /\ ringReq'[q].kind = h.kind /\ ringReq'[q].pc = h.pc
        /\ ringReq'[q].attempt = h.attempt /\ ringReq'[q].spent = h.spent /\ ringReq'[q].wasted = h.wasted
    BY <1>1, <1>3 DEF RingHandler
  <1> HIDE DEF n, m, h
  <1>5. m \in Nat /\ n <= m /\ m <= n + 1
    BY <1>2
  <1>6. ringReq'[q] \in RingHandler /\ RecoveryFits(ringReq'[q], m)
    BY <1>1, <1>2, <1>3, <1>5, Seen
  <1>7. Alive(ringReq[q].now)' = m
    BY <1>4 DEF Alive, m
  <1> QED BY <1>4, <1>6, <1>7 DEF h

\* The handlers when keys go.
LEMMA GoneKeeps ==
  ASSUME RingInv, keys' \in Seq(RingKey), NEW q \in RingRequests, MaxKeys \in Nat,
         Cardinality(Among(keys', LiveAt(ringReq[q].now))) <= Cardinality(Among(keys, LiveAt(ringReq[q].now))),
         ringReq'[q] = Ring!SeeGone(q)
  PROVE  /\ ringReq'[q] \in RingHandler /\ ringReq'[q].now = ringReq[q].now /\ ringReq'[q].kind = ringReq[q].kind
         /\ ringReq'[q].pc = ringReq[q].pc /\ ringReq'[q].attempt = ringReq[q].attempt
         /\ ringReq'[q].spent = ringReq[q].spent /\ ringReq'[q].wasted = ringReq[q].wasted
         /\ RecoveryFits(ringReq[q], Alive(ringReq[q].now))'
  <1> DEFINE h == ringReq[q]
  <1> DEFINE n == Cardinality(Among(keys, LiveAt(h.now)))
  <1> DEFINE m == Cardinality(Among(keys', LiveAt(h.now)))
  <1>1. h \in RingHandler /\ keys \in Seq(RingKey) /\ RecoveryFits(h, n)
    BY DEF RingInv, RingTyped, Alive
  <1>2. n \in Nat /\ m \in Nat /\ m <= n
    BY <1>1, AmongIs
  <1>3. ringReq'[q] = IF h.kind = "recover" /\ h.pc \in {"insert", "revoke"}
                      THEN [h EXCEPT !.cleared = TRUE] ELSE h
    BY DEF Ring!SeeGone, Ring!Recovering
  <1>4. /\ ringReq'[q].now = h.now /\ ringReq'[q].kind = h.kind /\ ringReq'[q].pc = h.pc
        /\ ringReq'[q].attempt = h.attempt /\ ringReq'[q].spent = h.spent /\ ringReq'[q].wasted = h.wasted
    BY <1>1, <1>3 DEF RingHandler
  <1> HIDE DEF n, m, h
  <1>6. ringReq'[q] \in RingHandler /\ RecoveryFits(ringReq'[q], m)
    BY <1>1, <1>2, <1>3, Seen
  <1>7. Alive(ringReq[q].now)' = m
    BY <1>4 DEF Alive, m
  <1> QED BY <1>4, <1>6, <1>7 DEF h

\* What a step that removes keys has to show: the cap, and what the handlers see.
LEMMA FewerKeep ==
  ASSUME RingInv, Ring!KeyringAssumption, keys' \in Seq(RingKey),
         \A V \in SUBSET RingKey : Cardinality(Among(keys', V)) <= Cardinality(Among(keys, V)),
         \A j \in DOMAIN keys' : \E i \in DOMAIN keys : keys'[j] = keys[i],
         UNCHANGED second, tenant' \in {tenant, "suspended"}, tenant' = "active" \/ keys' = <<>> \/ tenant' = tenant,
         ringReq' \in [RingRequests -> RingHandler],
         \A q \in RingRequests : ringReq'[q] = Ring!SeeGone(q) \/
           /\ ringReq'[q].now = ringReq[q].now
           /\ ringReq'[q].spent + ringReq'[q].wasted = ringReq'[q].attempt
           /\ ringReq'[q].pc = "revoke" => ringReq'[q].kind = "recover"
           /\ RecoveryFits(ringReq'[q], Cardinality(Among(keys', LiveAt(ringReq[q].now))))
  PROVE  RingInv'
  <1>1. second' \in 0..MaxSeconds /\ tenant' \in {"active", "suspended"} /\ MaxKeys \in Nat
    BY DEF RingInv, RingTyped, Ring!KeyringAssumption
  <1>2. ASSUME NEW q \in RingRequests
        PROVE  /\ ringReq'[q].now <= second' /\ ringReq'[q].spent + ringReq'[q].wasted = ringReq'[q].attempt
               /\ ringReq'[q].pc = "revoke" => ringReq'[q].kind = "recover"
               /\ RecoveryFits(ringReq[q], Alive(ringReq[q].now))'
    <2>1. ringReq[q].now <= second /\ ringReq[q].spent + ringReq[q].wasted = ringReq[q].attempt
      BY DEF RingInv, RingTyped
    <2>2. ringReq[q].pc = "revoke" => ringReq[q].kind = "recover"
      BY DEF RingInv, RingTyped
    <2>3. CASE ringReq'[q] = Ring!SeeGone(q)
      <3>1. Cardinality(Among(keys', LiveAt(ringReq[q].now))) <= Cardinality(Among(keys, LiveAt(ringReq[q].now)))
        BY DEF LiveAt
      <3> QED BY <1>1, <2>1, <2>2, <2>3, <3>1, GoneKeeps
    <2>4. CASE ringReq'[q] # Ring!SeeGone(q)
      <3>1. /\ ringReq'[q].now = ringReq[q].now /\ ringReq'[q].spent + ringReq'[q].wasted = ringReq'[q].attempt
            /\ ringReq'[q].pc = "revoke" => ringReq'[q].kind = "recover"
            /\ RecoveryFits(ringReq'[q], Cardinality(Among(keys', LiveAt(ringReq[q].now))))
        BY <2>4
      <3>2. Alive(ringReq[q].now)' = Cardinality(Among(keys', LiveAt(ringReq[q].now)))
        BY <3>1 DEF Alive
      <3> QED BY <2>1, <3>1, <3>2
    <2> QED BY <2>3, <2>4
  <1>3. RingTyped'
    BY <1>1, <1>2 DEF RingTyped
  <1>4. Cardinality(Among(keys, CountedAt(second)))' <= MaxKeys
    <2>1. Cardinality(Among(keys', CountedAt(second))) <= Cardinality(Among(keys, CountedAt(second)))
      BY DEF CountedAt
    <2>2. Cardinality(Among(keys, CountedAt(second))) \in Nat /\ Cardinality(Among(keys', CountedAt(second))) \in Nat
      BY AmongIs DEF RingInv, RingTyped
    <2>3. Cardinality(Among(keys, CountedAt(second))) <= MaxKeys
      BY DEF RingInv
    <2>4. Cardinality(Among(keys', CountedAt(second))) <= MaxKeys
      BY <1>1, <2>1, <2>2, <2>3
    <2> QED BY <2>4
  <1>5. tenant' = "suspended" => \A j \in DOMAIN keys' : keys'[j].survivor
    <2>1. CASE keys' = <<>>
      BY <2>1
    <2>2. CASE tenant' = tenant
      BY <2>2 DEF RingInv
    <2> QED BY <1>1, <2>1, <2>2
  <1> QED BY <1>2, <1>3, <1>4, <1>5 DEF RingInv

\* A request comes.
LEMMA RingBegins ==
  ASSUME RingInv, Ring!KeyringAssumption, NEW r \in RingRequests, NEW kind \in {"create", "recover"},
         Ring!Begin(r, kind)
  PROVE  RingInv'
  <1> DEFINE o == IF kind = "recover" THEN Ring!Surplus ELSE 0
  <1> DEFINE h == [Ring!Idle EXCEPT !.pc = "insert", !.kind = kind, !.now = second, !.others = o]
  <1>1. UNCHANGED <<second, keys, tenant>> /\ ringReq' = [ringReq EXCEPT ![r] = h]
    BY DEF Ring!Begin
  <1>2. RingTyped /\ MaxKeys \in Nat /\ second \in 0..MaxSeconds /\ MaxSeconds \in Nat
    BY DEF RingInv, RingTyped, Ring!KeyringAssumption
  <1>3. Alive(second) \in Nat /\ Ring!Surplus = IF Alive(second) > MaxKeys THEN Alive(second) - MaxKeys ELSE 0
    BY <1>2, AliveIs DEF Ring!Surplus
  <1>4. /\ h.pc = "insert" /\ h.kind = kind /\ h.now = second /\ h.attempt = 0 /\ h.spent = 0 /\ h.wasted = 0
        /\ h.others = o /\ h.cleared = FALSE
    BY DEF Ring!Idle
  <1>5. o \in Nat /\ (kind = "recover" => Alive(second) <= MaxKeys + o)
    BY <1>2, <1>3
  <1> HIDE DEF o
  <1>12. h \in RingHandler
    <2>1. Ring!Idle \in RingHandler /\ kind \in {"create", "recover"}
      BY <1>2 DEF RingHandler, Ring!Idle
    <2>2. ASSUME NEW i \in RingHandler
          PROVE  [i EXCEPT !.pc = "insert", !.kind = kind, !.now = second, !.others = o] \in RingHandler
      BY <1>2, <1>5, <2>1 DEF RingHandler
    <2> QED BY <2>1, <2>2
  <1>6. RecoveryFits(h, Alive(second))
    BY <1>2, <1>3, <1>4, <1>5 DEF RecoveryFits
  <1> HIDE DEF h
  <1>7. ringReq' \in [RingRequests -> RingHandler] /\ ringReq'[r] = h /\ \A q \in RingRequests \ {r} : ringReq'[q] = ringReq[q]
    BY <1>1, <1>2, <1>12 DEF RingTyped
  <1>8. \A t : Alive(t)' = Cardinality(Among(keys, LiveAt(t)))
    BY <1>1 DEF Alive
  <1>9. ASSUME NEW q \in RingRequests
        PROVE  /\ ringReq'[q].now <= second' /\ ringReq'[q].spent + ringReq'[q].wasted = ringReq'[q].attempt
               /\ ringReq'[q].pc = "revoke" => ringReq'[q].kind = "recover"
               /\ RecoveryFits(ringReq[q], Alive(ringReq[q].now))'
    <2>1. CASE q = r
      <3>1. Alive(ringReq[q].now)' = Alive(second)
        BY <1>4, <1>7, <1>1, <2>1 DEF Alive
      <3> QED BY <1>1, <1>2, <1>4, <1>6, <1>7, <2>1, <3>1
    <2>2. CASE q # r
      <3>1. ringReq'[q] = ringReq[q] /\ Alive(ringReq[q].now)' = Alive(ringReq[q].now)
        BY <1>1, <1>7, <2>2 DEF Alive
      <3> QED BY <1>1, <3>1 DEF RingInv, RingTyped
    <2> QED BY <2>1, <2>2
  <1>10. RingTyped'
    BY <1>1, <1>2, <1>7, <1>9 DEF RingTyped
  <1>11. Cardinality(Among(keys', CountedAt(second'))) <= MaxKeys
         /\ (tenant' = "suspended" => \A i \in DOMAIN keys' : keys'[i].survivor)
    BY <1>1 DEF RingInv
  <1> QED BY <1>9, <1>10, <1>11 DEF RingInv

\* A handler's INSERT: the key is made while the query counts fewer than MaxKeys, or survives the
\* suspension.
LEMMA InsertKeeps ==
  ASSUME RingInv, Ring!KeyringAssumption, NEW r \in RingRequests, ringReq[r].pc = "insert", Ring!Fits(r),
         NEW until \in 1..Ring!Never, Ring!Insert(r, until), UNCHANGED <<second, tenant>>
  PROVE  RingInv'
  <1> DEFINE e == [born |-> ringReq[r].now, until |-> until, survivor |-> tenant = "suspended"]
  <1> DEFINE h == [ringReq[r] EXCEPT !.pc = "created"]
  <1>1. /\ keys' = Append(keys, e)
        /\ ringReq' = [q \in RingRequests |-> IF q = r THEN h ELSE Ring!SeeMade(q)]
    BY DEF Ring!Insert
  <1>2. /\ RingTyped /\ MaxKeys \in Nat /\ second \in 0..MaxSeconds /\ MaxSeconds \in Nat /\ keys \in Seq(RingKey)
        /\ ringReq[r] \in RingHandler /\ ringReq[r].now <= second /\ ringReq[r].now \in 0..MaxSeconds
    BY DEF RingInv, RingTyped, Ring!KeyringAssumption, RingHandler
  <1>3. e \in RingKey /\ e.survivor = (tenant = "suspended")
    BY <1>2 DEF RingKey
  <1>4. /\ h \in RingHandler /\ h.pc = "created" /\ h.kind = ringReq[r].kind /\ h.now = ringReq[r].now
        /\ h.attempt = ringReq[r].attempt /\ h.spent = ringReq[r].spent /\ h.wasted = ringReq[r].wasted
        /\ h.others = ringReq[r].others
    BY <1>2 DEF RingHandler
  <1> HIDE DEF e, h
  <1>5. keys' \in Seq(RingKey)
    BY <1>1, <1>2, <1>3
  <1>6. Alive(ringReq[r].now) < MaxKeys /\ Alive(ringReq[r].now) \in Nat
    BY <1>2, AliveIs DEF Ring!Fits
  <1>7. ASSUME NEW q \in RingRequests
        PROVE  /\ ringReq'[q] \in RingHandler
               /\ ringReq'[q].now <= second' /\ ringReq'[q].spent + ringReq'[q].wasted = ringReq'[q].attempt
               /\ ringReq'[q].pc = "revoke" => ringReq'[q].kind = "recover"
               /\ RecoveryFits(ringReq[q], Alive(ringReq[q].now))'
    <2>1. CASE q = r
      <3>1. ringReq'[q] = h
        BY <1>1, <2>1
      <3>2. RecoveryFits(ringReq[r], Alive(ringReq[r].now)) /\ ringReq[r].spent + ringReq[r].wasted = ringReq[r].attempt
        BY DEF RingInv, RingTyped
      <3>3. \A m : RecoveryFits(h, m)
        BY <1>4, <3>2 DEF RecoveryFits
      <3>4. RecoveryFits(ringReq'[q], Alive(ringReq[q].now)')
        BY <3>1, <3>3
      <3> QED BY <1>2, <1>4, <3>1, <3>2, <3>4
    <2>2. CASE q # r
      <3>1. ringReq'[q] = Ring!SeeMade(q)
        BY <1>1, <2>2
      <3>2. ringReq[q].now <= second /\ ringReq[q].spent + ringReq[q].wasted = ringReq[q].attempt
            /\ (ringReq[q].pc = "revoke" => ringReq[q].kind = "recover")
        BY DEF RingInv, RingTyped
      <3> QED BY <1>1, <1>2, <1>3, <3>1, <3>2, MadeKeeps
    <2> QED BY <2>1, <2>2
  <1>8. ringReq' \in [RingRequests -> RingHandler]
    BY <1>1, <1>7
  <1>9. RingTyped'
    BY <1>2, <1>5, <1>7, <1>8 DEF RingInv, RingTyped
  <1>10. Cardinality(Among(keys, CountedAt(second)))' <= MaxKeys
    <2> DEFINE n == Cardinality(Among(keys, CountedAt(second)))
    <2>1. Cardinality(Among(keys', CountedAt(second))) = n + (IF e \in CountedAt(second) THEN 1 ELSE 0)
      BY <1>1, <1>2, <1>3, AmongAppend
    <2>2. CountedAt(second) \subseteq LiveAt(ringReq[r].now)
      <3>1. \A k \in RingKey : k.until \in Int
        BY <1>2 DEF RingKey, Ring!Never
      <3> QED BY <1>2, <3>1 DEF CountedAt, LiveAt
    <2>3. n <= Alive(ringReq[r].now) /\ n \in Nat
      BY <1>2, <2>2, AmongIs DEF Alive
    <2>4. n + 1 <= MaxKeys
      BY <1>2, <1>6, <2>3
    <2>5. n <= MaxKeys
      BY <1>2, <2>3, <2>4
    <2> HIDE DEF n
    <2>6. Cardinality(Among(keys', CountedAt(second))) <= MaxKeys
      BY <1>2, <2>1, <2>3, <2>4, <2>5
    <2> QED BY <2>6
  <1>11. tenant' = "suspended" => \A i \in DOMAIN keys' : keys'[i].survivor
    <2>1. ASSUME tenant = "suspended", NEW i \in DOMAIN keys'
          PROVE  keys'[i].survivor
      <3>1. \A j \in DOMAIN keys : keys[j].survivor
        BY <2>1 DEF RingInv
      <3>2. e.survivor
        BY <1>3, <2>1
      <3>3. i \in 1..(Len(keys) + 1) /\ (i \in 1..Len(keys) => keys'[i] = keys[i]) /\ (i = Len(keys) + 1 => keys'[i] = e)
        BY <1>1, <1>2, <2>1
      <3>4. i \in DOMAIN keys \/ i = Len(keys) + 1
        BY <1>2, <3>3
      <3> QED BY <1>2, <3>1, <3>2, <3>3, <3>4
    <2> QED BY <2>1
  <1> QED BY <1>7, <1>9, <1>10, <1>11 DEF RingInv

\* A handler that moves on without touching the keys.
LEMMA RingMovesOn ==
  ASSUME RingInv, Ring!KeyringAssumption, NEW r \in RingRequests, UNCHANGED <<second, keys, tenant>>,
         NEW h \in RingHandler, ringReq' = [ringReq EXCEPT ![r] = h],
         h.now \in {0, ringReq[r].now}, h.spent + h.wasted = h.attempt, h.pc = "revoke" => h.kind = "recover",
         RecoveryFits(h, Alive(h.now))
  PROVE  RingInv'
  <1>1. RingTyped /\ MaxKeys \in Nat /\ second \in 0..MaxSeconds /\ ringReq[r].now <= second
    BY DEF RingInv, RingTyped, Ring!KeyringAssumption
  <1>2. ringReq' \in [RingRequests -> RingHandler] /\ ringReq'[r] = h /\ \A q \in RingRequests \ {r} : ringReq'[q] = ringReq[q]
    BY <1>1 DEF RingTyped
  <1>3. ASSUME NEW q \in RingRequests
        PROVE  /\ ringReq'[q].now <= second' /\ ringReq'[q].spent + ringReq'[q].wasted = ringReq'[q].attempt
               /\ ringReq'[q].pc = "revoke" => ringReq'[q].kind = "recover"
               /\ RecoveryFits(ringReq[q], Alive(ringReq[q].now))'
    <2>1. CASE q = r
      <3>1. Alive(ringReq[q].now)' = Alive(h.now)
        BY <1>2, <2>1 DEF Alive
      <3> QED BY <1>1, <1>2, <2>1, <3>1
    <2>2. CASE q # r
      <3>1. ringReq'[q] = ringReq[q] /\ Alive(ringReq[q].now)' = Alive(ringReq[q].now)
        BY <1>2, <2>2 DEF Alive
      <3> QED BY <3>1 DEF RingInv, RingTyped
    <2> QED BY <2>1, <2>2
  <1>4. RingTyped'
    BY <1>1, <1>2, <1>3 DEF RingTyped
  <1>5. Cardinality(Among(keys', CountedAt(second'))) <= MaxKeys
        /\ (tenant' = "suspended" => \A i \in DOMAIN keys' : keys'[i].survivor)
    BY DEF RingInv
  <1> QED BY <1>3, <1>4, <1>5 DEF RingInv

\* A creation that finds the keyring full, and a recovery that does: what it may revoke comes from
\* what others made, so its retries are used up by them and by expired keys.
LEMMA FullKeeps ==
  ASSUME RingInv, Ring!KeyringAssumption, NEW r \in RingRequests, ringReq[r].pc = "insert", ~Ring!Fits(r),
         NEW pc, Ring!Goto(r, pc), UNCHANGED <<second, keys, tenant>>,
         IF ringReq[r].kind = "create" THEN pc = "conflict"
         ELSE pc = IF ringReq[r].attempt >= MaxKeys THEN "conflict" ELSE "revoke"
  PROVE  RingInv'
  <1> DEFINE h == [ringReq[r] EXCEPT !.pc = pc]
  <1> DEFINE n == Alive(ringReq[r].now)
  <1>1. RingTyped /\ MaxKeys \in Nat /\ ringReq[r] \in RingHandler /\ ringReq[r].spent + ringReq[r].wasted = ringReq[r].attempt
    BY DEF RingInv, RingTyped, Ring!KeyringAssumption
  <1>2. pc \in {"conflict", "revoke"} /\ (pc = "revoke" => ringReq[r].kind = "recover")
    BY <1>1 DEF RingHandler
  <1>3. /\ h \in RingHandler /\ h.pc = pc /\ h.kind = ringReq[r].kind /\ h.now = ringReq[r].now
        /\ h.attempt = ringReq[r].attempt /\ h.spent = ringReq[r].spent /\ h.wasted = ringReq[r].wasted
        /\ h.others = ringReq[r].others /\ h.cleared = ringReq[r].cleared
    BY <1>1, <1>2 DEF RingHandler
  <1>4. n \in Nat /\ n >= MaxKeys
    BY <1>1, AliveIs DEF Ring!Fits
  <1>5. RecoveryFits(ringReq[r], n) /\ ringReq' = [ringReq EXCEPT ![r] = h]
    BY DEF RingInv, Ring!Goto
  <1>6. h.spent \in Nat /\ h.wasted \in Nat /\ h.others \in Nat /\ h.attempt \in Nat
    BY <1>1, <1>3 DEF RingHandler
  <1> HIDE DEF h, n
  <1>7. RecoveryFits(h, n)
    <2>1. CASE h.kind # "recover"
      BY <2>1 DEF RecoveryFits
    <2>2. CASE h.kind = "recover"
      <3>1. h.spent <= 1 + h.others /\ n + h.spent <= MaxKeys + h.others
        BY <1>3, <1>5, <2>2 DEF RecoveryFits
      <3>2. h.spent <= h.others
        BY <1>1, <1>4, <1>6, <3>1
      <3>3. h.kind # "create" /\ pc = IF h.attempt >= MaxKeys THEN "conflict" ELSE "revoke"
        BY <1>3, <2>2
      <3>4. CASE h.attempt >= MaxKeys
        <4>1. h.wasted + h.others >= MaxKeys
          BY <1>1, <1>3, <1>6, <3>2, <3>4
        <4> QED BY <1>3, <3>1, <3>3, <3>4, <4>1 DEF RecoveryFits
      <3>5. CASE ~(h.attempt >= MaxKeys)
        <4>1. h.attempt < MaxKeys
          BY <1>1, <1>6, <3>5
        <4> QED BY <1>3, <1>4, <3>1, <3>2, <3>3, <3>5, <4>1 DEF RecoveryFits
      <3> QED BY <3>4, <3>5
    <2> QED BY <2>1, <2>2
  <1>8. h.now = ringReq[r].now /\ h.spent + h.wasted = h.attempt /\ (h.pc = "revoke" => h.kind = "recover")
    BY <1>1, <1>2, <1>3
  <1> QED BY <1>3, <1>5, <1>7, <1>8, RingMovesOn DEF n

\* The sequence without its i-th key has no more of anything.
LEMMA RemoveLeaves ==
  ASSUME RingTyped, NEW i \in DOMAIN keys, keys' = Ring!RemoveAt(keys, i)
  PROVE  /\ keys' \in Seq(RingKey)
         /\ \A V \in SUBSET RingKey : Cardinality(Among(keys', V)) <= Cardinality(Among(keys, V))
         /\ \A j \in DOMAIN keys' : \E k \in DOMAIN keys : keys'[j] = keys[k]
  <1>1. keys \in Seq(RingKey) /\ Len(keys) \in Nat /\ i \in 1..Len(keys)
    BY DEF RingTyped
  <1>2. /\ keys' \in Seq(RingKey) /\ DOMAIN keys' = 1..(Len(keys) - 1)
        /\ \A j \in 1..(Len(keys) - 1) : keys'[j] = IF j < i THEN keys[j] ELSE keys[j + 1]
    BY <1>1, WithoutIs
  <1>3. ASSUME NEW V \in SUBSET RingKey
        PROVE  Cardinality(Among(keys', V)) <= Cardinality(Among(keys, V))
    <2> DEFINE n == Cardinality(Among(keys, V))
    <2> DEFINE m == Cardinality(Among(keys', V))
    <2>1. n \in Nat /\ m \in Nat
      BY <1>1, <1>2, AmongIs
    <2>2. n = m + 1 \/ n = m
      BY <1>1, AmongRemove
    <2> HIDE DEF n, m
    <2>3. m <= n
      BY <2>1, <2>2
    <2> QED BY <2>3 DEF n, m
  <1>4. ASSUME NEW j \in DOMAIN keys'
        PROVE  \E k \in DOMAIN keys : keys'[j] = keys[k]
    <2>1. j \in 1..(Len(keys) - 1)
      BY <1>2, <1>4
    <2>2. j \in DOMAIN keys /\ j + 1 \in DOMAIN keys
      BY <1>1, <2>1
    <2>3. keys'[j] = keys[j] \/ keys'[j] = keys[j + 1]
      BY <1>2, <2>1
    <2> QED BY <2>2, <2>3
  <1> QED BY <1>2, <1>3, <1>4

\* A key is revoked.
LEMMA RevokeKeeps ==
  ASSUME RingInv, Ring!KeyringAssumption, NEW i \in DOMAIN keys, Ring!Revoke(i)
  PROVE  RingInv'
  <1>1. /\ tenant = "active" /\ keys' = Ring!RemoveAt(keys, i) /\ UNCHANGED <<second, tenant>>
        /\ ringReq' = [r \in RingRequests |-> Ring!SeeGone(r)]
    BY DEF Ring!Revoke
  <1>2. RingTyped /\ MaxKeys \in Nat
    BY DEF RingInv, Ring!KeyringAssumption
  <1>3. /\ keys' \in Seq(RingKey)
        /\ \A V \in SUBSET RingKey : Cardinality(Among(keys', V)) <= Cardinality(Among(keys, V))
        /\ \A j \in DOMAIN keys' : \E k \in DOMAIN keys : keys'[j] = keys[k]
    BY <1>1, <1>2, RemoveLeaves
  <1>4. ringReq' \in [RingRequests -> RingHandler]
    <2>1. ASSUME NEW q \in RingRequests
          PROVE  Ring!SeeGone(q) \in RingHandler
      <3>1. ringReq'[q] = Ring!SeeGone(q)
        BY <1>1
      <3>2. Cardinality(Among(keys', LiveAt(ringReq[q].now))) <= Cardinality(Among(keys, LiveAt(ringReq[q].now)))
        BY <1>3 DEF LiveAt
      <3>3. ringReq'[q] \in RingHandler
        BY <1>2, <1>3, <3>1, <3>2, GoneKeeps
      <3> QED BY <3>1, <3>3
    <2> QED BY <1>1, <2>1
  <1>5. \A q \in RingRequests : ringReq'[q] = Ring!SeeGone(q)
    BY <1>1
  <1> QED BY <1>1, <1>2, <1>3, <1>4, <1>5, FewerKeep

\* The tenant is suspended: every key goes.
LEMMA RingSuspendKeeps ==
  ASSUME RingInv, Ring!KeyringAssumption, Ring!Suspend
  PROVE  RingInv'
  <1>1. /\ tenant' = "suspended" /\ keys' = <<>> /\ UNCHANGED second
        /\ ringReq' = [r \in RingRequests |-> Ring!SeeGone(r)]
    BY DEF Ring!Suspend
  <1>2. RingTyped /\ MaxKeys \in Nat /\ keys \in Seq(RingKey)
    BY DEF RingInv, RingTyped, Ring!KeyringAssumption
  <1>3. keys' \in Seq(RingKey) /\ DOMAIN keys' = {}
    BY <1>1
  <1>4. ASSUME NEW V \in SUBSET RingKey
        PROVE  Cardinality(Among(keys', V)) <= Cardinality(Among(keys, V))
    <2>1. Cardinality(Among(keys', V)) = 0
      BY <1>1, AmongNone
    <2>2. Cardinality(Among(keys, V)) \in Nat
      BY <1>2, AmongIs
    <2> QED BY <2>1, <2>2
  <1>5. ringReq' \in [RingRequests -> RingHandler]
    <2>1. ASSUME NEW q \in RingRequests
          PROVE  Ring!SeeGone(q) \in RingHandler
      <3>1. ringReq'[q] = Ring!SeeGone(q)
        BY <1>1
      <3>2. Cardinality(Among(keys', LiveAt(ringReq[q].now))) <= Cardinality(Among(keys, LiveAt(ringReq[q].now)))
        BY <1>4 DEF LiveAt
      <3>3. ringReq'[q] \in RingHandler
        BY <1>2, <1>3, <3>1, <3>2, GoneKeeps
      <3> QED BY <3>1, <3>3
    <2> QED BY <1>1, <2>1
  <1>6. \A q \in RingRequests : ringReq'[q] = Ring!SeeGone(q)
    BY <1>1
  <1>7. \A j \in DOMAIN keys' : \E i \in DOMAIN keys : keys'[j] = keys[i]
    BY <1>3
  <1> QED BY <1>1, <1>2, <1>3, <1>4, <1>5, <1>6, <1>7, FewerKeep

\* A recovery revokes the oldest key: one that it counts, or one that has expired.
LEMMA RevokeOldestKeeps ==
  ASSUME RingInv, Ring!KeyringAssumption, NEW r \in RingRequests, Ring!RevokeOldest(r)
  PROVE  RingInv'
  <1>1. RingTyped /\ MaxKeys \in Nat \ {0} /\ ringReq[r] \in RingHandler /\ keys \in Seq(RingKey)
    BY DEF RingInv, RingTyped, Ring!KeyringAssumption
  <1>2. /\ ringReq[r].spent + ringReq[r].wasted = ringReq[r].attempt /\ ringReq[r].pc = "revoke"
        /\ ringReq[r].kind = "recover"
    BY DEF RingInv, RingTyped, Ring!RevokeOldest
  <1>3. RecoveryFits(ringReq[r], Alive(ringReq[r].now)) /\ Alive(ringReq[r].now) \in Nat
    BY <1>1, AliveIs DEF RingInv
  <1>4. /\ ringReq[r].spent \in Nat /\ ringReq[r].wasted \in Nat /\ ringReq[r].others \in Nat
        /\ ringReq[r].attempt \in 0..MaxKeys
    BY <1>1 DEF RingHandler
  <1>5. /\ Alive(ringReq[r].now) + ringReq[r].spent <= MaxKeys + ringReq[r].others
        /\ ringReq[r].spent <= ringReq[r].others /\ ringReq[r].attempt < MaxKeys
        /\ ringReq[r].cleared \/ Alive(ringReq[r].now) >= MaxKeys
    BY <1>2, <1>3 DEF RecoveryFits
  <1>6. CASE keys = <<>> /\ Ring!Goto(r, "conflict") /\ keys' = keys /\ UNCHANGED <<second, tenant>>
    <2> DEFINE h == [ringReq[r] EXCEPT !.pc = "conflict"]
    <2>1. /\ h \in RingHandler /\ h.pc = "conflict" /\ h.kind = ringReq[r].kind /\ h.now = ringReq[r].now
          /\ h.attempt = ringReq[r].attempt /\ h.spent = ringReq[r].spent /\ h.wasted = ringReq[r].wasted
          /\ h.others = ringReq[r].others /\ h.cleared = ringReq[r].cleared
      BY <1>1 DEF RingHandler
    <2>2. ringReq' = [ringReq EXCEPT ![r] = h]
      BY <1>6 DEF Ring!Goto
    <2> HIDE DEF h
    <2>3. Alive(ringReq[r].now) = 0
      BY <1>6, AmongNone DEF Alive
    <2>4. ringReq[r].cleared
      BY <1>1, <1>5, <2>3
    <2>5. h.spent <= 1 + h.others
      BY <1>4, <1>5, <2>1
    <2>6. RecoveryFits(h, Alive(h.now))
      BY <2>1, <2>4, <2>5 DEF RecoveryFits
    <2>7. UNCHANGED <<second, keys, tenant>>
      BY <1>6
    <2> QED BY <1>2, <2>1, <2>2, <2>6, <2>7, RingMovesOn
  <1>7. ASSUME NEW i \in Ring!OldestKeys, keys' = Ring!RemoveAt(keys, i), UNCHANGED <<second, tenant>>,
               ringReq' = [q \in RingRequests |-> IF q # r THEN Ring!SeeGone(q) ELSE
                 [ringReq[r] EXCEPT !.pc = "insert", !.attempt = @ + 1,
                   !.spent = IF i \in Ring!LiveKeys(ringReq[r].now) THEN @ + 1 ELSE @,
                   !.wasted = IF i \in Ring!LiveKeys(ringReq[r].now) THEN @ ELSE @ + 1]]
        PROVE  RingInv'
    <2> DEFINE live == i \in Ring!LiveKeys(ringReq[r].now)
    <2> DEFINE h == [ringReq[r] EXCEPT !.pc = "insert", !.attempt = @ + 1,
                       !.spent = IF live THEN @ + 1 ELSE @, !.wasted = IF live THEN @ ELSE @ + 1]
    <2> DEFINE m == Cardinality(Among(keys', LiveAt(ringReq[r].now)))
    <2>1. i \in DOMAIN keys
      BY <1>7 DEF Ring!OldestKeys
    <2>2. /\ keys' \in Seq(RingKey)
          /\ \A V \in SUBSET RingKey : Cardinality(Among(keys', V)) <= Cardinality(Among(keys, V))
          /\ \A j \in DOMAIN keys' : \E k \in DOMAIN keys : keys'[j] = keys[k]
      BY <1>1, <1>7, <2>1, RemoveLeaves
    <2>3. live <=> keys[i] \in LiveAt(ringReq[r].now)
      BY <1>1, <2>1, AliveIs DEF Among
    <2>4. m \in Nat /\ Alive(ringReq[r].now) = IF live THEN m + 1 ELSE m
      <3>1. m \in Nat
        BY <2>2, AmongIs
      <3>2. /\ keys[i] \in LiveAt(ringReq[r].now) => Alive(ringReq[r].now) = m + 1
            /\ keys[i] \notin LiveAt(ringReq[r].now) => Alive(ringReq[r].now) = m
        BY <1>1, <1>7, <2>1, AmongRemove DEF Alive
      <3> QED BY <2>3, <3>1, <3>2
    <2> HIDE DEF live, m
    <2>5. ringReq'[r] = h /\ \A q \in RingRequests \ {r} : ringReq'[q] = Ring!SeeGone(q)
      BY <1>7 DEF live
    <2>6. /\ h.pc = "insert" /\ h.kind = "recover" /\ h.now = ringReq[r].now /\ h.attempt = ringReq[r].attempt + 1
          /\ h.spent = (IF live THEN ringReq[r].spent + 1 ELSE ringReq[r].spent)
          /\ h.wasted = (IF live THEN ringReq[r].wasted ELSE ringReq[r].wasted + 1)
          /\ h.others = ringReq[r].others /\ h.cleared = ringReq[r].cleared
      BY <1>1, <1>2 DEF RingHandler
    <2>7. h \in RingHandler
      <3>1. /\ ringReq[r].attempt + 1 \in 0..MaxKeys
            /\ (IF live THEN ringReq[r].spent + 1 ELSE ringReq[r].spent) \in Nat
            /\ (IF live THEN ringReq[r].wasted ELSE ringReq[r].wasted + 1) \in Nat
        BY <1>1, <1>4, <1>5
      <3> QED BY <1>1, <3>1 DEF RingHandler
    <2> HIDE DEF h
    <2>8. h.spent + h.wasted = h.attempt
      BY <1>2, <1>4, <2>6
    <2>9. h.spent <= 1 + h.others /\ m + h.spent <= MaxKeys + h.others
      <3> DEFINE n == Alive(ringReq[r].now)
      <3>1. n \in Nat /\ m \in Nat /\ n = (IF live THEN m + 1 ELSE m) /\ MaxKeys \in Nat
        BY <1>1, <1>3, <2>4
      <3>2. n + ringReq[r].spent <= MaxKeys + ringReq[r].others /\ ringReq[r].spent <= ringReq[r].others
        BY <1>5
      <3> HIDE DEF n
      <3>3. CASE live
        BY <1>4, <2>6, <3>1, <3>2, <3>3
      <3>4. CASE ~live
        BY <1>4, <2>6, <3>1, <3>2, <3>4
      <3> QED BY <3>3, <3>4
    <2>10. RecoveryFits(h, m)
      BY <2>6, <2>9 DEF RecoveryFits
    <2>11. ASSUME NEW q \in RingRequests
           PROVE  /\ ringReq'[q] \in RingHandler
                  /\ ringReq'[q] = Ring!SeeGone(q) \/
                       /\ ringReq'[q].now = ringReq[q].now
                       /\ ringReq'[q].spent + ringReq'[q].wasted = ringReq'[q].attempt
                       /\ ringReq'[q].pc = "revoke" => ringReq'[q].kind = "recover"
                       /\ RecoveryFits(ringReq'[q], Cardinality(Among(keys', LiveAt(ringReq[q].now))))
      <3>1. CASE q = r
        <4>1. ringReq'[q] = h /\ h.now = ringReq[q].now /\ h.kind = "recover"
          BY <2>5, <2>6, <3>1
        <4>2. RecoveryFits(ringReq'[q], Cardinality(Among(keys', LiveAt(ringReq[q].now))))
          BY <2>10, <3>1, <4>1 DEF m
        <4> QED BY <2>7, <2>8, <4>1, <4>2
      <3>2. CASE q # r
        <4>1. ringReq'[q] = Ring!SeeGone(q)
          BY <2>5, <3>2
        <4>2. Cardinality(Among(keys', LiveAt(ringReq[q].now))) <= Cardinality(Among(keys, LiveAt(ringReq[q].now)))
          BY <2>2 DEF LiveAt
        <4> QED BY <1>1, <2>2, <4>1, <4>2, GoneKeeps
      <3> QED BY <3>1, <3>2
    <2>12. ringReq' \in [RingRequests -> RingHandler]
      <3>1. DOMAIN ringReq' = RingRequests /\ \A q \in RingRequests : ringReq'[q] \in RingHandler
        BY <1>7, <2>11
      <3>2. ringReq' = [q \in RingRequests |-> ringReq'[q]]
        BY <1>7
      <3> QED BY <3>1, <3>2
    <2>13. UNCHANGED second /\ tenant' = tenant /\ tenant' \in {tenant, "suspended"}
      BY <1>7
    <2> QED BY <2>2, <2>11, <2>12, <2>13, FewerKeep
  <1> QED BY <1>6, <1>7 DEF Ring!RevokeOldest

\* The tenant is active again and has a key more; those it has survived the suspension.
LEMMA RingReactivateKeeps ==
  ASSUME RingInv, Ring!KeyringAssumption, Ring!Reactivate
  PROVE  RingInv'
  <1> DEFINE e == [born |-> second, until |-> Ring!Never, survivor |-> FALSE]
  <1>1. /\ tenant = "suspended" /\ tenant' = "active" /\ keys' = Append(keys, e) /\ UNCHANGED second
        /\ ringReq' = [q \in RingRequests |-> Ring!SeeMade(q)]
    BY DEF Ring!Reactivate
  <1>2. /\ RingTyped /\ MaxKeys \in Nat \ {0} /\ second \in 0..MaxSeconds /\ MaxSeconds \in Nat /\ keys \in Seq(RingKey)
    BY DEF RingInv, RingTyped, Ring!KeyringAssumption
  <1>3. e \in RingKey
    BY <1>2 DEF RingKey, Ring!Never
  <1> HIDE DEF e
  <1>4. keys' \in Seq(RingKey)
    BY <1>1, <1>2, <1>3
  <1>5. ASSUME NEW q \in RingRequests
        PROVE  /\ ringReq'[q] \in RingHandler
               /\ ringReq'[q].now <= second' /\ ringReq'[q].spent + ringReq'[q].wasted = ringReq'[q].attempt
               /\ ringReq'[q].pc = "revoke" => ringReq'[q].kind = "recover"
               /\ RecoveryFits(ringReq[q], Alive(ringReq[q].now))'
    <2>1. ringReq'[q] = Ring!SeeMade(q)
      BY <1>1
    <2>2. ringReq[q].now <= second /\ ringReq[q].spent + ringReq[q].wasted = ringReq[q].attempt
          /\ (ringReq[q].pc = "revoke" => ringReq[q].kind = "recover")
      BY DEF RingInv, RingTyped
    <2> QED BY <1>1, <1>2, <1>3, <2>1, <2>2, MadeKeeps
  <1>6. ringReq' \in [RingRequests -> RingHandler]
    BY <1>1, <1>5
  <1>7. RingTyped'
    BY <1>1, <1>2, <1>4, <1>5, <1>6 DEF RingTyped
  <1>8. Cardinality(Among(keys, CountedAt(second)))' <= MaxKeys
    <2>1. Among(keys, CountedAt(second)) = {}
      <3>1. \A i \in DOMAIN keys : keys[i].survivor
        BY <1>1 DEF RingInv
      <3> QED BY <3>1 DEF Among, CountedAt
    <2>2. Cardinality(Among(keys, CountedAt(second))) = 0
      BY <2>1, FS_EmptySet
    <2>3. Cardinality(Among(keys', CountedAt(second))) = 0 + (IF e \in CountedAt(second) THEN 1 ELSE 0)
      BY <1>1, <1>2, <1>3, <2>2, AmongAppend
    <2>4. Cardinality(Among(keys', CountedAt(second))) <= MaxKeys
      BY <1>2, <2>3
    <2> QED BY <1>1, <2>4
  <1> QED BY <1>1, <1>5, <1>7, <1>8 DEF RingInv

\* A second passes: keys expire.
LEMMA RingTickKeeps ==
  ASSUME RingInv, Ring!KeyringAssumption, Ring!Tick
  PROVE  RingInv'
  <1>1. second < MaxSeconds /\ second' = second + 1 /\ UNCHANGED <<keys, tenant, ringReq>>
    BY DEF Ring!Tick
  <1>2. /\ RingTyped /\ MaxKeys \in Nat /\ second \in 0..MaxSeconds /\ MaxSeconds \in Nat /\ keys \in Seq(RingKey)
    BY DEF RingInv, RingTyped, Ring!KeyringAssumption
  <1>3. \A q \in RingRequests : ringReq[q].now \in 0..MaxSeconds /\ ringReq[q].now <= second /\ ringReq[q].now <= second + 1
    BY <1>2 DEF RingTyped, RingHandler
  <1>4. RingTyped'
    BY <1>1, <1>2, <1>3 DEF RingTyped
  <1>5. CountedAt(second + 1) \subseteq CountedAt(second)
    <2>1. \A k \in RingKey : k.until \in Int
      BY <1>2 DEF RingKey, Ring!Never
    <2> QED BY <1>2, <2>1 DEF CountedAt
  <1>6. Cardinality(Among(keys, CountedAt(second + 1))) <= MaxKeys
    <2>1. Cardinality(Among(keys, CountedAt(second + 1))) <= Cardinality(Among(keys, CountedAt(second)))
      BY <1>2, <1>5, AmongIs
    <2>2. Cardinality(Among(keys, CountedAt(second + 1))) \in Nat /\ Cardinality(Among(keys, CountedAt(second))) \in Nat
      BY <1>2, AmongIs
    <2>3. Cardinality(Among(keys, CountedAt(second))) <= MaxKeys
      BY DEF RingInv
    <2> QED BY <1>2, <2>1, <2>2, <2>3
  <1>7. Cardinality(Among(keys, CountedAt(second)))' <= MaxKeys
    BY <1>1, <1>6
  <1>8. \A q \in RingRequests : RecoveryFits(ringReq[q], Alive(ringReq[q].now))'
    BY <1>1 DEF RingInv, Alive
  <1> QED BY <1>1, <1>4, <1>7, <1>8 DEF RingInv

\* The invariant of the keyring.
LEMMA RingInductive ==
  /\ Ring!KeyringAssumption /\ Ring!Init => RingInv
  /\ Ring!KeyringAssumption /\ RingInv /\ [Ring!Next]_ringVars => RingInv'
  <1>1. ASSUME Ring!KeyringAssumption, Ring!Init
        PROVE  RingInv
    <2> DEFINE e == [born |-> 0, until |-> Ring!Never, survivor |-> FALSE]
    <2>1. /\ second = 0 /\ tenant = "active" /\ keys = <<e>> /\ ringReq = [r \in RingRequests |-> Ring!Idle]
          /\ MaxKeys \in Nat \ {0} /\ MaxSeconds \in Nat
      BY <1>1 DEF Ring!Init, Ring!KeyringAssumption
    <2>2. e \in RingKey
      BY <2>1 DEF RingKey, Ring!Never
    <2>3. Ring!Idle \in RingHandler
      BY <2>1 DEF Ring!Idle, RingHandler
    <2> HIDE DEF e
    <2>4. keys \in Seq(RingKey) /\ keys = Append(<<>>, e) /\ <<>> \in Seq(RingKey)
      BY <2>1, <2>2
    <2>5. RingTyped
      BY <2>1, <2>3, <2>4 DEF RingTyped, Ring!Idle
    <2>6. Cardinality(Among(keys, CountedAt(second))) <= MaxKeys
      <3>1. Cardinality(Among(keys, CountedAt(second))) = 0 + (IF e \in CountedAt(second) THEN 1 ELSE 0)
        <4>1. Cardinality(Among(Append(<<>>, e), CountedAt(second)))
                = Cardinality(Among(<<>>, CountedAt(second))) + (IF e \in CountedAt(second) THEN 1 ELSE 0)
          BY <2>2, <2>4, AmongAppend
        <4> QED BY <2>4, <4>1, AmongNone
      <3> QED BY <2>1, <3>1
    <2>7. \A r \in RingRequests : RecoveryFits(ringReq[r], Alive(ringReq[r].now))
      BY <2>1 DEF RecoveryFits, Ring!Idle
    <2> QED BY <2>1, <2>5, <2>6, <2>7 DEF RingInv
  <1>2. ASSUME RingInv, UNCHANGED ringVars
        PROVE  RingInv'
    BY <1>2 DEF ringVars, RingInv, RingTyped, Alive
  <1>3. ASSUME Ring!KeyringAssumption, RingInv, NEW r \in RingRequests, Ring!InsertKey(r) \/ Ring!InsertRecoveryKey(r)
        PROVE  RingInv'
    <2>0. /\ ringReq[r].pc = "insert" /\ UNCHANGED <<second, tenant>>
          /\ ringReq[r].now \in 0..MaxSeconds /\ MaxSeconds \in Nat
      BY <1>3 DEF Ring!InsertKey, Ring!InsertRecoveryKey, RingInv, RingTyped, RingHandler, Ring!KeyringAssumption
    <2>1. Ring!Expiries(r) \subseteq 1..Ring!Never /\ Ring!Never \in 1..Ring!Never
      BY <2>0 DEF Ring!Expiries, Ring!Never
    <2>2. CASE Ring!Fits(r) /\ \E until \in 1..Ring!Never : Ring!Insert(r, until)
      BY <1>3, <2>0, <2>2, InsertKeeps
    <2>3. CASE ~Ring!Fits(r) /\ UNCHANGED keys
      <3>1. CASE Ring!InsertKey(r)
        <4>1. Ring!Goto(r, "conflict") /\ ringReq[r].kind = "create"
          BY <2>3, <3>1 DEF Ring!InsertKey
        <4> QED BY <1>3, <2>0, <2>3, <4>1, FullKeeps
      <3>2. CASE Ring!InsertRecoveryKey(r)
        <4> DEFINE pc == IF ringReq[r].attempt >= MaxKeys THEN "conflict" ELSE "revoke"
        <4>1. Ring!Goto(r, pc) /\ ringReq[r].kind = "recover"
          BY <2>3, <3>2 DEF Ring!InsertRecoveryKey
        <4>2. IF ringReq[r].kind = "create" THEN pc = "conflict"
              ELSE pc = IF ringReq[r].attempt >= MaxKeys THEN "conflict" ELSE "revoke"
          BY <4>1
        <4> HIDE DEF pc
        <4> QED BY <1>3, <2>0, <2>3, <4>1, <4>2, FullKeeps
      <3> QED BY <1>3, <3>1, <3>2
    <2>4. \/ Ring!Fits(r) /\ \E until \in 1..Ring!Never : Ring!Insert(r, until)
          \/ ~Ring!Fits(r) /\ UNCHANGED keys
      BY <1>3, <2>1 DEF Ring!InsertKey, Ring!InsertRecoveryKey
    <2> QED BY <2>2, <2>3, <2>4
  <1>4. ASSUME Ring!KeyringAssumption, RingInv, NEW r \in RingRequests, Ring!Answer(r)
        PROVE  RingInv'
    <2>1. /\ Ring!Idle \in RingHandler /\ Ring!Idle.now = 0 /\ Ring!Idle.spent = 0 /\ Ring!Idle.wasted = 0
          /\ Ring!Idle.attempt = 0 /\ Ring!Idle.pc = "idle" /\ Ring!Idle.kind = "create"
      BY <1>4 DEF Ring!Idle, RingHandler, Ring!KeyringAssumption
    <2>2. RecoveryFits(Ring!Idle, Alive(Ring!Idle.now))
      BY <2>1 DEF RecoveryFits
    <2>3. Ring!Idle.spent + Ring!Idle.wasted = Ring!Idle.attempt
      BY <2>1
    <2> QED BY <1>4, <2>1, <2>2, <2>3, RingMovesOn DEF Ring!Answer
  <1>5. ASSUME Ring!KeyringAssumption, RingInv, Ring!Next
        PROVE  RingInv'
    <2>1. CASE \E r \in RingRequests : Ring!BeginCreate(r) \/ Ring!BeginRecover(r)
      BY <1>5, <2>1, RingBegins DEF Ring!BeginCreate, Ring!BeginRecover
    <2>2. CASE \E r \in RingRequests : Ring!InsertKey(r) \/ Ring!InsertRecoveryKey(r)
      BY <1>5, <2>2, <1>3
    <2>3. CASE \E r \in RingRequests : Ring!RevokeOldest(r) \/ Ring!Answer(r)
      BY <1>5, <2>3, <1>4, RevokeOldestKeeps
    <2>4. CASE \E i \in DOMAIN keys : Ring!Revoke(i)
      BY <1>5, <2>4, RevokeKeeps
    <2>5. CASE Ring!Suspend \/ Ring!Reactivate \/ Ring!Tick
      BY <1>5, <2>5, RingSuspendKeeps, RingReactivateKeeps, RingTickKeeps
    <2> QED BY <1>5, <2>1, <2>2, <2>3, <2>4, <2>5 DEF Ring!Next
  <1> QED BY <1>1, <1>2, <1>5

\* A recovery costs a tenant at most one live key, and one for every key that others made
\* meanwhile; it is refused only when expired keys and others' keys used up its retries, or others
\* revoked keys.
THEOREM RecoveriesCostOneKey == ServerSpec => []RecoveryCostsOneKey
  <1>1. ServerInit => (scene = "keyring" => RingInv)
    BY RingInductive, ServerAssumption DEF ServerInit
  <1>2. (scene = "keyring" => RingInv) /\ [ServerNext]_serverVars => (scene = "keyring" => RingInv)'
    BY RingInductive, ServerAssumption DEF ServerNext, serverVars, ringVars
  <1>3. (scene = "keyring" => RingInv) => RecoveryCostsOneKey
    BY DEF RecoveryCostsOneKey, Ring!RecoveryCostsOneKey, RingInv, RecoveryFits
  <1> QED BY <1>1, <1>2, <1>3, PTL DEF ServerSpec

\* A tenant has at most MaxKeys live keys; the active tenants pass their cap by no more than the
\* registrations that run at the same time and the reactivations, and a window makes no more
\* tenants than its budget and the registrations that run at the same time, whatever clients the
\* limiter has forgotten.
THEOREM CapsAreHeld == ServerSpec => []CapsHeld
  <1> DEFINE Capped == (scene = "keyring" => RingInv) /\ (scene = "registration" => LimitsInv)
  <1>1. ServerInit => Capped
    BY LimitsInductive, RingInductive, ServerAssumption DEF ServerInit
  <1>2. Capped /\ [ServerNext]_serverVars => Capped'
    BY LimitsInductive, RingInductive, ServerAssumption DEF ServerNext, serverVars, ringVars, limitsVars
  <1>3. ASSUME RingInv
        PROVE  Ring!KeysCapped
    <2>1. \A i \in DOMAIN keys : keys[i] \in RingKey
      BY <1>3 DEF RingInv, RingTyped
    <2>2. {i \in Ring!LiveKeys(second) : ~keys[i].survivor} = Among(keys, CountedAt(second))
      BY <2>1 DEF Ring!LiveKeys, Among, CountedAt
    <2> QED BY <1>3, <2>2, RingCardinality DEF Ring!KeysCapped, RingInv
  <1>4. Capped => CapsHeld
    BY <1>3, LimitsInductive, ServerAssumption DEF CapsHeld
  <1> QED BY <1>1, <1>2, <1>4, PTL DEF ServerSpec

-----------------------------------------------------------------------------
(* The log of a build. *)

Sent == IF logger \in {"flush", "notify"} THEN state.seq - 1 ELSE state.seq

\* Up to which line the lines have left the buffer.
Taken == IF flush.holder = "none" THEN state.flushed ELSE flush.upTo

Ended == {"tail", "status", "close", "done"}

Notice == MaxLines + 1

\* Where the goroutines are: the end of the build comes after its last line and its last flush, and
\* a stream that has subscribed is sent what comes, until then.
LogSteps ==
  /\ build = "over" <=> logger \in {"close", "done"}
  /\ state.on <=> logger # "done"
  /\ logger \in {"flush", "notify"} => state.seq > 0
  /\ flush.holder = "none" => flush.chunk = <<>>
  /\ flush.holder = "logger" => /\ logger \in {"flush", "last flush"} /\ state.pending = <<>>
                                /\ flush.upTo = state.seq
  /\ flush.holder = "ticker" => ticker = "flush"
  /\ flush.holder = "stream" => stream.pc = "flush"
  /\ logger \in Ended => /\ state.pending = <<>> /\ flush.chunk = <<>>
                         /\ flush.holder # "none" => flush.upTo = state.seq
  /\ stream.pc \in {"new", "flush", "read"} => stream.out = <<>>
  /\ stream.pc \in {"flush", "read", "live"} /\ logger # "done" => chan.on
  /\ chan.closed => logger = "done"
  /\ stream.pc = "end" => build = "over"

\* The log, the chunk that is being appended and the buffer are in order, and follow each other.
LogOrder ==
  /\ state.flushed <= Taken /\ Taken <= state.seq
  /\ \A i, j \in DOMAIN log : i < j /\ log[i] # Notice /\ log[j] # Notice => log[i] < log[j]
  /\ \A i \in DOMAIN log : log[i] # Notice => log[i] <= state.seq
  /\ logger \notin {"status", "close", "done"} => \A i \in DOMAIN log : log[i] <= state.flushed
  /\ \A i, j \in DOMAIN flush.chunk : i < j => flush.chunk[i] < flush.chunk[j]
  /\ \A i \in DOMAIN flush.chunk : state.flushed < flush.chunk[i] /\ flush.chunk[i] <= flush.upTo
  /\ \A i, j \in DOMAIN state.pending : i < j => state.pending[i] < state.pending[j]
  /\ \A i \in DOMAIN state.pending : Taken < state.pending[i] /\ state.pending[i] <= state.seq

\* Together they are all lines, unless some were lost or cut off.
LogWhole == lost = {} /\ ~state.truncated =>
  /\ Len(log) = state.flushed /\ \A i \in DOMAIN log : log[i] = i
  /\ flush.holder # "none" => /\ Len(flush.chunk) = flush.upTo - state.flushed
                              /\ \A i \in DOMAIN flush.chunk : flush.chunk[i] = state.flushed + i
  /\ Len(state.pending) = state.seq - Taken
  /\ \A i \in DOMAIN state.pending : state.pending[i] = Taken + i

\* The ring has the last lines, each in its place, and in the end they are the log.
RingFits ==
  /\ state.tailIdx <= state.seq
  /\ state.truncated <=> state.tailIdx # 0
  /\ \A j \in 0..(state.tailIdx - 1) : state.tailIdx - TailLines <= j =>
       state.tail[j % TailLines] = state.seq - state.tailIdx + j + 1
  /\ state.truncated /\ lost = {} /\ logger \in {"status", "close", "done"} =>
       log = <<Notice>> \o Logs!TailOfRing

\* The channel has what the logger has sent, in order.
ChanFits ==
  /\ \A i, j \in DOMAIN chan.lines : i < j => chan.lines[i] < chan.lines[j]
  /\ \A i \in DOMAIN chan.lines : chan.lines[i] <= Sent

\* Lines whose order a stream answers for.
Owed == (1..MaxLines) \ flushedLate

\* What the stream has written is in order, and so is what it will read and what is sent to it.
StreamOrder ==
  /\ \A i, j \in DOMAIN stream.out : i < j /\ stream.out[i] \in Owed /\ stream.out[j] \in Owed =>
       stream.out[i] < stream.out[j]
  /\ stream.pc = "read" /\ build = "running" =>
       \A i \in DOMAIN log : log[i] \in Owed => log[i] <= stream.covered
  /\ stream.pc = "live" => \A i \in DOMAIN stream.out : stream.out[i] \in Owed =>
       /\ stream.out[i] <= stream.covered \/ stream.out[i] <= Sent
       /\ \A j \in DOMAIN chan.lines : stream.covered < chan.lines[j] => stream.out[i] < chan.lines[j]

Has(s, line) == \E i \in DOMAIN s : s[i] = line

\* Nothing is missing: what the stream's flush did not cover is in its channel or written.
StreamWhole == lost = {} /\ dropped = {} /\ ~state.truncated =>
  /\ flush.holder = "stream" => \A line \in (flush.upTo + 1)..Sent : Has(chan.lines, line)
  /\ stream.pc = "read" /\ build = "running" => /\ stream.covered <= state.flushed
                                                /\ \A line \in (stream.covered + 1)..Sent : Has(chan.lines, line)
  /\ stream.pc = "live" => /\ \A line \in 1..stream.covered : Has(stream.out, line)
                           /\ \A line \in 1..Sent : Has(stream.out, line) \/ Has(chan.lines, line)
  /\ stream.pc = "end" => \A line \in 1..state.seq : Has(stream.out, line)

LogsInv == Logs!TypeOK /\ LogSteps /\ LogOrder /\ LogWhole /\ RingFits /\ ChanFits /\ StreamOrder /\ StreamWhole

\* What a sequence is made of, with a value appended, and without its first.
LEMMA LineSeqIs ==
  ASSUME NEW S, NEW q \in Seq(S)
  PROVE  /\ Len(q) \in Nat /\ DOMAIN q = 1..Len(q) /\ (\A i \in DOMAIN q : q[i] \in S)
         /\ q = <<>> <=> Len(q) = 0
         /\ \A x \in S : /\ Append(q, x) \in Seq(S) /\ Len(Append(q, x)) = Len(q) + 1
                         /\ DOMAIN Append(q, x) = 1..(Len(q) + 1) /\ Append(q, x)[Len(q) + 1] = x
                         /\ \A i \in 1..Len(q) : Append(q, x)[i] = q[i]
         /\ q # <<>> => /\ Head(q) = q[1] /\ Tail(q) \in Seq(S) /\ Len(q) >= 1 /\ Len(Tail(q)) = Len(q) - 1
                        /\ DOMAIN Tail(q) = 1..(Len(q) - 1)
                        /\ \A i \in 1..(Len(q) - 1) : Tail(q)[i] = q[i + 1]
  <1>1. Len(q) \in Nat /\ DOMAIN q = 1..Len(q) /\ \A i \in DOMAIN q : q[i] \in S
    OBVIOUS
  <1>2. q = <<>> <=> Len(q) = 0
    OBVIOUS
  <1>3. ASSUME NEW x \in S
        PROVE  /\ Append(q, x) \in Seq(S) /\ Len(Append(q, x)) = Len(q) + 1
               /\ DOMAIN Append(q, x) = 1..(Len(q) + 1) /\ Append(q, x)[Len(q) + 1] = x
               /\ \A i \in 1..Len(q) : Append(q, x)[i] = q[i]
    BY <1>1
  <1>4. q # <<>> => /\ Head(q) = q[1] /\ Tail(q) \in Seq(S) /\ Len(q) >= 1 /\ Len(Tail(q)) = Len(q) - 1
                    /\ DOMAIN Tail(q) = 1..(Len(q) - 1)
                    /\ \A i \in 1..(Len(q) - 1) : Tail(q)[i] = q[i + 1]
    BY <1>1, <1>2
  <1> QED BY <1>1, <1>2, <1>3, <1>4

\* What two sequences are made of, one after the other.
LEMMA LinesJoined ==
  ASSUME NEW S, NEW q \in Seq(S), NEW r \in Seq(S)
  PROVE  /\ q \o r \in Seq(S) /\ Len(q \o r) = Len(q) + Len(r) /\ DOMAIN (q \o r) = 1..(Len(q) + Len(r))
         /\ \A i \in 1..Len(q) : (q \o r)[i] = q[i]
         /\ \A i \in 1..(Len(q) + Len(r)) : i > Len(q) => i - Len(q) \in 1..Len(r) /\ (q \o r)[i] = r[i - Len(q)]
  <1>1. Len(q) \in Nat /\ Len(r) \in Nat
    OBVIOUS
  <1> QED BY <1>1

\* Two of T consecutive numbers have different remainders.
LEMMA RemaindersDiffer ==
  ASSUME NEW T \in Nat \ {0}, NEW a \in Nat, NEW b \in Nat, a < b, b < a + T
  PROVE  a % T # b % T
  <1>1. /\ a % T \in 0..(T - 1) /\ a = T * (a \div T) + (a % T) /\ a \div T \in Nat
        /\ b % T \in 0..(T - 1) /\ b = T * (b \div T) + (b % T) /\ b \div T \in Nat
    OBVIOUS
  <1> DEFINE m == b \div T - a \div T
  <1>2. SUFFICES ASSUME a % T = b % T PROVE FALSE
    OBVIOUS
  <1>3. m \in Int /\ T * m = b - a
    BY <1>1, <1>2
  <1> HIDE DEF m
  <1>4. m <= 0 => T * m <= 0
    BY <1>3
  <1>5. m >= 1 => T * m >= T
    BY <1>3
  <1> QED BY <1>3, <1>4, <1>5

\* The fields that are numbers.
LEMMA LogNumbers ==
  ASSUME Logs!TypeOK
  PROVE  /\ MaxLines \in Nat /\ MaxLogSize \in Nat /\ TailLines \in Nat /\ TailLines >= 1 /\ Buffer \in Nat
         /\ Notice = MaxLines + 1
         /\ state.seq \in 0..MaxLines /\ state.flushed \in 0..MaxLines /\ state.size \in 0..MaxLogSize
         /\ state.tailIdx \in 0..MaxLines /\ flush.upTo \in 0..MaxLines /\ stream.covered \in 0..MaxLines
         /\ Taken \in 0..MaxLines
  <1>1. MaxLines \in Nat /\ MaxLogSize \in Nat /\ TailLines \in Nat /\ TailLines >= 1 /\ Buffer \in Nat
    BY ServerAssumption DEF Logs!BuildLogsAssumption
  <1>2. state.seq \in 0..MaxLines /\ state.flushed \in 0..MaxLines /\ state.size \in 0..MaxLogSize
    BY DEF Logs!TypeOK
  <1>3. state.tailIdx \in 0..MaxLines /\ flush.upTo \in 0..MaxLines /\ stream.covered \in 0..MaxLines
    BY DEF Logs!TypeOK
  <1>4. Taken \in 0..MaxLines
    BY <1>2, <1>3 DEF Taken
  <1> QED BY <1>1, <1>2, <1>3, <1>4 DEF Notice

\* The fields that are sequences.
LEMMA LogSeqs ==
  ASSUME Logs!TypeOK
  PROVE  /\ state.pending \in Seq(1..MaxLines) /\ flush.chunk \in Seq(1..MaxLines) /\ chan.lines \in Seq(1..MaxLines)
         /\ log \in Seq(1..(MaxLines + 1)) /\ stream.out \in Seq(1..(MaxLines + 1))
  BY DEF Logs!TypeOK, Logs!Truncation

\* What is in the sequences.
LEMMA LogIndices ==
  ASSUME Logs!TypeOK
  PROVE  /\ Len(log) \in Nat /\ DOMAIN log = 1..Len(log)
         /\ Len(flush.chunk) \in Nat /\ DOMAIN flush.chunk = 1..Len(flush.chunk)
         /\ Len(state.pending) \in Nat /\ DOMAIN state.pending = 1..Len(state.pending)
         /\ Len(chan.lines) \in Nat /\ DOMAIN chan.lines = 1..Len(chan.lines)
         /\ Len(stream.out) \in Nat /\ DOMAIN stream.out = 1..Len(stream.out)
         /\ \A i \in DOMAIN log : log[i] \in 1..(MaxLines + 1)
         /\ \A i \in DOMAIN flush.chunk : flush.chunk[i] \in 1..MaxLines
         /\ \A i \in DOMAIN state.pending : state.pending[i] \in 1..MaxLines
         /\ \A i \in DOMAIN chan.lines : chan.lines[i] \in 1..MaxLines
         /\ \A i \in DOMAIN stream.out : stream.out[i] \in 1..(MaxLines + 1)
  <1> DEFINE S == 1..MaxLines
  <1> DEFINE N == 1..(MaxLines + 1)
  <1>1. /\ state.pending \in Seq(S) /\ flush.chunk \in Seq(S) /\ chan.lines \in Seq(S)
        /\ log \in Seq(N) /\ stream.out \in Seq(N)
    BY LogSeqs
  <1> HIDE DEF S, N
  <1>2. \A q \in Seq(S) : Len(q) \in Nat /\ DOMAIN q = 1..Len(q) /\ \A i \in DOMAIN q : q[i] \in S
    OBVIOUS
  <1>3. \A q \in Seq(N) : Len(q) \in Nat /\ DOMAIN q = 1..Len(q) /\ \A i \in DOMAIN q : q[i] \in N
    OBVIOUS
  <1>4. /\ Len(log) \in Nat /\ DOMAIN log = 1..Len(log) /\ \A i \in DOMAIN log : log[i] \in N
    BY <1>1, <1>3
  <1>5. /\ Len(flush.chunk) \in Nat /\ DOMAIN flush.chunk = 1..Len(flush.chunk)
        /\ \A i \in DOMAIN flush.chunk : flush.chunk[i] \in S
    BY <1>1, <1>2
  <1>6. /\ Len(state.pending) \in Nat /\ DOMAIN state.pending = 1..Len(state.pending)
        /\ \A i \in DOMAIN state.pending : state.pending[i] \in S
    BY <1>1, <1>2
  <1>7. /\ Len(chan.lines) \in Nat /\ DOMAIN chan.lines = 1..Len(chan.lines)
        /\ \A i \in DOMAIN chan.lines : chan.lines[i] \in S
    BY <1>1, <1>2
  <1>8. /\ Len(stream.out) \in Nat /\ DOMAIN stream.out = 1..Len(stream.out)
        /\ \A i \in DOMAIN stream.out : stream.out[i] \in N
    BY <1>1, <1>3
  <1> QED BY <1>4, <1>5, <1>6, <1>7, <1>8 DEF S, N

\* Which lines have been sent.
LEMMA SentIs ==
  ASSUME Logs!TypeOK, LogSteps
  PROVE  Sent \in 0..MaxLines /\ Sent <= state.seq /\ (logger \notin {"flush", "notify"} => Sent = state.seq)
  <1>1. state.seq \in 0..MaxLines /\ MaxLines \in Nat
    BY LogNumbers
  <1>2. logger \in {"flush", "notify"} => state.seq > 0
    BY DEF LogSteps
  <1> QED BY <1>1, <1>2 DEF Sent

\* appendLog keeps the invariant.
LEMMA AppendLogKeeps ==
  ASSUME LogsInv, Logs!AppendLog
  PROVE  LogsInv'
  <1> DEFINE line == state.seq + 1
  <1> DEFINE over == state.truncated \/ state.size = MaxLogSize
  <1> DEFINE B == BOOLEAN
  <1> DEFINE N == 0..MaxLines
  <1> DEFINE L == Seq(1..MaxLines)
  <1> DEFINE Z == 0..MaxLogSize
  <1> DEFINE F == [0..(TailLines - 1) -> 0..MaxLines]
  <1> DEFINE R == [on : B, seq : N, pending : L, flushed : N, size : Z, truncated : B, tail : F, tailIdx : N]
  <1> DEFINE appended == Append(state.pending, line)
  <1> DEFINE place == state.tailIdx % TailLines
  <1> DEFINE ring == [state.tail EXCEPT ![place] = line]
  <1> DEFINE size == state.size + 1
  <1> DEFINE idx == state.tailIdx + 1
  <1>1. UNCHANGED <<build, log, ticker, flush, stream, chan, lost, dropped, flushedLate>>
    BY DEF Logs!AppendLog
  <1>2. logger = "idle" /\ logger' \in {"flush", "notify"}
    BY DEF Logs!AppendLog, Logs!Notify
  <1>3. state.seq < MaxLines
    BY DEF Logs!AppendLog
  <1>4. \/ ~over /\ state' = [state EXCEPT !.seq = line, !.size = size, !.pending = appended]
        \/ over /\ state' = [state EXCEPT !.seq = line, !.truncated = TRUE,
                               !.tail[state.tailIdx % TailLines] = line, !.tailIdx = idx]
    BY DEF Logs!AppendLog
  <1>a. Logs!TypeOK /\ LogSteps /\ LogOrder /\ LogWhole /\ RingFits /\ ChanFits /\ StreamOrder /\ StreamWhole
    BY DEF LogsInv
  <1>n. /\ MaxLines \in Nat /\ MaxLogSize \in Nat /\ TailLines \in Nat /\ TailLines >= 1
        /\ state.seq \in N /\ state.flushed \in N /\ state.size \in Z /\ state.tailIdx \in N /\ Taken \in N
    BY <1>a, LogNumbers
  <1>b. state.tailIdx <= state.seq /\ (state.truncated <=> state.tailIdx # 0)
    BY <1>a DEF RingFits
  <1>c. line \in N /\ line \in 1..MaxLines /\ idx \in N
    BY <1>3, <1>n, <1>b
  <1>s. Sent \in N
    BY <1>a, SentIs
  <1>m. \A j \in Nat : j % TailLines \in 0..(TailLines - 1)
    BY <1>n
  <1>t. state \in R /\ state.tail \in F /\ state.truncated \in BOOLEAN /\ state.pending \in L
    BY <1>a DEF Logs!TypeOK
  <1>k. place \in 0..(TailLines - 1)
    BY <1>m, <1>n
  <1> HIDE DEF place
  <1>r. ring \in F /\ ring[place] = line
        /\ \A k \in 0..(TailLines - 1) : k # place => ring[k] = state.tail[k]
    BY <1>t, <1>k, <1>c
  <1>i. /\ Len(state.pending) \in Nat /\ DOMAIN state.pending = 1..Len(state.pending)
        /\ \A i \in DOMAIN state.pending : state.pending[i] \in 1..MaxLines
        /\ \A i \in DOMAIN log : log[i] \in 1..(MaxLines + 1)
    BY <1>a, LogIndices
  <1>p. /\ appended \in L /\ DOMAIN appended = 1..(Len(state.pending) + 1)
        /\ Len(appended) = Len(state.pending) + 1
        /\ appended[Len(state.pending) + 1] = line
        /\ \A i \in 1..Len(state.pending) : appended[i] = state.pending[i]
    <2> DEFINE S == 1..MaxLines
    <2>1. state.pending \in Seq(S) /\ line \in S
      BY <1>t, <1>c
    <2> HIDE DEF line, S
    <2>2. /\ appended \in Seq(S) /\ DOMAIN appended = 1..(Len(state.pending) + 1)
          /\ Len(appended) = Len(state.pending) + 1
          /\ appended[Len(state.pending) + 1] = line
          /\ \A i \in 1..Len(state.pending) : appended[i] = state.pending[i]
      BY <2>1, LineSeqIs
    <2> QED BY <2>2 DEF S
  <1>z. ~over => ~state.truncated /\ size \in Z
    BY <1>n, <1>t
  <1>g. place = state.tailIdx % TailLines
    BY DEF place
  <1>q. over => state' = [state EXCEPT !.seq = line, !.truncated = TRUE, !.tail = ring, !.tailIdx = idx]
    BY <1>4, <1>t, <1>g
  <1>h. TRUE \in B
    OBVIOUS
  <1>4a. ~over => state' = [state EXCEPT !.seq = line, !.size = size, !.pending = appended]
    BY <1>4
  <1> HIDE DEF over, line, B, N, L, Z, F, appended, ring, size, idx
  <1>5. ~over => /\ state'.on = state.on /\ state'.seq = line /\ state'.pending = appended
                 /\ state'.flushed = state.flushed
                 /\ state'.truncated = state.truncated /\ state'.tail = state.tail
                 /\ state'.tailIdx = state.tailIdx /\ state' \in R
    BY <1>4a, <1>t, <1>c, <1>p, <1>z
  <1>6. over => /\ state'.on = state.on /\ state'.seq = line /\ state'.pending = state.pending
                /\ state'.flushed = state.flushed
                /\ state'.truncated = TRUE /\ state'.tail = ring
                /\ state'.tailIdx = idx /\ state' \in R
    BY <1>q, <1>t, <1>c, <1>h, <1>r
  <1>7. state'.on = state.on /\ state'.seq = line /\ state'.flushed = state.flushed /\ state' \in R
    BY <1>5, <1>6
  <1>8. \/ state'.pending = appended /\ ~state.truncated /\ ~state'.truncated
        \/ state'.pending = state.pending /\ state'.truncated
    BY <1>z, <1>5, <1>6
  <1>9. line = state.seq + 1
    BY DEF line
  <1>10. Sent' = Sent /\ Taken' = Taken
    BY <1>1, <1>2, <1>7, <1>9, <1>n DEF Sent, Taken, N
  <1>11. Logs!TypeOK'
    BY <1>a, <1>1, <1>2, <1>7 DEF Logs!TypeOK, Logs!Truncation, Logs!Notify, R, B, N, L, Z, F
  <1>12. LogSteps'
    <2>1. build = "running" /\ state.on /\ flush.holder # "logger" /\ ~chan.closed /\ stream.pc # "end"
      BY <1>a, <1>2 DEF LogSteps, Logs!TypeOK
    <2>2. state'.on /\ state'.seq > 0
      BY <2>1, <1>7, <1>9, <1>n DEF N
    <2>3. logger' \notin {"done", "close"} /\ logger' \notin Ended
      BY <1>2 DEF Ended
    <2>4. /\ flush.holder = "none" => flush.chunk = <<>>
          /\ flush.holder = "ticker" => ticker = "flush"
          /\ flush.holder = "stream" => stream.pc = "flush"
          /\ stream.pc \in {"new", "flush", "read"} => stream.out = <<>>
          /\ stream.pc \in {"flush", "read", "live"} => chan.on
      BY <1>a, <1>2 DEF LogSteps
    <2> QED BY <1>1, <1>2, <2>1, <2>2, <2>3, <2>4 DEF LogSteps, Ended
  <1>13. LogOrder'
    <2>0. \A i, j \in DOMAIN state.pending : i < j => state.pending[i] < state.pending[j]
      BY <1>a DEF LogOrder
    <2>1. \A i \in DOMAIN state.pending : Taken < state.pending[i] /\ state.pending[i] <= state.seq
      BY <1>a DEF LogOrder
    <2>2. state.flushed <= Taken /\ Taken <= state.seq
      BY <1>a DEF LogOrder
    <2>3. \A i, j \in DOMAIN appended : i < j => appended[i] < appended[j]
      <3>1. \A i \in DOMAIN appended : i \in DOMAIN state.pending \/ i = Len(state.pending) + 1
        BY <1>p, <1>i
      <3>2. \A i \in DOMAIN state.pending : appended[i] = state.pending[i] /\ appended[i] < line
        BY <2>1, <1>p, <1>i, <1>n, <1>9 DEF N
      <3> QED BY <2>0, <3>1, <3>2, <1>p, <1>i
    <2>4. \A i \in DOMAIN appended : Taken < appended[i] /\ appended[i] <= line
      BY <2>1, <2>2, <1>p, <1>i, <1>n, <1>9 DEF N
    <2>5. \A i \in DOMAIN state.pending : Taken < state.pending[i] /\ state.pending[i] <= line
      BY <2>1, <1>i, <1>n, <1>9 DEF N
    <2>6. \A i, j \in DOMAIN state'.pending : i < j => state'.pending[i] < state'.pending[j]
      BY <1>8, <2>0, <2>3
    <2>7. \A i \in DOMAIN state'.pending : Taken' < state'.pending[i] /\ state'.pending[i] <= state'.seq
      BY <1>7, <1>8, <1>10, <2>4, <2>5
    <2>8. state'.flushed <= Taken' /\ Taken' <= state'.seq
      BY <1>n, <1>7, <1>9, <1>10, <2>2 DEF N
    <2>9. \A i \in DOMAIN log : log[i] # Notice => log[i] <= state'.seq
      <3>1. \A i \in DOMAIN log : log[i] # Notice => log[i] <= state.seq
        BY <1>a DEF LogOrder
      <3> QED BY <1>i, <1>n, <1>7, <1>9, <3>1 DEF N
    <2>10. /\ \A i, j \in DOMAIN log : i < j /\ log[i] # Notice /\ log[j] # Notice => log[i] < log[j]
           /\ \A i \in DOMAIN log : log[i] <= state.flushed
           /\ \A i, j \in DOMAIN flush.chunk : i < j => flush.chunk[i] < flush.chunk[j]
           /\ \A i \in DOMAIN flush.chunk : state.flushed < flush.chunk[i] /\ flush.chunk[i] <= flush.upTo
      BY <1>a, <1>2 DEF LogOrder
    <2>11. Notice' = Notice
      BY DEF Notice
    <2> QED BY <1>1, <1>7, <2>6, <2>7, <2>8, <2>9, <2>10, <2>11 DEF LogOrder
  <1>14. LogWhole'
    <2> SUFFICES ASSUME lost' = {}, ~state'.truncated
                 PROVE  /\ Len(log') = state'.flushed /\ \A i \in DOMAIN log' : log'[i] = i
                        /\ flush'.holder # "none" => /\ Len(flush'.chunk) = flush'.upTo - state'.flushed
                                                     /\ \A i \in DOMAIN flush'.chunk : flush'.chunk[i] = state'.flushed + i
                        /\ Len(state'.pending) = state'.seq - Taken'
                        /\ \A i \in DOMAIN state'.pending : state'.pending[i] = Taken' + i
      BY DEF LogWhole
    <2>1. lost = {} /\ ~state.truncated /\ state'.pending = appended
      BY <1>1, <1>8
    <2>2. /\ Len(state.pending) = state.seq - Taken
          /\ \A i \in DOMAIN state.pending : state.pending[i] = Taken + i
      BY <1>a, <2>1 DEF LogWhole
    <2>3. Len(appended) = line - Taken
      BY <2>2, <1>p, <1>n, <1>9 DEF N
    <2>4. \A i \in DOMAIN appended : appended[i] = Taken + i
      <3>1. \A i \in DOMAIN appended : i \in DOMAIN state.pending \/ i = Len(state.pending) + 1
        BY <1>p, <1>i
      <3>2. \A i \in DOMAIN state.pending : appended[i] = Taken + i
        BY <2>2, <1>p, <1>i
      <3>3. appended[Len(state.pending) + 1] = Taken + (Len(state.pending) + 1)
        BY <2>2, <1>p, <1>n, <1>9, <1>i DEF N
      <3> QED BY <3>1, <3>2, <3>3
    <2> QED BY <1>a, <1>1, <1>7, <1>10, <2>1, <2>3, <2>4 DEF LogWhole
  <1>15. RingFits'
    <2>3. \A j \in 0..(state.tailIdx - 1) : state.tailIdx - TailLines <= j =>
            state.tail[j % TailLines] = state.seq - state.tailIdx + j + 1
      BY <1>a DEF RingFits
    <2>1. CASE ~over
      <3>1. /\ state'.tail = state.tail /\ state'.tailIdx = state.tailIdx /\ ~state'.truncated /\ state.tailIdx = 0
        BY <2>1, <1>5, <1>z, <1>b
      <3> QED BY <1>n, <1>7, <1>9, <3>1 DEF RingFits, N
    <2>2. CASE over
      <3>1. state'.tail = ring /\ state'.tailIdx = idx /\ state'.truncated
        BY <2>2, <1>6
      <3>2. ASSUME NEW j \in 0..state.tailIdx, state.tailIdx + 1 - TailLines <= j
            PROVE  ring[j % TailLines] = state.seq - state.tailIdx + j + 1
        <4>0. state.tailIdx \in Nat /\ j \in Nat /\ state.seq \in Nat
          BY <1>n DEF N
        <4>1. CASE j = state.tailIdx
          BY <4>0, <4>1, <1>r, <1>g, <1>9
        <4>2. CASE j # state.tailIdx
          <5>1. j < state.tailIdx /\ state.tailIdx < j + TailLines /\ j \in 0..(state.tailIdx - 1)
            BY <4>0, <4>2, <3>2, <1>n
          <5>2. j % TailLines # state.tailIdx % TailLines
            <6>1. TailLines \in Nat \ {0}
              BY <1>n
            <6> QED BY <4>0, <5>1, <6>1, RemaindersDiffer
          <5>3. ring[j % TailLines] = state.tail[j % TailLines]
            BY <4>0, <5>2, <1>m, <1>r, <1>g
          <5> QED BY <4>0, <5>1, <5>3, <2>3, <1>n
        <4> QED BY <4>1, <4>2
      <3>3. ASSUME NEW j \in 0..(idx - 1), idx - TailLines <= j
            PROVE  ring[j % TailLines] = line - idx + j + 1
        BY <3>2, <3>3, <1>n, <1>9 DEF idx, N
      <3>4. idx <= line /\ idx # 0
        BY <1>b, <1>n, <1>9 DEF idx, N
      <3> QED BY <3>1, <3>3, <3>4, <1>2, <1>7 DEF RingFits
    <2> QED BY <2>1, <2>2
  <1>16. ChanFits'
    BY <1>a, <1>1, <1>10 DEF ChanFits
  <1>17. StreamOrder'
    BY <1>a, <1>1, <1>10 DEF StreamOrder, Owed
  <1>18. StreamWhole'
    <2>1. stream.pc # "end"
      BY <1>a, <1>2 DEF LogSteps
    <2>2. ~state'.truncated => ~state.truncated
      BY <1>8
    <2> QED BY <1>a, <1>1, <1>7, <1>10, <2>1, <2>2 DEF StreamWhole, Has
  <1> QED BY <1>11, <1>12, <1>13, <1>14, <1>15, <1>16, <1>17, <1>18 DEF LogsInv

\* Nothing happens.
LEMMA LogsRest ==
  ASSUME LogsInv, UNCHANGED logsVars
  PROVE  LogsInv'
  <1> DEFINE R == [on : BOOLEAN, seq : 0..MaxLines, pending : Seq(1..MaxLines), flushed : 0..MaxLines,
                size : 0..MaxLogSize, truncated : BOOLEAN,
                tail : [0..(TailLines - 1) -> 0..MaxLines], tailIdx : 0..MaxLines]
  <1> DEFINE H == [holder : {"none", "logger", "ticker", "stream"}, chunk : Seq(1..MaxLines), upTo : 0..MaxLines]
  <1> DEFINE W == [pc : {"new", "flush", "read", "live", "end"}, covered : 0..MaxLines, out : Seq(1..(MaxLines + 1))]
  <1> DEFINE C == [on : BOOLEAN, lines : Seq(1..MaxLines), closed : BOOLEAN]
  <1>1. UNCHANGED <<build, log, state, logger, ticker, flush, stream, chan, lost, dropped, flushedLate>>
    BY DEF logsVars
  <1>a. Logs!TypeOK /\ LogSteps /\ LogOrder /\ LogWhole /\ RingFits /\ ChanFits /\ StreamOrder /\ StreamWhole
    BY DEF LogsInv
  <1>2. Sent' = Sent /\ Taken' = Taken /\ Owed' = Owed /\ Logs!TailOfRing' = Logs!TailOfRing
    BY <1>1 DEF Sent, Taken, Owed, Logs!TailOfRing
  <1>3. Logs!TypeOK'
    <2>1. /\ state \in R /\ flush \in H /\ stream \in W /\ chan \in C /\ log \in Seq(1..(MaxLines + 1))
          /\ build \in {"running", "over"} /\ ticker \in {"idle", "flush"} /\ Len(chan.lines) <= Buffer
          /\ logger \in {"idle", "flush", "notify", "last flush", "tail", "status", "close", "done"}
          /\ lost \subseteq 1..MaxLines /\ dropped \subseteq 1..MaxLines /\ flushedLate \subseteq 1..MaxLines
      BY <1>a DEF Logs!TypeOK, Logs!Truncation, Logs!Notify
    <2> HIDE DEF R, H, W, C
    <2>2. /\ state' \in R /\ flush' \in H /\ stream' \in W /\ chan' \in C /\ log' \in Seq(1..(MaxLines + 1))
          /\ Len(chan'.lines) <= Buffer
          /\ lost' \subseteq 1..MaxLines /\ dropped' \subseteq 1..MaxLines /\ flushedLate' \subseteq 1..MaxLines
      BY <1>1, <2>1
    <2>3. /\ build' \in {"running", "over"} /\ ticker' \in {"idle", "flush"}
          /\ logger' \in {"idle", "flush", "notify", "last flush", "tail", "status", "close", "done"}
      BY <1>1, <2>1
    <2> QED BY <2>2, <2>3 DEF Logs!TypeOK, Logs!Truncation, Logs!Notify, R, H, W, C
  <1>4. LogSteps' /\ ChanFits'
    BY <1>a, <1>1, <1>2 DEF LogSteps, ChanFits
  <1>5. LogOrder'
    BY <1>a, <1>1, <1>2 DEF LogOrder
  <1>6. LogWhole'
    BY <1>a, <1>1, <1>2 DEF LogWhole
  <1>7. RingFits'
    BY <1>a, <1>1, <1>2 DEF RingFits
  <1>8. StreamOrder'
    BY <1>a, <1>1, <1>2 DEF StreamOrder
  <1>9. StreamWhole'
    BY <1>a, <1>1, <1>2 DEF StreamWhole, Has
  <1> QED BY <1>3, <1>4, <1>5, <1>6, <1>7, <1>8, <1>9 DEF LogsInv

\* Only the goroutines move: the end of the build, and the tick.
LEMMA GoroutinesMove ==
  ASSUME LogsInv, Logs!EndBuild \/ Logs!FinishBuild \/ Logs!Tick
  PROVE  LogsInv'
  <1> DEFINE R == [on : BOOLEAN, seq : 0..MaxLines, pending : Seq(1..MaxLines), flushed : 0..MaxLines,
                size : 0..MaxLogSize, truncated : BOOLEAN,
                tail : [0..(TailLines - 1) -> 0..MaxLines], tailIdx : 0..MaxLines]
  <1> DEFINE H == [holder : {"none", "logger", "ticker", "stream"}, chunk : Seq(1..MaxLines), upTo : 0..MaxLines]
  <1> DEFINE W == [pc : {"new", "flush", "read", "live", "end"}, covered : 0..MaxLines, out : Seq(1..(MaxLines + 1))]
  <1> DEFINE C == [on : BOOLEAN, lines : Seq(1..MaxLines), closed : BOOLEAN]
  <1>1. UNCHANGED <<log, state, flush, stream, chan, lost, dropped, flushedLate>>
    BY DEF Logs!EndBuild, Logs!FinishBuild, Logs!Tick
  <1>2. \/ logger = "idle" /\ logger' = "last flush" /\ build' = build /\ ticker' = ticker
        \/ logger = "status" /\ logger' = "close" /\ build' = "over" /\ ticker' = ticker
        \/ logger' = logger /\ build' = build /\ ticker' = "flush"
    BY DEF Logs!EndBuild, Logs!FinishBuild, Logs!Tick
  <1>a. Logs!TypeOK /\ LogSteps /\ LogOrder /\ LogWhole /\ RingFits /\ ChanFits /\ StreamOrder /\ StreamWhole
    BY DEF LogsInv
  <1>3. Sent' = Sent /\ Taken' = Taken /\ Owed' = Owed /\ Notice' = Notice /\ Logs!TailOfRing' = Logs!TailOfRing
    BY <1>1, <1>2 DEF Sent, Taken, Owed, Notice, Logs!TailOfRing
  <1>4. logger' \in {"status", "close", "done"} <=> logger \in {"status", "close", "done"}
    BY <1>2
  <1>5. Logs!TypeOK'
    <2>1. /\ state \in R /\ flush \in H /\ stream \in W /\ chan \in C /\ log \in Seq(1..(MaxLines + 1))
          /\ build \in {"running", "over"} /\ ticker \in {"idle", "flush"} /\ Len(chan.lines) <= Buffer
          /\ logger \in {"idle", "flush", "notify", "last flush", "tail", "status", "close", "done"}
          /\ lost \subseteq 1..MaxLines /\ dropped \subseteq 1..MaxLines /\ flushedLate \subseteq 1..MaxLines
      BY <1>a DEF Logs!TypeOK, Logs!Truncation, Logs!Notify
    <2> HIDE DEF R, H, W, C
    <2>2. /\ state' \in R /\ flush' \in H /\ stream' \in W /\ chan' \in C /\ log' \in Seq(1..(MaxLines + 1))
          /\ Len(chan'.lines) <= Buffer
          /\ lost' \subseteq 1..MaxLines /\ dropped' \subseteq 1..MaxLines /\ flushedLate' \subseteq 1..MaxLines
      BY <1>1, <2>1
    <2>3. /\ build' \in {"running", "over"} /\ ticker' \in {"idle", "flush"}
          /\ logger' \in {"idle", "flush", "notify", "last flush", "tail", "status", "close", "done"}
      BY <1>1, <1>2, <2>1
    <2> QED BY <2>2, <2>3 DEF Logs!TypeOK, Logs!Truncation, Logs!Notify, R, H, W, C
  <1>6. LogSteps'
    BY <1>a, <1>1, <1>2 DEF LogSteps, Ended
  <1>7. LogOrder'
    BY <1>a, <1>1, <1>3, <1>4 DEF LogOrder
  <1>8. LogWhole'
    BY <1>a, <1>1, <1>3 DEF LogWhole
  <1>9. RingFits'
    BY <1>a, <1>1, <1>3, <1>4 DEF RingFits
  <1>10. ChanFits'
    BY <1>a, <1>1, <1>3 DEF ChanFits
  <1>11. build' = "running" => build = "running"
    BY <1>2, <1>a DEF LogSteps
  <1>12. StreamOrder'
    BY <1>a, <1>1, <1>3, <1>11 DEF StreamOrder
  <1>13. StreamWhole'
    BY <1>a, <1>1, <1>3, <1>11 DEF StreamWhole, Has
  <1> QED BY <1>5, <1>6, <1>7, <1>8, <1>9, <1>10, <1>12, <1>13 DEF LogsInv

\* The channels are closed.
LEMMA CloseLogSubsKeeps ==
  ASSUME LogsInv, Logs!CloseLogSubs
  PROVE  LogsInv'
  <1> DEFINE N == 0..MaxLines
  <1> DEFINE L == Seq(1..MaxLines)
  <1> DEFINE Z == 0..MaxLogSize
  <1> DEFINE F == [0..(TailLines - 1) -> 0..MaxLines]
  <1> DEFINE R == [on : BOOLEAN, seq : N, pending : L, flushed : N, size : Z, truncated : BOOLEAN, tail : F, tailIdx : N]
  <1> DEFINE C == [on : BOOLEAN, lines : L, closed : BOOLEAN]
  <1> DEFINE closed == chan.on \/ chan.closed
  <1>1. UNCHANGED <<build, log, ticker, flush, stream, lost, dropped, flushedLate>>
    BY DEF Logs!CloseLogSubs
  <1>2. logger = "close" /\ logger' = "done"
    BY DEF Logs!CloseLogSubs
  <1>3. state' = [state EXCEPT !.on = FALSE] /\ chan' = [chan EXCEPT !.on = FALSE, !.closed = closed]
    BY DEF Logs!CloseLogSubs
  <1>a. Logs!TypeOK /\ LogSteps /\ LogOrder /\ LogWhole /\ RingFits /\ ChanFits /\ StreamOrder /\ StreamWhole
    BY DEF LogsInv
  <1>t. state \in R /\ chan \in C /\ closed \in BOOLEAN
    BY <1>a DEF Logs!TypeOK, Logs!Truncation, Logs!Notify
  <1> HIDE DEF N, L, Z, F, closed
  <1>4. /\ state' \in R /\ ~state'.on /\ state'.seq = state.seq /\ state'.pending = state.pending
        /\ state'.flushed = state.flushed /\ state'.truncated = state.truncated /\ state'.tail = state.tail
        /\ state'.tailIdx = state.tailIdx
    BY <1>3, <1>t
  <1>5. chan' \in C /\ ~chan'.on /\ chan'.lines = chan.lines
    BY <1>3, <1>t
  <1>6. Sent' = Sent /\ Taken' = Taken /\ Owed' = Owed /\ Notice' = Notice /\ Logs!TailOfRing' = Logs!TailOfRing
    BY <1>1, <1>2, <1>4 DEF Sent, Taken, Owed, Notice, Logs!TailOfRing
  <1>7. Logs!TypeOK'
    BY <1>a, <1>1, <1>2, <1>4, <1>5 DEF Logs!TypeOK, N, L, Z, F
  <1>8. LogSteps'
    BY <1>a, <1>1, <1>2, <1>4, <1>5 DEF LogSteps, Ended
  <1>9. LogOrder'
    BY <1>a, <1>1, <1>2, <1>4, <1>6 DEF LogOrder
  <1>10. LogWhole'
    BY <1>a, <1>1, <1>4, <1>6 DEF LogWhole
  <1>11. RingFits'
    BY <1>a, <1>1, <1>2, <1>4, <1>6 DEF RingFits
  <1>12. ChanFits'
    BY <1>a, <1>1, <1>5, <1>6 DEF ChanFits
  <1>13. StreamOrder'
    BY <1>a, <1>1, <1>5, <1>6 DEF StreamOrder
  <1>14. StreamWhole'
    BY <1>a, <1>1, <1>4, <1>5, <1>6 DEF StreamWhole, Has
  <1> QED BY <1>7, <1>8, <1>9, <1>10, <1>11, <1>12, <1>13, <1>14 DEF LogsInv

\* The stream subscribes.
LEMMA SubscribeLogsKeeps ==
  ASSUME LogsInv, Logs!SubscribeLogs
  PROVE  LogsInv'
  <1> DEFINE L == Seq(1..MaxLines)
  <1> DEFINE C == [on : BOOLEAN, lines : L, closed : BOOLEAN]
  <1> DEFINE W == [pc : {"new", "flush", "read", "live", "end"}, covered : 0..MaxLines, out : Seq(1..(MaxLines + 1))]
  <1>1. UNCHANGED <<build, log, state, logger, ticker, flush, lost, dropped, flushedLate>>
    BY DEF Logs!SubscribeLogs
  <1>2. stream.pc = "new" /\ stream' = [stream EXCEPT !.pc = "flush"] /\ chan' = [chan EXCEPT !.on = TRUE]
    BY DEF Logs!SubscribeLogs
  <1>a. Logs!TypeOK /\ LogSteps /\ LogOrder /\ LogWhole /\ RingFits /\ ChanFits /\ StreamOrder /\ StreamWhole
    BY DEF LogsInv
  <1>t. chan \in C /\ stream \in W
    BY <1>a DEF Logs!TypeOK, Logs!Truncation
  <1> HIDE DEF L
  <1>3. chan' \in C /\ chan'.on /\ chan'.lines = chan.lines /\ chan'.closed = chan.closed
    BY <1>2, <1>t
  <1>4. stream' \in W /\ stream'.pc = "flush" /\ stream'.covered = stream.covered /\ stream'.out = stream.out
    BY <1>2, <1>t
  <1>5. Sent' = Sent /\ Taken' = Taken /\ Owed' = Owed /\ Notice' = Notice /\ Logs!TailOfRing' = Logs!TailOfRing
    BY <1>1 DEF Sent, Taken, Owed, Notice, Logs!TailOfRing
  <1>6. Logs!TypeOK'
    BY <1>a, <1>1, <1>3, <1>4 DEF Logs!TypeOK, Logs!Truncation, L
  <1>7. LogSteps'
    BY <1>a, <1>1, <1>2, <1>3, <1>4 DEF LogSteps
  <1>8. LogOrder'
    BY <1>a, <1>1, <1>5 DEF LogOrder
  <1>9. LogWhole'
    BY <1>a, <1>1, <1>5 DEF LogWhole
  <1>10. RingFits'
    BY <1>a, <1>1, <1>5 DEF RingFits
  <1>11. ChanFits'
    BY <1>a, <1>1, <1>3, <1>5 DEF ChanFits
  <1>12. StreamOrder'
    BY <1>a, <1>1, <1>3, <1>4, <1>5 DEF StreamOrder
  <1>13. StreamWhole'
    BY <1>a, <1>1, <1>3, <1>4, <1>5 DEF StreamWhole, Has
  <1> QED BY <1>6, <1>7, <1>8, <1>9, <1>10, <1>11, <1>12, <1>13 DEF LogsInv

\* The logger sends a line to the subscriber.
LEMMA NotifyLogSubsKeeps ==
  ASSUME LogsInv, Logs!NotifyLogSubs
  PROVE  LogsInv'
  <1> DEFINE S == 1..MaxLines
  <1> DEFINE C == [on : BOOLEAN, lines : Seq(S), closed : BOOLEAN]
  <1> DEFINE line == state.seq
  <1> DEFINE room == chan.on /\ Len(chan.lines) < Buffer
  <1> DEFINE sent == Append(chan.lines, line)
  <1>1. UNCHANGED <<build, log, state, ticker, flush, stream, lost, flushedLate>>
    BY DEF Logs!NotifyLogSubs
  <1>2. logger = "notify" /\ logger' = "idle"
    BY DEF Logs!NotifyLogSubs, Logs!Notify
  <1>3. /\ room => chan' = [chan EXCEPT !.lines = sent] /\ dropped' = dropped
        /\ ~room => /\ chan' = chan
                    /\ dropped' = IF chan.on THEN dropped \cup {line} ELSE dropped
    BY DEF Logs!NotifyLogSubs
  <1>a. Logs!TypeOK /\ LogSteps /\ LogOrder /\ LogWhole /\ RingFits /\ ChanFits /\ StreamOrder /\ StreamWhole
    BY DEF LogsInv
  <1>n. MaxLines \in Nat /\ line \in 0..MaxLines /\ Buffer \in Nat
    BY <1>a, LogNumbers
  <1>l. line > 0
    BY <1>a, <1>2 DEF LogSteps
  <1>k. line \in S /\ Sent = line - 1 /\ Sent' = line
    BY <1>1, <1>2, <1>n, <1>l DEF Sent
  <1>t. chan \in C /\ dropped \subseteq S /\ Len(chan.lines) <= Buffer /\ chan.lines \in Seq(S)
    BY <1>a DEF Logs!TypeOK
  <1>i. /\ Len(chan.lines) \in Nat /\ DOMAIN chan.lines = 1..Len(chan.lines)
        /\ \A i \in DOMAIN chan.lines : chan.lines[i] \in S
    BY <1>a, LogIndices
  <1>j. stream.covered \in 0..MaxLines /\ \A i \in DOMAIN stream.out : stream.out[i] \in 1..(MaxLines + 1)
    BY <1>a, LogIndices, LogNumbers
  <1>p. /\ sent \in Seq(S) /\ DOMAIN sent = 1..(Len(chan.lines) + 1) /\ Len(sent) = Len(chan.lines) + 1
        /\ sent[Len(chan.lines) + 1] = line
        /\ \A i \in 1..Len(chan.lines) : sent[i] = chan.lines[i]
    <2> HIDE DEF S, line
    <2> QED BY <1>t, <1>k, LineSeqIs
  <1>q. \A i \in DOMAIN sent : (i \in DOMAIN chan.lines /\ sent[i] = chan.lines[i]) \/ (i = Len(chan.lines) + 1 /\ sent[i] = line)
    BY <1>p, <1>i
  <1>r. room => Len(chan.lines) < Buffer
    OBVIOUS
  <1>o. room => chan.on
    OBVIOUS
  <1>u. dropped' \subseteq S /\ dropped \subseteq dropped' /\ (~room /\ chan.on => line \in dropped')
    BY <1>3, <1>t, <1>k
  <1>v. room \in BOOLEAN
    BY <1>t
  <1> HIDE DEF room, sent, line, S
  <1>4. /\ room => chan' \in C /\ chan'.on = chan.on /\ chan'.lines = sent /\ chan'.closed = chan.closed
        /\ ~room => chan' = chan
    BY <1>3, <1>t, <1>p
  <1>5. chan' \in C /\ chan'.on = chan.on /\ chan'.closed = chan.closed /\ Len(chan'.lines) <= Buffer
    <2>1. room => Len(sent) <= Buffer
      BY <1>r, <1>p, <1>i, <1>n
    <2> QED BY <1>4, <1>t, <2>1
  <1>6. Taken' = Taken /\ Owed' = Owed /\ Notice' = Notice /\ Logs!TailOfRing' = Logs!TailOfRing
    BY <1>1 DEF Taken, Owed, Notice, Logs!TailOfRing
  <1>7. Logs!TypeOK'
    BY <1>a, <1>1, <1>2, <1>5, <1>u DEF Logs!TypeOK, Logs!Truncation, Logs!Notify, S
  <1>8. LogSteps'
    BY <1>a, <1>1, <1>2, <1>5 DEF LogSteps, Ended
  <1>9. LogOrder'
    BY <1>a, <1>1, <1>2, <1>6 DEF LogOrder
  <1>10. LogWhole'
    BY <1>a, <1>1, <1>6 DEF LogWhole
  <1>11. RingFits'
    BY <1>a, <1>1, <1>2, <1>6 DEF RingFits
  <1>w. \A i \in DOMAIN chan.lines : chan.lines[i] <= line - 1
    BY <1>a, <1>k DEF ChanFits
  <1>12. ChanFits'
    <2>1. \A i, j \in DOMAIN chan.lines : i < j => chan.lines[i] < chan.lines[j]
      BY <1>a DEF ChanFits
    <2>2. \A i \in DOMAIN chan.lines : chan.lines[i] < line /\ chan.lines[i] <= line
      BY <1>w, <1>i, <1>n DEF S
    <2>3. \A i, j \in DOMAIN sent : i < j => sent[i] < sent[j]
      BY <2>1, <2>2, <1>q, <1>i
    <2>4. \A i \in DOMAIN sent : sent[i] <= line
      BY <2>2, <1>q, <1>n
    <2>5. chan'.lines = chan.lines \/ chan'.lines = sent
      BY <1>4
    <2> QED BY <1>k, <2>1, <2>2, <2>3, <2>4, <2>5 DEF ChanFits
  <1>13. StreamOrder'
    <2>1. ASSUME stream.pc = "live", NEW i \in DOMAIN stream.out, stream.out[i] \in Owed
          PROVE  /\ stream.out[i] <= stream.covered \/ stream.out[i] <= line
                 /\ \A j \in DOMAIN chan'.lines : stream.covered < chan'.lines[j] => stream.out[i] < chan'.lines[j]
      <3>1. /\ stream.out[i] <= stream.covered \/ stream.out[i] <= line - 1
            /\ \A j \in DOMAIN chan.lines : stream.covered < chan.lines[j] => stream.out[i] < chan.lines[j]
        BY <1>a, <2>1, <1>k DEF StreamOrder
      <3>2. stream.covered < line => stream.out[i] < line
        BY <3>1, <1>j, <1>n
      <3>3. \A j \in DOMAIN sent : stream.covered < sent[j] => stream.out[i] < sent[j]
        BY <3>1, <3>2, <1>q
      <3>4. stream.out[i] <= stream.covered \/ stream.out[i] <= line
        BY <3>1, <1>j, <1>n
      <3> QED BY <3>1, <3>3, <3>4, <1>4
    <2>2. \A i, j \in DOMAIN stream.out : i < j /\ stream.out[i] \in Owed /\ stream.out[j] \in Owed =>
            stream.out[i] < stream.out[j]
      BY <1>a DEF StreamOrder
    <2>3. stream.pc = "read" /\ build = "running" => \A i \in DOMAIN log : log[i] \in Owed => log[i] <= stream.covered
      BY <1>a DEF StreamOrder
    <2> QED BY <1>1, <1>6, <1>k, <2>1, <2>2, <2>3 DEF StreamOrder
  <1>14. StreamWhole'
    <2> SUFFICES ASSUME lost' = {}, dropped' = {}, ~state'.truncated
                 PROVE  StreamWhole'
      BY DEF StreamWhole
    <2>1. lost = {} /\ dropped = {} /\ ~state.truncated
      BY <1>1, <1>u
    <2>2. \A x \in Nat : Has(chan.lines, x) => Has(chan'.lines, x)
      <3>1. \A x \in Nat : Has(chan.lines, x) => Has(sent, x)
        BY <1>p, <1>i DEF Has
      <3> QED BY <3>1, <1>4
    <2>3. stream.pc \in {"flush", "read", "live"} => Has(chan'.lines, line)
      <3>1. stream.pc \in {"flush", "read", "live"} => chan.on
        BY <1>a, <1>2 DEF LogSteps
      <3>2. Has(sent, line)
        BY <1>p, <1>i DEF Has
      <3>3. stream.pc \in {"flush", "read", "live"} => room
        BY <3>1, <1>u, <1>v
      <3> QED BY <3>2, <3>3, <1>4
    <2>4. \A x, y \in Nat : x \in (y + 1)..line => x \in (y + 1)..(line - 1) \/ x = line
      BY <1>n
    <2>5. stream.covered \in Nat /\ flush.upTo \in Nat
      BY <1>a, LogNumbers
    <2>6. flush'.holder = "stream" => \A x \in (flush'.upTo + 1)..Sent' : Has(chan'.lines, x)
      <3>1. flush.holder = "stream" => stream.pc = "flush" /\ \A x \in (flush.upTo + 1)..(line - 1) : Has(chan.lines, x)
        BY <1>a, <2>1, <1>k DEF StreamWhole, LogSteps
      <3>2. \A x \in (flush.upTo + 1)..line : x \in Nat
        BY <2>5, <1>n
      <3> QED BY <1>1, <1>k, <2>2, <2>3, <2>4, <2>5, <3>1, <3>2
    <2>7. stream'.pc = "read" /\ build' = "running" => /\ stream'.covered <= state'.flushed
                                                /\ \A x \in (stream'.covered + 1)..Sent' : Has(chan'.lines, x)
      <3>1. stream.pc = "read" /\ build = "running" => /\ stream.covered <= state.flushed
                                                /\ \A x \in (stream.covered + 1)..(line - 1) : Has(chan.lines, x)
        BY <1>a, <2>1, <1>k DEF StreamWhole
      <3>2. \A x \in (stream.covered + 1)..line : x \in Nat
        BY <2>5, <1>n
      <3> QED BY <1>1, <1>k, <2>2, <2>3, <2>4, <2>5, <3>1, <3>2
    <2>8. stream'.pc = "live" => /\ \A x \in 1..stream'.covered : Has(stream'.out, x)
                                 /\ \A x \in 1..Sent' : Has(stream'.out, x) \/ Has(chan'.lines, x)
      <3>1. stream.pc = "live" => /\ \A x \in 1..stream.covered : Has(stream.out, x)
                                  /\ \A x \in 1..(line - 1) : Has(stream.out, x) \/ Has(chan.lines, x)
        BY <1>a, <2>1, <1>k DEF StreamWhole
      <3>2. \A x \in 1..line : x \in Nat /\ (x \in 1..(line - 1) \/ x = line)
        BY <1>n
      <3> QED BY <1>1, <1>k, <2>2, <2>3, <3>1, <3>2
    <2>9. stream.pc # "end"
      BY <1>a, <1>2 DEF LogSteps
    <2> QED BY <1>1, <2>6, <2>7, <2>8, <2>9 DEF StreamWhole
  <1> QED BY <1>7, <1>8, <1>9, <1>10, <1>11, <1>12, <1>13, <1>14 DEF LogsInv

\* The stream reads the row.
LEMMA ReadBuildKeeps ==
  ASSUME LogsInv, Logs!ReadBuild
  PROVE  LogsInv'
  <1> DEFINE V == Seq(1..(MaxLines + 1))
  <1> DEFINE L == Seq(1..MaxLines)
  <1> DEFINE C == [on : BOOLEAN, lines : L, closed : BOOLEAN]
  <1> DEFINE W == [pc : {"new", "flush", "read", "live", "end"}, covered : 0..MaxLines, out : V]
  <1> DEFINE next == IF build = "running" THEN "live" ELSE "end"
  <1>1. UNCHANGED <<build, log, state, logger, ticker, flush, lost, dropped, flushedLate>>
    BY DEF Logs!ReadBuild
  <1>a. Logs!TypeOK /\ LogSteps /\ LogOrder /\ LogWhole /\ RingFits /\ ChanFits /\ StreamOrder /\ StreamWhole
    BY DEF LogsInv
  <1>2. stream.pc = "read" /\ stream.out = <<>>
    BY <1>a DEF Logs!ReadBuild, LogSteps
  <1>t. chan \in C /\ stream \in W /\ log \in V
    BY <1>a DEF Logs!TypeOK, Logs!Truncation
  <1>e. <<>> \o log = log
    BY <1>t
  <1>3. /\ stream' = [stream EXCEPT !.out = log, !.pc = next]
        /\ IF build = "running" THEN chan' = chan ELSE chan' = [chan EXCEPT !.on = FALSE]
    BY <1>2, <1>e DEF Logs!ReadBuild, Logs!GetBuild, Logs!Write, Logs!UnsubscribeLogs
  <1>b. build \in {"running", "over"} /\ (build = "running" => next = "live") /\ (build # "running" => next = "end")
    BY <1>a DEF Logs!TypeOK
  <1> HIDE DEF L, V, next
  <1>4. stream' \in W /\ stream'.pc = next /\ stream'.covered = stream.covered /\ stream'.out = log
    BY <1>3, <1>t, <1>b
  <1>5. chan' \in C /\ chan'.lines = chan.lines /\ chan'.closed = chan.closed /\ (build = "running" => chan'.on = chan.on)
    BY <1>3, <1>t
  <1>n. /\ MaxLines \in Nat /\ state.seq \in 0..MaxLines /\ state.flushed \in 0..MaxLines /\ Taken \in 0..MaxLines
        /\ stream.covered \in 0..MaxLines /\ flush.upTo \in 0..MaxLines /\ Notice = MaxLines + 1
    BY <1>a, LogNumbers
  <1>i. /\ Len(log) \in Nat /\ DOMAIN log = 1..Len(log) /\ Len(chan.lines) \in Nat /\ DOMAIN chan.lines = 1..Len(chan.lines)
        /\ \A i \in DOMAIN log : log[i] \in 1..(MaxLines + 1)
        /\ \A i \in DOMAIN chan.lines : chan.lines[i] \in 1..MaxLines
        /\ Len(flush.chunk) \in Nat /\ Len(state.pending) \in Nat
    BY <1>a, LogIndices
  <1>s. Sent \in 0..MaxLines
    BY <1>a, SentIs
  <1>6. Sent' = Sent /\ Taken' = Taken /\ Owed' = Owed /\ Notice' = Notice /\ Logs!TailOfRing' = Logs!TailOfRing
    BY <1>1 DEF Sent, Taken, Owed, Notice, Logs!TailOfRing
  <1>7. Logs!TypeOK'
    BY <1>a, <1>1, <1>4, <1>5 DEF Logs!TypeOK, Logs!Truncation, Logs!Notify, L, V
  <1>8. LogSteps'
    <2>1. next = "end" => build = "over"
      BY <1>b
    <2>2. next = "live" /\ logger # "done" => chan'.on
      BY <1>a, <1>2, <1>5, <1>b DEF LogSteps
    <2>3. flush.holder # "stream"
      BY <1>a, <1>2 DEF LogSteps
    <2>4. next \in {"live", "end"}
      BY <1>b
    <2>5. chan'.closed => logger = "done"
      BY <1>a, <1>5 DEF LogSteps
    <2> QED BY <1>a, <1>1, <1>4, <2>1, <2>2, <2>3, <2>4, <2>5 DEF LogSteps, Ended
  <1>9. LogOrder'
    BY <1>a, <1>1, <1>6 DEF LogOrder
  <1>10. LogWhole'
    BY <1>a, <1>1, <1>6 DEF LogWhole
  <1>11. RingFits'
    BY <1>a, <1>1, <1>6 DEF RingFits
  <1>12. ChanFits'
    BY <1>a, <1>1, <1>5, <1>6 DEF ChanFits
  <1>13. StreamOrder'
    <2>1. Notice \notin Owed
      BY <1>n DEF Owed
    <2>2. \A i, j \in DOMAIN log : i < j /\ log[i] \in Owed /\ log[j] \in Owed => log[i] < log[j]
      BY <1>a, <2>1 DEF LogOrder
    <2>3. build = "running" => \A i \in DOMAIN log : log[i] \in Owed =>
            /\ log[i] <= stream.covered
            /\ \A j \in DOMAIN chan.lines : stream.covered < chan.lines[j] => log[i] < chan.lines[j]
      <3>1. build = "running" => \A i \in DOMAIN log : log[i] \in Owed => log[i] <= stream.covered
        BY <1>a, <1>2 DEF StreamOrder
      <3> QED BY <3>1, <1>n, <1>i
    <2>4. stream'.pc = "live" => build = "running"
      BY <1>4, <1>b
    <2>5. stream'.pc # "read"
      BY <1>4, <1>b
    <2> QED BY <1>1, <1>4, <1>5, <1>6, <2>2, <2>3, <2>4, <2>5 DEF StreamOrder
  <1>14. StreamWhole'
    <2> SUFFICES ASSUME lost' = {}, dropped' = {}, ~state'.truncated
                 PROVE  StreamWhole'
      BY DEF StreamWhole
    <2>0. lost = {} /\ dropped = {} /\ ~state.truncated
      BY <1>1
    <2>1. Len(log) = state.flushed /\ \A i \in DOMAIN log : log[i] = i
      BY <1>a, <2>0 DEF LogWhole
    <2>2. \A x \in 1..state.flushed : Has(log, x)
      BY <2>1, <1>i DEF Has
    <2>3. build = "running" => /\ stream.covered <= state.flushed
                               /\ \A x \in (stream.covered + 1)..Sent : Has(chan.lines, x)
      BY <1>a, <1>2, <2>0 DEF StreamWhole
    <2>4. build = "running" => /\ \A x \in 1..stream.covered : Has(log, x)
                               /\ \A x \in 1..Sent : Has(log, x) \/ Has(chan.lines, x)
      <3>1. build = "running" => \A x \in 1..stream.covered : x \in 1..state.flushed
        BY <2>3, <1>n
      <3>2. \A x \in 1..Sent : x \in 1..stream.covered \/ x \in (stream.covered + 1)..Sent
        BY <1>n, <1>s
      <3> QED BY <2>2, <2>3, <3>1, <3>2
    <2>5. build = "over" => state.flushed = state.seq
      <3>1. build = "over" => /\ state.pending = <<>> /\ flush.chunk = <<>>
                              /\ flush.holder # "none" => flush.upTo = state.seq
        BY <1>a DEF LogSteps, Ended
      <3>2. Len(state.pending) = state.seq - Taken /\ (flush.holder # "none" => Len(flush.chunk) = flush.upTo - state.flushed)
        BY <1>a, <2>0 DEF LogWhole
      <3>3. state.pending = <<>> => Len(state.pending) = 0
        OBVIOUS
      <3>4. flush.chunk = <<>> => Len(flush.chunk) = 0
        OBVIOUS
      <3>5. flush.holder = "none" => Taken = state.flushed
        BY DEF Taken
      <3> QED BY <3>1, <3>2, <3>3, <3>4, <3>5, <1>n
    <2>6. stream'.pc = "end" => \A x \in 1..state'.seq : Has(stream'.out, x)
      BY <1>1, <1>4, <1>b, <2>2, <2>5
    <2>7. stream'.pc = "live" => /\ \A x \in 1..stream'.covered : Has(stream'.out, x)
                                 /\ \A x \in 1..Sent' : Has(stream'.out, x) \/ Has(chan'.lines, x)
      BY <1>1, <1>4, <1>5, <1>6, <1>b, <2>4
    <2>8. flush'.holder # "stream"
      BY <1>a, <1>1, <1>2 DEF LogSteps
    <2>9. stream'.pc # "read"
      BY <1>4, <1>b
    <2> QED BY <2>6, <2>7, <2>8, <2>9 DEF StreamWhole
  <1> QED BY <1>7, <1>8, <1>9, <1>10, <1>11, <1>12, <1>13, <1>14 DEF LogsInv

\* The stream ends.
LEMMA EndStreamKeeps ==
  ASSUME LogsInv, Logs!EndStream
  PROVE  LogsInv'
  <1> DEFINE V == Seq(1..(MaxLines + 1))
  <1> DEFINE L == Seq(1..MaxLines)
  <1> DEFINE C == [on : BOOLEAN, lines : L, closed : BOOLEAN]
  <1> DEFINE W == [pc : {"new", "flush", "read", "live", "end"}, covered : 0..MaxLines, out : V]
  <1>1. UNCHANGED <<build, log, state, logger, ticker, flush, lost, dropped, flushedLate>>
    BY DEF Logs!EndStream
  <1>2. stream.pc = "live" /\ chan.closed /\ chan.lines = <<>>
    BY DEF Logs!EndStream
  <1>3. stream' = [stream EXCEPT !.pc = "end"] /\ chan' = [chan EXCEPT !.on = FALSE]
    BY DEF Logs!EndStream, Logs!UnsubscribeLogs
  <1>a. Logs!TypeOK /\ LogSteps /\ LogOrder /\ LogWhole /\ RingFits /\ ChanFits /\ StreamOrder /\ StreamWhole
    BY DEF LogsInv
  <1>t. chan \in C /\ stream \in W
    BY <1>a DEF Logs!TypeOK, Logs!Truncation
  <1> HIDE DEF L, V
  <1>4. stream' \in W /\ stream'.pc = "end" /\ stream'.covered = stream.covered /\ stream'.out = stream.out
    BY <1>3, <1>t
  <1>5. chan' \in C /\ chan'.lines = chan.lines /\ chan'.closed = chan.closed
    BY <1>3, <1>t
  <1>6. Sent' = Sent /\ Taken' = Taken /\ Owed' = Owed /\ Notice' = Notice /\ Logs!TailOfRing' = Logs!TailOfRing
    BY <1>1 DEF Sent, Taken, Owed, Notice, Logs!TailOfRing
  <1>b. logger = "done" /\ build = "over" /\ Sent = state.seq
    BY <1>a, <1>2 DEF LogSteps, Sent
  <1>7. Logs!TypeOK'
    BY <1>a, <1>1, <1>4, <1>5 DEF Logs!TypeOK, Logs!Truncation, Logs!Notify, L, V
  <1>8. LogSteps'
    BY <1>a, <1>1, <1>2, <1>4, <1>5, <1>b DEF LogSteps, Ended
  <1>9. LogOrder'
    BY <1>a, <1>1, <1>6 DEF LogOrder
  <1>10. LogWhole'
    BY <1>a, <1>1, <1>6 DEF LogWhole
  <1>11. RingFits'
    BY <1>a, <1>1, <1>6 DEF RingFits
  <1>12. ChanFits'
    BY <1>a, <1>1, <1>5, <1>6 DEF ChanFits
  <1>13. StreamOrder'
    BY <1>a, <1>1, <1>4, <1>6 DEF StreamOrder
  <1>14. StreamWhole'
    <2>1. \A x : ~Has(chan.lines, x)
      BY <1>2 DEF Has
    <2>2. flush.holder # "stream"
      BY <1>a, <1>2 DEF LogSteps
    <2> QED BY <1>a, <1>1, <1>2, <1>4, <1>b, <2>1, <2>2 DEF StreamWhole, Has
  <1> QED BY <1>7, <1>8, <1>9, <1>10, <1>11, <1>12, <1>13, <1>14 DEF LogsInv

\* The stream copies a line, or passes over one that it has read.
LEMMA CopyLineKeeps ==
  ASSUME LogsInv, Logs!CopyLine
  PROVE  LogsInv'
  <1> DEFINE S == 1..MaxLines
  <1> DEFINE M == 1..(MaxLines + 1)
  <1> DEFINE C == [on : BOOLEAN, lines : Seq(S), closed : BOOLEAN]
  <1> DEFINE W == [pc : {"new", "flush", "read", "live", "end"}, covered : 0..MaxLines, out : Seq(M)]
  <1> DEFINE line == Head(chan.lines)
  <1> DEFINE copied == Append(stream.out, line)
  <1> DEFINE rest == Tail(chan.lines)
  <1> DEFINE known == line <= stream.covered
  <1>1. UNCHANGED <<build, log, state, logger, ticker, flush, lost, dropped, flushedLate>>
    BY DEF Logs!CopyLine
  <1>2. stream.pc = "live" /\ chan.lines # <<>>
    BY DEF Logs!CopyLine
  <1>3. stream' = [stream EXCEPT !.out = IF known THEN stream.out ELSE copied] /\ chan' = [chan EXCEPT !.lines = rest]
    BY DEF Logs!CopyLine
  <1>a. Logs!TypeOK /\ LogSteps /\ LogOrder /\ LogWhole /\ RingFits /\ ChanFits /\ StreamOrder /\ StreamWhole
    BY DEF LogsInv
  <1>t. chan \in C /\ stream \in W /\ chan.lines \in Seq(S) /\ stream.out \in Seq(M) /\ Len(chan.lines) <= Buffer
    BY <1>a DEF Logs!TypeOK, Logs!Truncation
  <1>n. /\ MaxLines \in Nat /\ Buffer \in Nat /\ stream.covered \in 0..MaxLines
    BY <1>a, LogNumbers
  <1>i. /\ Len(chan.lines) \in Nat /\ DOMAIN chan.lines = 1..Len(chan.lines)
        /\ Len(stream.out) \in Nat /\ DOMAIN stream.out = 1..Len(stream.out)
        /\ \A i \in DOMAIN chan.lines : chan.lines[i] \in S
        /\ \A i \in DOMAIN stream.out : stream.out[i] \in M
    BY <1>a, LogIndices
  <1>p. /\ line = chan.lines[1] /\ rest \in Seq(S) /\ Len(chan.lines) >= 1 /\ Len(rest) = Len(chan.lines) - 1
        /\ DOMAIN rest = 1..(Len(chan.lines) - 1)
        /\ \A i \in 1..(Len(chan.lines) - 1) : rest[i] = chan.lines[i + 1]
    <2> HIDE DEF S
    <2> QED BY <1>t, <1>2, LineSeqIs
  <1>l. line \in S /\ line \in M /\ 1 \in DOMAIN chan.lines
    BY <1>p, <1>i, <1>n
  <1>q. /\ copied \in Seq(M) /\ DOMAIN copied = 1..(Len(stream.out) + 1) /\ copied[Len(stream.out) + 1] = line
        /\ \A i \in 1..Len(stream.out) : copied[i] = stream.out[i]
    <2> HIDE DEF M, line
    <2> QED BY <1>t, <1>l, LineSeqIs
  <1>k. known \in BOOLEAN /\ (known <=> line <= stream.covered)
    OBVIOUS
  <1> HIDE DEF S, M, line, copied, rest, known
  <1>4. /\ stream' \in W /\ stream'.pc = "live" /\ stream'.covered = stream.covered
        /\ known => stream'.out = stream.out
        /\ ~known => stream'.out = copied
    BY <1>2, <1>3, <1>t, <1>q
  <1>5. chan' \in C /\ chan'.lines = rest /\ chan'.closed = chan.closed /\ chan'.on = chan.on
    BY <1>3, <1>t, <1>p
  <1>6. Sent' = Sent /\ Taken' = Taken /\ Owed' = Owed /\ Notice' = Notice /\ Logs!TailOfRing' = Logs!TailOfRing
    BY <1>1 DEF Sent, Taken, Owed, Notice, Logs!TailOfRing
  <1>7. Logs!TypeOK'
    <2>1. Len(rest) <= Buffer
      BY <1>p, <1>t, <1>n, <1>i
    <2> QED BY <1>a, <1>1, <1>4, <1>5, <2>1 DEF Logs!TypeOK, Logs!Truncation, Logs!Notify, S, M
  <1>8. LogSteps'
    BY <1>a, <1>1, <1>2, <1>4, <1>5 DEF LogSteps, Ended
  <1>9. LogOrder'
    BY <1>a, <1>1, <1>6 DEF LogOrder
  <1>10. LogWhole'
    BY <1>a, <1>1, <1>6 DEF LogWhole
  <1>11. RingFits'
    BY <1>a, <1>1, <1>6 DEF RingFits
  <1>r. \A i \in DOMAIN rest : i + 1 \in DOMAIN chan.lines /\ rest[i] = chan.lines[i + 1]
    BY <1>p, <1>i
  <1>o. /\ \A i, j \in DOMAIN chan.lines : i < j => chan.lines[i] < chan.lines[j]
        /\ \A i \in DOMAIN chan.lines : chan.lines[i] <= Sent
    BY <1>a DEF ChanFits
  <1>12. ChanFits'
    <2>1. \A i, j \in DOMAIN rest : i < j => i + 1 < j + 1
      BY <1>p, <1>i
    <2>2. \A i, j \in DOMAIN rest : i < j => rest[i] < rest[j]
      BY <1>r, <1>o, <2>1
    <2>3. \A i \in DOMAIN rest : rest[i] <= Sent
      BY <1>r, <1>o
    <2> QED BY <1>5, <1>6, <2>2, <2>3 DEF ChanFits
  <1>u. \A i \in DOMAIN rest : line < rest[i]
    <2>1. \A i \in DOMAIN rest : 1 < i + 1
      BY <1>p, <1>i
    <2> QED BY <1>p, <1>r, <1>o, <1>l, <2>1
  <1>v. \A i \in DOMAIN copied : (i \in DOMAIN stream.out /\ copied[i] = stream.out[i]) \/ (i = Len(stream.out) + 1 /\ copied[i] = line)
    BY <1>q, <1>i
  <1>13. StreamOrder'
    <2>1. /\ \A i, j \in DOMAIN stream.out : i < j /\ stream.out[i] \in Owed /\ stream.out[j] \in Owed =>
               stream.out[i] < stream.out[j]
          /\ \A i \in DOMAIN stream.out : stream.out[i] \in Owed =>
               /\ stream.out[i] <= stream.covered \/ stream.out[i] <= Sent
               /\ \A j \in DOMAIN chan.lines : stream.covered < chan.lines[j] => stream.out[i] < chan.lines[j]
      BY <1>a, <1>2 DEF StreamOrder
    <2>2. \A i \in DOMAIN stream.out : stream.out[i] \in Owed =>
            \A j \in DOMAIN rest : stream.covered < rest[j] => stream.out[i] < rest[j]
      BY <2>1, <1>r
    <2>3. CASE known
      BY <1>4, <1>5, <1>6, <2>1, <2>2, <2>3 DEF StreamOrder
    <2>4. CASE ~known
      <3>1. stream.covered < line
        BY <2>4, <1>k, <1>l, <1>n DEF S
      <3>2. \A i \in DOMAIN stream.out : stream.out[i] \in Owed => stream.out[i] < line
        BY <2>1, <3>1, <1>l, <1>p
      <3>3. \A i, j \in DOMAIN copied : i < j /\ copied[i] \in Owed /\ copied[j] \in Owed => copied[i] < copied[j]
        BY <2>1, <3>2, <1>v, <1>i
      <3>4. line <= Sent
        BY <1>o, <1>l, <1>p
      <3>5. \A i \in DOMAIN copied : copied[i] \in Owed =>
               /\ copied[i] <= stream.covered \/ copied[i] <= Sent
               /\ \A j \in DOMAIN rest : stream.covered < rest[j] => copied[i] < rest[j]
        BY <2>1, <2>2, <3>4, <1>u, <1>v
      <3> QED BY <1>4, <1>5, <1>6, <2>4, <3>3, <3>5 DEF StreamOrder
    <2> QED BY <2>3, <2>4
  <1>14. StreamWhole'
    <2> SUFFICES ASSUME lost' = {}, dropped' = {}, ~state'.truncated
                 PROVE  StreamWhole'
      BY DEF StreamWhole
    <2>1. /\ \A x \in 1..stream.covered : Has(stream.out, x)
          /\ \A x \in 1..Sent : Has(stream.out, x) \/ Has(chan.lines, x)
      BY <1>a, <1>1, <1>2 DEF StreamWhole
    <2>2. \A x : Has(stream.out, x) => Has(stream'.out, x)
      <3>1. \A x : Has(stream.out, x) => Has(copied, x)
        BY <1>q, <1>i DEF Has
      <3> QED BY <3>1, <1>4, <1>k
    <2>3. Has(stream'.out, line)
      <3>1. known => Has(stream.out, line)
        BY <2>1, <1>k, <1>l, <1>n DEF S
      <3>2. Has(copied, line)
        BY <1>q, <1>i DEF Has
      <3> QED BY <3>1, <3>2, <2>2, <1>4, <1>k
    <2>4. \A x : Has(chan.lines, x) => x = line \/ Has(rest, x)
      <3>1. \A i \in DOMAIN chan.lines : i = 1 \/ (i - 1 \in DOMAIN rest /\ rest[i - 1] = chan.lines[i])
        BY <1>p, <1>i
      <3> QED BY <3>1, <1>p DEF Has
    <2>5. flush.holder # "stream"
      BY <1>a, <1>2 DEF LogSteps
    <2> QED BY <1>1, <1>4, <1>5, <1>6, <2>1, <2>2, <2>3, <2>4, <2>5 DEF StreamWhole
  <1> QED BY <1>7, <1>8, <1>9, <1>10, <1>11, <1>12, <1>13, <1>14 DEF LogsInv

\* The tail that is collected: the last lines.
LEMMA TailIs ==
  ASSUME LogsInv
  PROVE  LET count == IF state.tailIdx > TailLines THEN TailLines ELSE state.tailIdx IN
           /\ count \in Nat /\ count <= state.seq /\ (state.truncated => count >= 1)
           /\ Logs!TailOfRing = [i \in 1..count |-> state.seq - count + i]
  <1> DEFINE count == IF state.tailIdx > TailLines THEN TailLines ELSE state.tailIdx
  <1>1. /\ MaxLines \in Nat /\ TailLines \in Nat /\ TailLines >= 1 /\ state.seq \in 0..MaxLines /\ state.tailIdx \in 0..MaxLines
    BY LogNumbers DEF LogsInv
  <1>2. /\ state.tailIdx <= state.seq /\ (state.truncated <=> state.tailIdx # 0)
        /\ \A j \in 0..(state.tailIdx - 1) : state.tailIdx - TailLines <= j =>
              state.tail[j % TailLines] = state.seq - state.tailIdx + j + 1
    BY DEF LogsInv, RingFits
  <1>3. count \in Nat /\ count <= state.tailIdx /\ count <= TailLines /\ (state.tailIdx # 0 => count >= 1)
    BY <1>1
  <1>4. Logs!TailOfRing = [i \in 1..count |-> state.tail[(state.tailIdx - count + i - 1) % TailLines]]
    BY DEF Logs!TailOfRing
  <1> HIDE DEF count
  <1>5. ASSUME NEW i \in 1..count
        PROVE  state.tail[(state.tailIdx - count + i - 1) % TailLines] = state.seq - count + i
    <2> DEFINE j == state.tailIdx - count + i - 1
    <2>1. j \in 0..(state.tailIdx - 1) /\ state.tailIdx - TailLines <= j
      BY <1>1, <1>3
    <2>2. state.tail[j % TailLines] = state.seq - state.tailIdx + j + 1
      BY <1>2, <2>1
    <2>3. state.seq - state.tailIdx + j + 1 = state.seq - count + i
      BY <1>1, <1>3
    <2> QED BY <2>2, <2>3
  <1>6. Logs!TailOfRing = [i \in 1..count |-> state.seq - count + i]
    BY <1>4, <1>5
  <1>7. count <= state.seq /\ (state.truncated => count >= 1)
    BY <1>1, <1>2, <1>3
  <1> QED BY <1>3, <1>6, <1>7 DEF count

\* The log that replaces a truncated one.
LEMMA NoticeAndTail ==
  ASSUME LogsInv, state.truncated
  PROVE  /\ <<Notice>> \o Logs!TailOfRing \in Seq(1..(MaxLines + 1))
         /\ Logs!ToSet(Logs!TailOfRing) \subseteq 1..MaxLines /\ Logs!ToSet(Logs!TailOfRing) # {}
         /\ LET new == <<Notice>> \o Logs!TailOfRing IN
              /\ \A i \in DOMAIN new : new[i] = Notice \/ (new[i] \in Logs!ToSet(Logs!TailOfRing) /\ new[i] <= state.seq)
              /\ \A i, j \in DOMAIN new : i < j /\ new[i] # Notice /\ new[j] # Notice => new[i] < new[j]
  <1> DEFINE M == 1..(MaxLines + 1)
  <1> DEFINE tail == Logs!TailOfRing
  <1> DEFINE new == <<Notice>> \o tail
  <1>1. PICK count \in Nat : /\ count <= state.seq /\ count >= 1
                             /\ tail = [i \in 1..count |-> state.seq - count + i]
    BY TailIs
  <1>2. MaxLines \in Nat /\ state.seq \in 0..MaxLines /\ Notice = MaxLines + 1
    BY LogNumbers DEF LogsInv
  <1> HIDE DEF tail
  <1>3. \A i \in 1..count : tail[i] = state.seq - count + i /\ tail[i] \in 1..MaxLines /\ tail[i] \in M
    BY <1>1, <1>2
  <1>4. tail \in Seq(M) /\ Len(tail) = count /\ DOMAIN tail = 1..count
    BY <1>1, <1>3
  <1>5. <<Notice>> \in Seq(M) /\ Len(<<Notice>>) = 1 /\ <<Notice>>[1] = Notice
    BY <1>2
  <1> DEFINE first == <<Notice>>
  <1> HIDE DEF first, M
  <1>6. /\ first \o tail \in Seq(M) /\ DOMAIN (first \o tail) = 1..(count + 1)
        /\ (first \o tail)[1] = Notice
        /\ \A i \in 2..(count + 1) : i - 1 \in 1..count /\ (first \o tail)[i] = tail[i - 1]
    <2>1. first \in Seq(M) /\ Len(first) = 1 /\ first[1] = Notice
      BY <1>5 DEF first
    <2>2. /\ first \o tail \in Seq(M) /\ DOMAIN (first \o tail) = 1..(Len(first) + Len(tail))
          /\ \A i \in 1..Len(first) : (first \o tail)[i] = first[i]
          /\ \A i \in 1..(Len(first) + Len(tail)) : i > Len(first) => i - Len(first) \in 1..Len(tail) /\ (first \o tail)[i] = tail[i - Len(first)]
      BY <1>4, <2>1, LinesJoined
    <2>3. DOMAIN (first \o tail) = 1..(count + 1) /\ (first \o tail)[1] = Notice
      BY <1>4, <2>1, <2>2
    <2>4. \A i \in 2..(count + 1) : i - 1 \in 1..count /\ (first \o tail)[i] = tail[i - 1]
      BY <1>4, <2>1, <2>2
    <2> QED BY <2>2, <2>3, <2>4
  <1>7. new = first \o tail
    BY DEF first
  <1> HIDE DEF new
  <1>8. Logs!ToSet(tail) \subseteq 1..MaxLines /\ tail[1] \in Logs!ToSet(tail)
        /\ \A i \in 1..count : tail[i] \in Logs!ToSet(tail)
    BY <1>1, <1>3, <1>4 DEF Logs!ToSet
  <1>9. \A i \in DOMAIN new : (i = 1 /\ new[i] = Notice)
                              \/ (i - 1 \in 1..count /\ new[i] = tail[i - 1])
    BY <1>6, <1>7
  <1>10. \A i \in 1..count : tail[i] <= state.seq
    BY <1>3, <1>2, <1>1
  <1>11. \A i, j \in 1..count : i < j => tail[i] < tail[j]
    BY <1>3, <1>2
  <1>12. \A i \in DOMAIN new : new[i] = Notice \/ (new[i] \in Logs!ToSet(tail) /\ new[i] <= state.seq)
    BY <1>8, <1>9, <1>10
  <1>13. \A i, j \in DOMAIN new : i < j /\ new[i] # Notice /\ new[j] # Notice => new[i] < new[j]
    <2> SUFFICES ASSUME NEW i \in DOMAIN new, NEW j \in DOMAIN new, i < j, new[i] # Notice, new[j] # Notice
                 PROVE  new[i] < new[j]
      OBVIOUS
    <2>1. i - 1 \in 1..count /\ new[i] = tail[i - 1] /\ j - 1 \in 1..count /\ new[j] = tail[j - 1]
      BY <1>9
    <2>2. i \in 1..(count + 1) /\ j \in 1..(count + 1)
      BY <1>6, <1>7
    <2>3. i - 1 < j - 1
      BY <2>2
    <2> QED BY <2>1, <2>3, <1>11
  <1> QED BY <1>6, <1>7, <1>8, <1>12, <1>13 DEF new, tail, M

\* flushTailBuffer keeps the invariant.
LEMMA FlushTailBufferKeeps ==
  ASSUME LogsInv, Logs!FlushTailBuffer
  PROVE  LogsInv'
  <1> DEFINE new == <<Notice>> \o Logs!TailOfRing
  <1> DEFINE cut == Logs!ToSet(Logs!TailOfRing)
  <1>1. UNCHANGED <<build, state, ticker, flush, stream, chan, dropped>>
    BY DEF Logs!FlushTailBuffer
  <1>2. logger = "tail" /\ logger' = "status"
    BY DEF Logs!FlushTailBuffer
  <1>3. \/ ~state.truncated /\ log' = log /\ flushedLate' = flushedLate /\ lost' = lost
        \/ /\ state.truncated /\ log' = new /\ lost' = lost
           /\ flushedLate' = IF stream.pc = "read" THEN flushedLate \cup cut ELSE flushedLate
        \/ state.truncated /\ log' = log /\ flushedLate' = flushedLate /\ lost' = lost \cup cut
    BY DEF Logs!FlushTailBuffer, Logs!Truncation, Notice
  <1>a. Logs!TypeOK /\ LogSteps /\ LogOrder /\ LogWhole /\ RingFits /\ ChanFits /\ StreamOrder /\ StreamWhole
    BY DEF LogsInv
  <1>c. state.truncated => /\ new \in Seq(1..(MaxLines + 1)) /\ cut \subseteq 1..MaxLines /\ cut # {}
                           /\ \A i \in DOMAIN new : new[i] = Notice \/ (new[i] \in cut /\ new[i] <= state.seq)
                           /\ \A i, j \in DOMAIN new : i < j /\ new[i] # Notice /\ new[j] # Notice => new[i] < new[j]
    BY NoticeAndTail
  <1>n. MaxLines \in Nat /\ Notice = MaxLines + 1 /\ state.seq \in 0..MaxLines /\ state.flushed \in 0..MaxLines
    BY <1>a, LogNumbers
  <1>i. \A i \in DOMAIN log : log[i] \in 1..(MaxLines + 1)
    BY <1>a, LogIndices
  <1>d. state'.truncated => log' = new \/ lost' # {}
    BY <1>1, <1>3, <1>c
  <1>e. Logs!TailOfRing' = Logs!TailOfRing
    BY <1>1 DEF Logs!TailOfRing
  <1>g. Notice \notin Owed /\ Notice' = Notice
    BY <1>n DEF Owed, Notice
  <1>q. new = <<Notice>> \o Logs!TailOfRing
    OBVIOUS
  <1> HIDE DEF new, cut
  <1>4. /\ log' = log \/ (state.truncated /\ log' = new)
        /\ flushedLate \subseteq flushedLate' /\ flushedLate' \subseteq flushedLate \cup cut
        /\ lost \subseteq lost' /\ lost' \subseteq lost \cup cut
        /\ ~state.truncated => log' = log /\ flushedLate' = flushedLate /\ lost' = lost
        /\ log' = log \/ (stream.pc = "read" => cut \subseteq flushedLate')
    BY <1>3
  <1>5. Sent' = Sent /\ Taken' = Taken
    BY <1>1, <1>2 DEF Sent, Taken
  <1>6. Owed' \subseteq Owed
    BY <1>4 DEF Owed
  <1>7. Logs!TypeOK'
    <2>1. log' \in Seq(1..(MaxLines + 1))
      BY <1>a, <1>4, <1>c DEF Logs!TypeOK, Logs!Truncation
    <2>2. lost' \subseteq 1..MaxLines /\ flushedLate' \subseteq 1..MaxLines
      BY <1>a, <1>4, <1>3, <1>c DEF Logs!TypeOK
    <2> QED BY <1>a, <1>1, <1>2, <2>1, <2>2 DEF Logs!TypeOK, Logs!Truncation, Logs!Notify
  <1>8. LogSteps'
    BY <1>a, <1>1, <1>2 DEF LogSteps, Ended
  <1>b. \A i \in DOMAIN log : log[i] <= state.flushed
    BY <1>a, <1>2 DEF LogOrder
  <1>9. LogOrder'
    <2>1. /\ state.flushed <= Taken /\ Taken <= state.seq
          /\ \A i, j \in DOMAIN log : i < j /\ log[i] # Notice /\ log[j] # Notice => log[i] < log[j]
          /\ \A i \in DOMAIN log : log[i] # Notice => log[i] <= state.seq
          /\ \A i, j \in DOMAIN flush.chunk : i < j => flush.chunk[i] < flush.chunk[j]
          /\ \A i \in DOMAIN flush.chunk : state.flushed < flush.chunk[i] /\ flush.chunk[i] <= flush.upTo
          /\ \A i, j \in DOMAIN state.pending : i < j => state.pending[i] < state.pending[j]
          /\ \A i \in DOMAIN state.pending : Taken < state.pending[i] /\ state.pending[i] <= state.seq
      BY <1>a DEF LogOrder
    <2>2. \A i, j \in DOMAIN log' : i < j /\ log'[i] # Notice /\ log'[j] # Notice => log'[i] < log'[j]
      BY <1>4, <1>c, <2>1
    <2>3. \A i \in DOMAIN log' : log'[i] # Notice => log'[i] <= state.seq
      BY <1>4, <1>c, <2>1
    <2> QED BY <1>1, <1>2, <1>5, <1>g, <2>1, <2>2, <2>3 DEF LogOrder
  <1>10. LogWhole'
    BY <1>a, <1>1, <1>4, <1>5 DEF LogWhole
  <1>11. RingFits'
    BY <1>a, <1>1, <1>d, <1>e, <1>g, <1>q DEF RingFits
  <1>12. ChanFits'
    BY <1>a, <1>1, <1>5 DEF ChanFits
  <1>13. StreamOrder'
    <2>1. \A i, j \in DOMAIN stream.out : i < j /\ stream.out[i] \in Owed' /\ stream.out[j] \in Owed' =>
             stream.out[i] < stream.out[j]
      BY <1>a, <1>6 DEF StreamOrder
    <2>2. stream.pc = "read" /\ build = "running" => \A i \in DOMAIN log' : log'[i] \in Owed' => log'[i] <= stream.covered
      <3>1. CASE log' = log
        BY <1>a, <1>6, <3>1 DEF StreamOrder
      <3>2. CASE log' # log
        <4>1. stream.pc = "read" => cut \cap Owed' = {}
          BY <1>4, <3>2 DEF Owed
        <4>2. \A i \in DOMAIN log' : log'[i] = Notice \/ log'[i] \in cut
          BY <1>4, <3>2, <1>c
        <4> QED BY <4>1, <4>2, <1>g, <1>6
      <3> QED BY <3>1, <3>2
    <2>3. stream.pc = "live" => \A i \in DOMAIN stream.out : stream.out[i] \in Owed' =>
             /\ stream.out[i] <= stream.covered \/ stream.out[i] <= Sent
             /\ \A j \in DOMAIN chan.lines : stream.covered < chan.lines[j] => stream.out[i] < chan.lines[j]
      BY <1>a, <1>6 DEF StreamOrder
    <2> QED BY <1>1, <1>5, <2>1, <2>2, <2>3 DEF StreamOrder
  <1>14. StreamWhole'
    <2>1. lost' = {} => lost = {}
      BY <1>4
    <2> QED BY <1>a, <1>1, <1>5, <2>1 DEF StreamWhole, Has
  <1> QED BY <1>7, <1>8, <1>9, <1>10, <1>11, <1>12, <1>13, <1>14 DEF LogsInv

\* Who is where it flushes.
MayFlush(who) ==
  /\ who = "logger" => logger \in {"flush", "last flush"}
  /\ who = "ticker" => ticker = "flush"
  /\ who = "stream" => stream.pc = "flush"

\* Who flushes takes the buffer.
LEMMA TakeChunkKeeps ==
  ASSUME LogsInv, NEW who \in {"logger", "ticker", "stream"}, Logs!TakeChunk(who), MayFlush(who)
  PROVE  LogsInv'
  <1> DEFINE N == 0..MaxLines
  <1> DEFINE L == Seq(1..MaxLines)
  <1> DEFINE Z == 0..MaxLogSize
  <1> DEFINE F == [0..(TailLines - 1) -> 0..MaxLines]
  <1> DEFINE R == [on : BOOLEAN, seq : N, pending : L, flushed : N, size : Z, truncated : BOOLEAN, tail : F, tailIdx : N]
  <1> DEFINE H == [holder : {"none", "logger", "ticker", "stream"}, chunk : L, upTo : N]
  <1>1. UNCHANGED <<build, log, logger, ticker, stream, chan, lost, dropped, flushedLate>>
    BY DEF Logs!TakeChunk
  <1>2. flush.holder = "none" /\ state.on
    BY DEF Logs!TakeChunk, Logs!Logged
  <1>3. /\ flush' = [holder |-> who, chunk |-> state.pending, upTo |-> state.seq]
        /\ state' = [state EXCEPT !.pending = <<>>]
    BY DEF Logs!TakeChunk
  <1>a. Logs!TypeOK /\ LogSteps /\ LogOrder /\ LogWhole /\ RingFits /\ ChanFits /\ StreamOrder /\ StreamWhole
    BY DEF LogsInv
  <1>e. <<>> \in L
    OBVIOUS
  <1>u. state \in R /\ state.pending \in L /\ state.seq \in N
    BY <1>a DEF Logs!TypeOK
  <1>n. MaxLines \in Nat /\ state.seq \in 0..MaxLines /\ state.flushed \in 0..MaxLines /\ Taken \in 0..MaxLines
    BY <1>a, LogNumbers
  <1>s. Sent \in 0..MaxLines /\ Sent <= state.seq
    BY <1>a, SentIs
  <1>i. \A i \in DOMAIN state.pending : state.pending[i] \in 1..MaxLines
    BY <1>a, LogIndices
  <1>x. Len(<<>>) = 0 /\ \A i \in DOMAIN <<>> : FALSE
    OBVIOUS
  <1> HIDE DEF N, L, Z, F
  <1>4. /\ state' \in R /\ state'.on = state.on /\ state'.seq = state.seq /\ state'.pending = <<>>
        /\ state'.flushed = state.flushed /\ state'.truncated = state.truncated /\ state'.tail = state.tail
        /\ state'.tailIdx = state.tailIdx
    BY <1>3, <1>u, <1>e
  <1>5. flush' \in H /\ flush'.holder = who /\ flush'.chunk = state.pending /\ flush'.upTo = state.seq
    BY <1>3, <1>u, <1>e
  <1>6. Sent' = Sent /\ Owed' = Owed /\ Notice' = Notice /\ Logs!TailOfRing' = Logs!TailOfRing
    BY <1>1, <1>4 DEF Sent, Owed, Notice, Logs!TailOfRing
  <1>7. Taken = state.flushed /\ Taken' = state.seq
    BY <1>2, <1>5 DEF Taken
  <1>8. Logs!TypeOK'
    BY <1>a, <1>1, <1>4, <1>5 DEF Logs!TypeOK, Logs!Truncation, Logs!Notify, N, L, Z, F
  <1>9. LogSteps'
    BY <1>a, <1>1, <1>2, <1>4, <1>5 DEF LogSteps, Ended, MayFlush
  <1>10. LogOrder'
    <2>1. /\ \A i, j \in DOMAIN state.pending : i < j => state.pending[i] < state.pending[j]
          /\ \A i \in DOMAIN state.pending : state.flushed < state.pending[i] /\ state.pending[i] <= state.seq
          /\ state.flushed <= state.seq
      BY <1>a, <1>7 DEF LogOrder
    <2>3. state.seq <= state.seq
      BY <1>n
    <2>2. /\ \A i, j \in DOMAIN log : i < j /\ log[i] # Notice /\ log[j] # Notice => log[i] < log[j]
          /\ \A i \in DOMAIN log : log[i] # Notice => log[i] <= state.seq
          /\ logger \notin {"status", "close", "done"} => \A i \in DOMAIN log : log[i] <= state.flushed
      BY <1>a DEF LogOrder
    <2> QED BY <1>1, <1>4, <1>5, <1>6, <1>7, <1>x, <2>1, <2>2, <2>3 DEF LogOrder
  <1>11. LogWhole'
    <2>1. 0 = state.seq - state.seq
      BY <1>n
    <2>2. lost = {} /\ ~state.truncated =>
            /\ Len(log) = state.flushed /\ \A i \in DOMAIN log : log[i] = i
            /\ Len(state.pending) = state.seq - state.flushed
            /\ \A i \in DOMAIN state.pending : state.pending[i] = state.flushed + i
      BY <1>a, <1>7 DEF LogWhole
    <2> QED BY <1>1, <1>4, <1>5, <1>7, <1>x, <2>1, <2>2 DEF LogWhole
  <1>12. RingFits'
    BY <1>a, <1>1, <1>4, <1>6 DEF RingFits
  <1>13. ChanFits'
    BY <1>a, <1>1, <1>6 DEF ChanFits
  <1>14. StreamOrder'
    BY <1>a, <1>1, <1>6 DEF StreamOrder
  <1>15. StreamWhole'
    <2>1. \A x \in (state.seq + 1)..Sent : FALSE
      BY <1>n, <1>s
    <2> QED BY <1>a, <1>1, <1>4, <1>5, <1>6, <2>1 DEF StreamWhole, Has
  <1> QED BY <1>8, <1>9, <1>10, <1>11, <1>12, <1>13, <1>14, <1>15 DEF LogsInv

\* Where who flushes goes on.
LEMMA ReturnIs ==
  ASSUME Logs!TypeOK, NEW who \in {"logger", "ticker", "stream"}, NEW upTo \in 0..MaxLines, Logs!Return(who, upTo)
  PROVE  /\ logger' = IF who = "logger" THEN (IF logger = "flush" THEN "notify" ELSE "tail") ELSE logger
         /\ ticker' = IF who = "ticker" THEN "idle" ELSE ticker
         /\ stream' \in [pc : {"new", "flush", "read", "live", "end"}, covered : 0..MaxLines, out : Seq(1..(MaxLines + 1))]
         /\ stream'.out = stream.out
         /\ who = "stream" => stream'.pc = "read" /\ stream'.covered = upTo
         /\ who # "stream" => stream'.pc = stream.pc /\ stream'.covered = stream.covered
  <1> DEFINE V == Seq(1..(MaxLines + 1))
  <1>1. stream \in [pc : {"new", "flush", "read", "live", "end"}, covered : 0..MaxLines, out : V]
    BY DEF Logs!TypeOK, Logs!Truncation
  <1> HIDE DEF V
  <1>2. CASE who = "ticker"
    <2>1. ticker' = "idle" /\ logger' = logger /\ stream' = stream
      BY <1>2 DEF Logs!Return
    <2> QED BY <1>1, <1>2, <2>1 DEF V
  <1>3. CASE who = "stream"
    <2>1. ticker' = ticker /\ logger' = logger /\ stream' = [stream EXCEPT !.pc = "read", !.covered = upTo]
      BY <1>3 DEF Logs!Return
    <2>2. /\ stream' \in [pc : {"new", "flush", "read", "live", "end"}, covered : 0..MaxLines, out : V]
          /\ stream'.pc = "read" /\ stream'.covered = upTo /\ stream'.out = stream.out
      BY <1>1, <2>1
    <2> QED BY <1>3, <2>1, <2>2 DEF V
  <1>4. CASE who = "logger"
    <2>1. /\ ticker' = ticker /\ logger' = (IF logger = "flush" THEN "notify" ELSE "tail") /\ stream' = stream
      BY <1>4 DEF Logs!Return, Logs!Notify
    <2> QED BY <1>1, <1>4, <2>1 DEF V
  <1> QED BY <1>2, <1>3, <1>4

\* The chunk has been appended, or not.
LEMMA AppendChunkKeeps ==
  ASSUME LogsInv, NEW who \in {"logger", "ticker", "stream"}, Logs!AppendChunk(who)
  PROVE  LogsInv'
  <1> DEFINE N == 0..MaxLines
  <1> DEFINE S == 1..MaxLines
  <1> DEFINE M == 1..(MaxLines + 1)
  <1> DEFINE L == Seq(1..MaxLines)
  <1> DEFINE Z == 0..MaxLogSize
  <1> DEFINE F == [0..(TailLines - 1) -> 0..MaxLines]
  <1> DEFINE R == [on : BOOLEAN, seq : N, pending : L, flushed : N, size : Z, truncated : BOOLEAN, tail : F, tailIdx : N]
  <1> DEFINE H == [holder : {"none", "logger", "ticker", "stream"}, chunk : L, upTo : N]
  <1> DEFINE W == [pc : {"new", "flush", "read", "live", "end"}, covered : N, out : Seq(M)]
  <1> DEFINE c == flush.chunk
  <1> DEFINE joined == log \o c
  <1> DEFINE cut == Logs!ToSet(c)
  <1>1. UNCHANGED <<build, chan, dropped>>
    BY DEF Logs!AppendChunk
  <1>2. flush.holder = who /\ flush' = [holder |-> "none", chunk |-> <<>>, upTo |-> 0]
    BY DEF Logs!AppendChunk, Logs!Free
  <1>3. \/ /\ log' = joined /\ state' = [state EXCEPT !.flushed = flush.upTo]
           /\ flushedLate' = IF stream.pc = "read" THEN flushedLate \cup cut ELSE flushedLate
           /\ lost' = lost /\ Logs!Return(who, flush.upTo)
        \/ /\ c # <<>> /\ lost' = lost \cup cut
           /\ log' = log /\ state' = state /\ flushedLate' = flushedLate
           /\ Logs!Return(who, state.flushed)
    BY DEF Logs!AppendChunk
  <1>a. Logs!TypeOK /\ LogSteps /\ LogOrder /\ LogWhole /\ RingFits /\ ChanFits /\ StreamOrder /\ StreamWhole
    BY DEF LogsInv
  <1>n. /\ MaxLines \in Nat /\ state.seq \in N /\ state.flushed \in N /\ Taken \in N /\ flush.upTo \in N
        /\ stream.covered \in N /\ Notice = MaxLines + 1
    BY <1>a, LogNumbers
  <1>s. Sent \in N /\ Sent <= state.seq
    BY <1>a, SentIs
  <1>i. /\ Len(log) \in Nat /\ DOMAIN log = 1..Len(log) /\ Len(c) \in Nat /\ DOMAIN c = 1..Len(c)
        /\ \A i \in DOMAIN log : log[i] \in M
        /\ \A i \in DOMAIN c : c[i] \in S
        /\ \A i \in DOMAIN state.pending : state.pending[i] \in S
    BY <1>a, LogIndices
  <1>u. state \in R /\ log \in Seq(M) /\ c \in Seq(M) /\ c \in Seq(S)
    <2>1. state \in R /\ log \in Seq(M) /\ c \in Seq(S)
      BY <1>a DEF Logs!TypeOK, Logs!Truncation
    <2>2. c \in Seq(M)
      <3>1. S \subseteq M
        BY <1>n
      <3> HIDE DEF c, S, M
      <3> QED BY <2>1, <3>1
    <2> QED BY <2>1, <2>2
  <1>e. <<>> \in L
    OBVIOUS
  <1>x. c = <<>> <=> Len(c) = 0
    BY <1>u
  <1>j. /\ joined \in Seq(M) /\ Len(joined) = Len(log) + Len(c) /\ DOMAIN joined = 1..(Len(log) + Len(c))
        /\ \A i \in 1..Len(log) : joined[i] = log[i]
        /\ \A i \in 1..(Len(log) + Len(c)) : i > Len(log) => i - Len(log) \in 1..Len(c) /\ joined[i] = c[i - Len(log)]
    <2> HIDE DEF c, M
    <2> QED BY <1>u, LinesJoined
  <1>q. \A i \in DOMAIN joined : \/ i \in DOMAIN log /\ joined[i] = log[i]
                                 \/ i - Len(log) \in DOMAIN c /\ joined[i] = c[i - Len(log)] /\ i > Len(log)
    BY <1>j, <1>i
  <1>c. cut \subseteq S /\ (\A i \in DOMAIN c : c[i] \in cut) /\ (c # <<>> => cut # {})
    <2>1. \A i \in DOMAIN c : c[i] \in cut
      BY DEF Logs!ToSet
    <2>2. cut \subseteq S
      BY <1>i DEF Logs!ToSet
    <2>3. c # <<>> => 1 \in DOMAIN c
      BY <1>i, <1>x
    <2> QED BY <2>1, <2>2, <2>3
  <1>f. /\ c = flush.chunk
        /\ \A i, j \in DOMAIN c : i < j => c[i] < c[j]
        /\ \A i \in DOMAIN c : state.flushed < c[i] /\ c[i] <= flush.upTo
        /\ Taken = flush.upTo /\ state.flushed <= flush.upTo /\ flush.upTo <= state.seq
        /\ \A i, j \in DOMAIN state.pending : i < j => state.pending[i] < state.pending[j]
        /\ \A i \in DOMAIN state.pending : flush.upTo < state.pending[i] /\ state.pending[i] <= state.seq
        /\ \A i, j \in DOMAIN log : i < j /\ log[i] # Notice /\ log[j] # Notice => log[i] < log[j]
        /\ \A i \in DOMAIN log : log[i] # Notice => log[i] <= state.seq
        /\ logger \notin {"status", "close", "done"} => \A i \in DOMAIN log : log[i] <= state.flushed
    <2>1. Taken = flush.upTo
      BY <1>2 DEF Taken
    <2> QED BY <1>a, <2>1 DEF LogOrder
  <1>d. /\ who = "logger" => logger \in {"flush", "last flush"} /\ state.pending = <<>> /\ flush.upTo = state.seq
        /\ who = "ticker" => ticker = "flush"
        /\ who = "stream" => stream.pc = "flush"
        /\ logger \in Ended => c = <<>> /\ flush.upTo = state.seq
    BY <1>a, <1>2 DEF LogSteps
  <1>4. /\ flush' \in H /\ flush'.holder = "none" /\ flush'.chunk = <<>>
    <2> HIDE DEF L
    <2>1. 0 \in N
      BY <1>n
    <2> HIDE DEF N
    <2> QED BY <1>2, <1>e, <2>1
  <1>y. PICK upTo \in N :
          /\ Logs!Return(who, upTo)
          /\ \/ /\ upTo = flush.upTo /\ log' = joined /\ lost' = lost /\ state' = [state EXCEPT !.flushed = upTo]
                /\ flushedLate' = IF stream.pc = "read" THEN flushedLate \cup cut ELSE flushedLate
             \/ /\ upTo = state.flushed /\ c # <<>> /\ lost' = lost \cup cut
                /\ log' = log /\ state' = state /\ flushedLate' = flushedLate
    BY <1>3, <1>n
  <1>r. /\ logger' = IF who = "logger" THEN (IF logger = "flush" THEN "notify" ELSE "tail") ELSE logger
        /\ ticker' = IF who = "ticker" THEN "idle" ELSE ticker
        /\ stream' \in W /\ stream'.out = stream.out
        /\ who = "stream" => stream'.pc = "read" /\ stream'.covered = upTo
        /\ who # "stream" => stream'.pc = stream.pc /\ stream'.covered = stream.covered
    BY <1>a, <1>y, ReturnIs
  <1> HIDE DEF N, S, M, L, Z, F, c, joined, cut
  <1>5. \/ /\ upTo = flush.upTo /\ log' = joined /\ lost' = lost /\ state'.flushed = upTo
           /\ stream.pc = "read" => cut \subseteq flushedLate'
        \/ /\ upTo = state.flushed /\ c # <<>> /\ lost' # {} /\ log' = log /\ state'.flushed = upTo
    BY <1>y, <1>u, <1>c
  <1>6. /\ flushedLate \subseteq flushedLate' /\ flushedLate' \subseteq flushedLate \cup cut
        /\ lost \subseteq lost' /\ lost' \subseteq lost \cup cut
    BY <1>y
  <1>7. /\ state' \in R /\ state'.on = state.on /\ state'.seq = state.seq /\ state'.pending = state.pending
        /\ state'.truncated = state.truncated /\ state'.tail = state.tail
        /\ state'.tailIdx = state.tailIdx
    BY <1>y, <1>u
  <1>8. logger' \in {"status", "close", "done"} => logger' = logger
    BY <1>r
  <1>9. Sent' = Sent
    BY <1>r, <1>d, <1>7 DEF Sent
  <1>10. Owed' \subseteq Owed /\ Notice' = Notice /\ Logs!TailOfRing' = Logs!TailOfRing
    BY <1>6, <1>7 DEF Owed, Notice, Logs!TailOfRing
  <1>11. Taken' = upTo
    BY <1>4, <1>5 DEF Taken
  <1>12. Logs!TypeOK'
    <2>1. log' \in Seq(M)
      BY <1>5, <1>u, <1>j
    <2>2. lost' \subseteq S /\ flushedLate' \subseteq S
      BY <1>a, <1>6, <1>c DEF Logs!TypeOK, S
    <2>3. ticker' \in {"idle", "flush"} /\ logger' \in {"idle", "flush", "notify", "last flush", "tail", "status", "close", "done"}
      BY <1>a, <1>r DEF Logs!TypeOK, Logs!Notify
    <2> QED BY <1>a, <1>1, <1>4, <1>7, <1>r, <2>1, <2>2, <2>3 DEF Logs!TypeOK, Logs!Truncation, Logs!Notify, N, S, M, L, Z, F
  <1>13. LogSteps'
    <2>1. /\ build = "over" <=> logger \in {"close", "done"}
          /\ state.on <=> logger # "done"
          /\ logger \in {"flush", "notify"} => state.seq > 0
          /\ logger \in Ended => state.pending = <<>>
          /\ stream.pc \in {"new", "flush", "read"} => stream.out = <<>>
          /\ stream.pc \in {"flush", "read", "live"} /\ logger # "done" => chan.on
          /\ chan.closed => logger = "done"
          /\ stream.pc = "end" => build = "over"
      BY <1>a DEF LogSteps
    <2>2. /\ build = "over" <=> logger' \in {"close", "done"}
          /\ state.on <=> logger' # "done"
          /\ logger' \in {"flush", "notify"} => state.seq > 0
          /\ logger' \in Ended => state.pending = <<>>
          /\ logger' = "done" <=> logger = "done"
      BY <2>1, <1>r, <1>d DEF Ended
    <2>3. /\ stream'.pc \in {"new", "flush", "read"} => stream.out = <<>>
          /\ stream'.pc \in {"flush", "read", "live"} /\ logger # "done" => chan.on
          /\ stream'.pc = "end" => build = "over"
      BY <2>1, <1>r, <1>d
    <2> QED BY <1>1, <1>4, <1>7, <1>r, <2>1, <2>2, <2>3 DEF LogSteps, Ended
  <1>l. logger \in {"status", "close", "done"} => c = <<>> /\ flush.upTo = state.seq
    BY <1>d DEF Ended
  <1>z. c = <<>> => \A i \in DOMAIN joined : i \in DOMAIN log /\ joined[i] = log[i]
    BY <1>x, <1>j, <1>i
  <1>14. LogOrder'
    <2>1. \A i \in DOMAIN joined : joined[i] # Notice => joined[i] <= state.seq
      <3>1. \A i \in DOMAIN c : c[i] <= state.seq
        BY <1>f, <1>i, <1>n DEF S, N
      <3> QED BY <3>1, <1>f, <1>q
    <2>2. \A i, j \in DOMAIN joined : i < j /\ joined[i] # Notice /\ joined[j] # Notice => joined[i] < joined[j]
      <3>1. CASE c = <<>>
        BY <3>1, <1>z, <1>f
      <3>2. CASE c # <<>>
        <4>1. \A i \in DOMAIN log : log[i] <= state.flushed
          BY <3>2, <1>l, <1>f
        <4>2. \A i \in DOMAIN log : \A j \in DOMAIN c : log[i] < c[j]
          BY <4>1, <1>f, <1>i, <1>n DEF M, S, N
        <4> SUFFICES ASSUME NEW i \in DOMAIN joined, NEW j \in DOMAIN joined, i < j, joined[i] # Notice, joined[j] # Notice
                     PROVE  joined[i] < joined[j]
          OBVIOUS
        <4>4. i \in Nat /\ j \in Nat
          BY <1>j, <1>i
        <4>5. CASE i \in DOMAIN log /\ j \in DOMAIN log
          BY <4>5, <1>f, <1>q, <1>i
        <4>6. CASE i \in DOMAIN log /\ j \notin DOMAIN log
          BY <4>6, <4>2, <1>q, <1>i
        <4>7. CASE i \notin DOMAIN log
          <5>1. j \notin DOMAIN log
            BY <4>4, <4>7, <1>j, <1>i
          <5>2. i - Len(log) < j - Len(log)
            BY <4>4, <1>i
          <5> QED BY <4>7, <5>1, <5>2, <1>f, <1>q
        <4> QED BY <4>5, <4>6, <4>7
      <3> QED BY <3>1, <3>2
    <2>3. logger' \notin {"status", "close", "done"} => \A i \in DOMAIN joined : joined[i] <= flush.upTo
      <3>1. logger' \notin {"status", "close", "done"} => logger \notin {"status", "close", "done"}
        BY <1>r, <1>d
      <3>2. logger \notin {"status", "close", "done"} => \A i \in DOMAIN log : log[i] <= flush.upTo
        BY <1>f, <1>i, <1>n DEF M, N
      <3> QED BY <3>1, <3>2, <1>f, <1>q
    <2>4. logger' \notin {"status", "close", "done"} => \A i \in DOMAIN log : log[i] <= state.flushed
      BY <1>f, <1>r, <1>d
    <2>5. upTo <= upTo /\ upTo <= state.seq /\ upTo <= flush.upTo
      BY <1>5, <1>f, <1>n DEF N
    <2>6. \A i \in DOMAIN state.pending : upTo < state.pending[i] /\ state.pending[i] <= state.seq
      BY <1>f, <1>i, <1>n, <2>5 DEF S, N
    <2>7. state'.flushed = upTo
      BY <1>5
    <2>8. /\ \A i, j \in DOMAIN log' : i < j /\ log'[i] # Notice /\ log'[j] # Notice => log'[i] < log'[j]
          /\ \A i \in DOMAIN log' : log'[i] # Notice => log'[i] <= state.seq
          /\ logger' \notin {"status", "close", "done"} => \A i \in DOMAIN log' : log'[i] <= upTo
      BY <1>5, <1>f, <2>1, <2>2, <2>3, <2>4
    <2>9. \A i \in DOMAIN <<>> : FALSE
      OBVIOUS
    <2> QED BY <1>4, <1>7, <1>10, <1>11, <1>f, <2>5, <2>6, <2>7, <2>8, <2>9 DEF LogOrder
  <1>15. LogWhole'
    <2> SUFFICES ASSUME lost' = {}, ~state'.truncated
                 PROVE  LogWhole'
      BY DEF LogWhole
    <2>1. /\ lost = {} /\ ~state.truncated /\ log' = joined /\ upTo = flush.upTo /\ state'.flushed = upTo
      BY <1>5, <1>6, <1>7
    <2>2. /\ Len(log) = state.flushed /\ \A i \in DOMAIN log : log[i] = i
          /\ Len(c) = flush.upTo - state.flushed /\ \A i \in DOMAIN c : c[i] = state.flushed + i
          /\ Len(state.pending) = state.seq - flush.upTo
          /\ \A i \in DOMAIN state.pending : state.pending[i] = flush.upTo + i
      <3>1. flush.holder # "none"
        BY <1>2
      <3> QED BY <1>a, <1>f, <2>1, <3>1 DEF LogWhole
    <2>3. Len(joined) = flush.upTo
      BY <2>2, <1>j, <1>n DEF N
    <2>4. \A i \in DOMAIN joined : joined[i] = i
      <3>1. \A i \in DOMAIN joined : i \in Nat
        BY <1>j, <1>i
      <3>2. \A i \in Nat : state.flushed + (i - Len(log)) = i
        BY <2>2, <1>n DEF N
      <3> QED BY <2>2, <3>1, <3>2, <1>q
    <2> QED BY <1>4, <1>7, <1>11, <2>1, <2>2, <2>3, <2>4 DEF LogWhole
  <1>16. RingFits'
    <2>1. /\ state.tailIdx <= state.seq
          /\ state.truncated <=> state.tailIdx # 0
          /\ \A j \in 0..(state.tailIdx - 1) : state.tailIdx - TailLines <= j =>
               state.tail[j % TailLines] = state.seq - state.tailIdx + j + 1
          /\ state.truncated /\ lost = {} /\ logger \in {"status", "close", "done"} =>
               log = <<Notice>> \o Logs!TailOfRing
      BY <1>a DEF RingFits
    <2>2. lost' = {} /\ logger' \in {"status", "close", "done"} => log' = log /\ lost = {} /\ logger = logger'
      <3>1. c = <<>> => joined = log
        BY <1>u DEF joined
      <3> QED BY <3>1, <1>5, <1>6, <1>8, <1>l
    <2> QED BY <1>7, <1>10, <2>1, <2>2 DEF RingFits
  <1>17. ChanFits'
    BY <1>a, <1>1, <1>9 DEF ChanFits
  <1>18. StreamOrder'
    <2>1. /\ \A i, j \in DOMAIN stream.out : i < j /\ stream.out[i] \in Owed /\ stream.out[j] \in Owed =>
               stream.out[i] < stream.out[j]
          /\ stream.pc = "read" /\ build = "running" => \A i \in DOMAIN log : log[i] \in Owed => log[i] <= stream.covered
          /\ stream.pc = "live" => \A i \in DOMAIN stream.out : stream.out[i] \in Owed =>
               /\ stream.out[i] <= stream.covered \/ stream.out[i] <= Sent
               /\ \A j \in DOMAIN chan.lines : stream.covered < chan.lines[j] => stream.out[i] < chan.lines[j]
      BY <1>a DEF StreamOrder
    <2>2. stream'.pc = "live" => stream.pc = "live" /\ stream'.covered = stream.covered
      BY <1>r
    <2>3. stream'.pc = "read" /\ build = "running" => \A i \in DOMAIN log' : log'[i] \in Owed' => log'[i] <= stream'.covered
      <3>1. CASE who = "stream"
        <4>1. log' = joined /\ upTo = flush.upTo => \A i \in DOMAIN joined : joined[i] \in Owed => joined[i] <= upTo
          <5>1. Notice \notin Owed
            BY <1>n DEF Owed
          <5>2. logger \in {"status", "close", "done"} => \A i \in DOMAIN log : log[i] # Notice => log[i] <= flush.upTo
            BY <1>f, <1>l
          <5>3. logger \notin {"status", "close", "done"} => \A i \in DOMAIN log : log[i] <= flush.upTo
            BY <1>f, <1>i, <1>n DEF M, N
          <5>4. \A i \in DOMAIN c : c[i] <= flush.upTo
            BY <1>f
          <5> QED BY <5>1, <5>2, <5>3, <5>4, <1>q
        <4>2. log' = log /\ c # <<>> /\ upTo = state.flushed => \A i \in DOMAIN log : log[i] <= upTo
          BY <1>f, <1>l
        <4> QED BY <3>1, <4>1, <4>2, <1>5, <1>r, <1>10
      <3>2. CASE who # "stream"
        <4>1. stream'.pc = "read" => stream.pc = "read" /\ stream'.covered = stream.covered
          BY <3>2, <1>r
        <4>2. log' = joined /\ stream.pc = "read" => cut \cap Owed' = {}
          <5>1. log' = joined /\ stream.pc = "read" => cut \subseteq flushedLate'
            <6>1. log = joined => c = <<>>
              <7>1. log = joined => Len(c) = 0
                BY <1>j, <1>i
              <7> QED BY <7>1, <1>x
            <6> QED BY <6>1, <1>5
          <5> QED BY <5>1 DEF Owed
        <4>3. log' = joined /\ stream'.pc = "read" /\ build = "running" =>
                \A i \in DOMAIN joined : joined[i] \in Owed' => joined[i] <= stream.covered
          BY <2>1, <4>1, <4>2, <1>q, <1>c, <1>10
        <4>4. stream'.pc = "read" /\ build = "running" =>
                \A i \in DOMAIN log : log[i] \in Owed' => log[i] <= stream.covered
          BY <2>1, <4>1, <1>10
        <4> QED BY <4>1, <4>3, <4>4, <1>5
      <3> QED BY <3>1, <3>2
    <2> QED BY <1>1, <1>9, <1>10, <1>r, <2>1, <2>2, <2>3 DEF StreamOrder
  <1>19. StreamWhole'
    <2> SUFFICES ASSUME lost' = {}, dropped' = {}, ~state'.truncated
                 PROVE  StreamWhole'
      BY DEF StreamWhole
    <2>1. /\ lost = {} /\ dropped = {} /\ ~state.truncated /\ upTo = flush.upTo /\ state'.flushed = upTo
      BY <1>1, <1>5, <1>6, <1>7
    <2>2. /\ flush.holder = "stream" => \A line \in (flush.upTo + 1)..Sent : Has(chan.lines, line)
          /\ stream.pc = "read" /\ build = "running" => /\ stream.covered <= state.flushed
                                                /\ \A line \in (stream.covered + 1)..Sent : Has(chan.lines, line)
          /\ stream.pc = "live" => /\ \A line \in 1..stream.covered : Has(stream.out, line)
                           /\ \A line \in 1..Sent : Has(stream.out, line) \/ Has(chan.lines, line)
          /\ stream.pc = "end" => \A line \in 1..state.seq : Has(stream.out, line)
      BY <1>a, <2>1 DEF StreamWhole
    <2>3. stream'.pc = "read" /\ build = "running" => /\ stream'.covered <= state'.flushed
                                                /\ \A line \in (stream'.covered + 1)..Sent : Has(chan.lines, line)
      <3>1. CASE who = "stream"
        <4>1. upTo <= upTo
          BY <1>n, <2>1 DEF N
        <4> QED BY <3>1, <4>1, <2>1, <2>2, <1>2, <1>r
      <3>2. CASE who # "stream"
        <4>1. stream.covered <= state.flushed => stream.covered <= upTo
          BY <2>1, <1>f, <1>n DEF N
        <4> QED BY <3>2, <4>1, <2>1, <2>2, <1>r
      <3> QED BY <3>1, <3>2
    <2>5. /\ stream'.pc = "live" => stream.pc = "live" /\ stream'.covered = stream.covered
          /\ stream'.pc = "end" => stream.pc = "end"
      BY <1>r
    <2> QED BY <1>1, <1>4, <1>7, <1>9, <1>r, <2>2, <2>3, <2>5 DEF StreamWhole, Has
  <1> QED BY <1>12, <1>13, <1>14, <1>15, <1>16, <1>17, <1>18, <1>19 DEF LogsInv

\* There is nothing to flush.
LEMMA SkipFlushKeeps ==
  ASSUME LogsInv, NEW who \in {"logger", "ticker", "stream"}, Logs!SkipFlush(who), MayFlush(who)
  PROVE  LogsInv'
  <1>1. UNCHANGED <<build, log, state, flush, chan, lost, dropped, flushedLate>>
    BY DEF Logs!SkipFlush
  <1>a. Logs!TypeOK /\ LogSteps /\ LogOrder /\ LogWhole /\ RingFits /\ ChanFits /\ StreamOrder /\ StreamWhole
    BY DEF LogsInv
  <1>2. flush.holder = "none" /\ logger = "done" /\ build = "over"
    BY <1>a DEF Logs!SkipFlush, Logs!Logged, LogSteps
  <1>3. who # "logger" /\ (who = "ticker" => ticker = "flush") /\ (who = "stream" => stream.pc = "flush")
    BY <1>2 DEF MayFlush
  <1>n. 0 \in 0..MaxLines
    BY <1>a, LogNumbers
  <1>4. Logs!Return(who, 0)
    BY DEF Logs!SkipFlush
  <1>5. /\ logger' = logger /\ ticker' = IF who = "ticker" THEN "idle" ELSE ticker
        /\ stream' \in [pc : {"new", "flush", "read", "live", "end"}, covered : 0..MaxLines, out : Seq(1..(MaxLines + 1))]
        /\ stream'.out = stream.out
        /\ who = "stream" => stream'.pc = "read" /\ stream'.covered = 0
        /\ who # "stream" => stream'.pc = stream.pc /\ stream'.covered = stream.covered
    BY <1>a, <1>3, <1>4, <1>n, ReturnIs
  <1>6. Sent' = Sent /\ Taken' = Taken /\ Owed' = Owed /\ Notice' = Notice /\ Logs!TailOfRing' = Logs!TailOfRing
    BY <1>1, <1>5 DEF Sent, Taken, Owed, Notice, Logs!TailOfRing
  <1>7. Logs!TypeOK'
    <2> DEFINE R == [on : BOOLEAN, seq : 0..MaxLines, pending : Seq(1..MaxLines), flushed : 0..MaxLines,
                size : 0..MaxLogSize, truncated : BOOLEAN,
                tail : [0..(TailLines - 1) -> 0..MaxLines], tailIdx : 0..MaxLines]
    <2> DEFINE H == [holder : {"none", "logger", "ticker", "stream"}, chunk : Seq(1..MaxLines), upTo : 0..MaxLines]
    <2> DEFINE C == [on : BOOLEAN, lines : Seq(1..MaxLines), closed : BOOLEAN]
    <2>1. /\ state \in R /\ flush \in H /\ chan \in C /\ log \in Seq(1..(MaxLines + 1))
          /\ build \in {"running", "over"} /\ ticker \in {"idle", "flush"} /\ Len(chan.lines) <= Buffer
          /\ lost \subseteq 1..MaxLines /\ dropped \subseteq 1..MaxLines /\ flushedLate \subseteq 1..MaxLines
      BY <1>a DEF Logs!TypeOK, Logs!Truncation
    <2> HIDE DEF R, H, C
    <2>2. /\ state' \in R /\ flush' \in H /\ chan' \in C /\ log' \in Seq(1..(MaxLines + 1))
          /\ build' \in {"running", "over"} /\ Len(chan'.lines) <= Buffer
          /\ lost' \subseteq 1..MaxLines /\ dropped' \subseteq 1..MaxLines /\ flushedLate' \subseteq 1..MaxLines
      BY <1>1, <2>1
    <2>3. ticker' \in {"idle", "flush"} /\ logger' = "done"
      BY <1>2, <1>5, <2>1
    <2> QED BY <1>5, <2>2, <2>3 DEF Logs!TypeOK, Logs!Truncation, Logs!Notify, R, H, C
  <1>8. LogSteps'
    BY <1>a, <1>1, <1>2, <1>3, <1>5 DEF LogSteps, Ended
  <1>9. LogOrder'
    BY <1>a, <1>1, <1>5, <1>6 DEF LogOrder
  <1>10. LogWhole'
    BY <1>a, <1>1, <1>6 DEF LogWhole
  <1>11. RingFits'
    BY <1>a, <1>1, <1>5, <1>6 DEF RingFits
  <1>12. ChanFits'
    BY <1>a, <1>1, <1>6 DEF ChanFits
  <1>13. StreamOrder'
    BY <1>a, <1>1, <1>2, <1>3, <1>5, <1>6 DEF StreamOrder
  <1>14. StreamWhole'
    BY <1>a, <1>1, <1>2, <1>3, <1>5, <1>6 DEF StreamWhole, Has
  <1> QED BY <1>7, <1>8, <1>9, <1>10, <1>11, <1>12, <1>13, <1>14 DEF LogsInv

\* The log starts empty.
LEMMA LogsStart ==
  ASSUME Logs!Init
  PROVE  LogsInv
  <1> DEFINE tail == [i \in 0..(TailLines - 1) |-> 0]
  <1>1. /\ MaxLines \in Nat /\ MaxLogSize \in Nat /\ TailLines \in Nat \ {0} /\ Buffer \in Nat
    BY ServerAssumption DEF Logs!BuildLogsAssumption
  <1>2. /\ build = "running" /\ log = <<>> /\ logger = "idle" /\ ticker = "idle"
        /\ state = [on |-> TRUE, seq |-> 0, pending |-> <<>>, flushed |-> 0, size |-> 0,
                    truncated |-> FALSE, tail |-> tail, tailIdx |-> 0]
        /\ flush = [holder |-> "none", chunk |-> <<>>, upTo |-> 0]
        /\ stream = [pc |-> "new", covered |-> 0, out |-> <<>>]
        /\ chan = [on |-> FALSE, lines |-> <<>>, closed |-> FALSE]
        /\ lost = {} /\ dropped = {} /\ flushedLate = {}
    BY DEF Logs!Init, Logs!Free
  <1>3. Len(<<>>) = 0 /\ (\A i \in DOMAIN <<>> : FALSE) /\ 0 <= Buffer
    BY <1>1
  <1>4. <<>> \in Seq(1..MaxLines) /\ <<>> \in Seq(1..(MaxLines + 1))
    OBVIOUS
  <1>5. tail \in [0..(TailLines - 1) -> 0..MaxLines] /\ 0 \in 0..MaxLines /\ 0 \in 0..MaxLogSize
    BY <1>1
  <1> HIDE DEF tail
  <1>6. /\ state.on /\ state.seq = 0 /\ state.pending = <<>> /\ state.flushed = 0 /\ ~state.truncated
        /\ state.tailIdx = 0 /\ flush.holder = "none" /\ flush.chunk = <<>> /\ stream.pc = "new"
        /\ stream.out = <<>> /\ chan.lines = <<>> /\ ~chan.closed
    BY <1>2
  <1>7. Logs!TypeOK
    BY <1>2, <1>3, <1>4, <1>5 DEF Logs!TypeOK, Logs!Truncation, Logs!Notify
  <1>8. Sent = 0 /\ Taken = 0
    BY <1>2, <1>6 DEF Sent, Taken
  <1>9. LogSteps
    BY <1>2, <1>6 DEF LogSteps, Ended
  <1>10. LogOrder
    BY <1>2, <1>3, <1>6, <1>8 DEF LogOrder
  <1>11. LogWhole
    BY <1>2, <1>3, <1>6, <1>8 DEF LogWhole
  <1>12. RingFits
    <2>1. \A j \in 0..(0 - 1) : FALSE
      OBVIOUS
    <2> QED BY <1>2, <1>6, <2>1 DEF RingFits
  <1>13. ChanFits /\ StreamOrder
    BY <1>2, <1>3, <1>6 DEF ChanFits, StreamOrder
  <1>14. StreamWhole
    BY <1>2, <1>6 DEF StreamWhole
  <1> QED BY <1>7, <1>9, <1>10, <1>11, <1>12, <1>13, <1>14 DEF LogsInv

\* A step keeps the invariant.
LEMMA LogsStep ==
  ASSUME LogsInv, Logs!Next
  PROVE  LogsInv'
  <1>1. CASE Logs!FlushFull \/ Logs!FlushLast
    <2>1. Logs!Flush("logger") /\ MayFlush("logger")
      BY <1>1 DEF Logs!FlushFull, Logs!FlushLast, MayFlush
    <2> QED BY <2>1, TakeChunkKeeps, AppendChunkKeeps, SkipFlushKeeps DEF Logs!Flush
  <1>2. CASE Logs!FlushTick
    <2>1. Logs!Flush("ticker") /\ MayFlush("ticker")
      BY <1>2 DEF Logs!FlushTick, MayFlush
    <2> QED BY <2>1, TakeChunkKeeps, AppendChunkKeeps, SkipFlushKeeps DEF Logs!Flush
  <1>3. CASE Logs!FlushForStream
    <2>1. Logs!Flush("stream") /\ MayFlush("stream")
      BY <1>3 DEF Logs!FlushForStream, MayFlush
    <2> QED BY <2>1, TakeChunkKeeps, AppendChunkKeeps, SkipFlushKeeps DEF Logs!Flush
  <1> QED BY <1>1, <1>2, <1>3, AppendLogKeeps, NotifyLogSubsKeeps, GoroutinesMove, FlushTailBufferKeeps,
             CloseLogSubsKeeps, SubscribeLogsKeeps, ReadBuildKeeps, CopyLineKeeps, EndStreamKeeps DEF Logs!Next

\* The last values of a sequence.
LEMMA LastOf ==
  ASSUME NEW q \in Seq(Nat), NEW n \in Nat, n <= Len(q), NEW from \in Nat, from = Len(q) + 1 - n
  PROVE  /\ SubSeq(q, from, Len(q)) \in Seq(Nat) /\ Len(SubSeq(q, from, Len(q))) = n
         /\ DOMAIN SubSeq(q, from, Len(q)) = 1..n
         /\ \A i \in 1..n : SubSeq(q, from, Len(q))[i] = q[Len(q) - n + i]
  <1>1. Len(q) \in Nat /\ from >= 1 /\ from <= Len(q) + 1
    OBVIOUS
  <1>2. SubSeq(q, from, Len(q)) = [i \in 1..(1 + Len(q) - from) |-> q[i + from - 1]]
    BY <1>1
  <1>3. 1 + Len(q) - from = n
    BY <1>1
  <1>4. \A i \in 1..n : i + from - 1 = Len(q) - n + i /\ i + from - 1 \in 1..Len(q)
    BY <1>1
  <1>5. SubSeq(q, from, Len(q)) = [i \in 1..n |-> q[Len(q) - n + i]]
    BY <1>2, <1>3, <1>4
  <1>6. \A i \in 1..n : q[Len(q) - n + i] \in Nat
    BY <1>1, <1>4
  <1> QED BY <1>5, <1>6

\* What the invariant says of a build that is over, and of a stream.
LEMMA LogsInvSays ==
  ASSUME LogsInv
  PROVE  Logs!LogsComplete
  <1>a. Logs!TypeOK /\ LogSteps /\ LogOrder /\ LogWhole /\ RingFits /\ ChanFits /\ StreamOrder /\ StreamWhole
    BY DEF LogsInv
  <1>n. /\ MaxLines \in Nat /\ state.seq \in 0..MaxLines /\ state.flushed \in 0..MaxLines /\ Taken \in 0..MaxLines
        /\ flush.upTo \in 0..MaxLines /\ Notice = MaxLines + 1
    BY <1>a, LogNumbers
  <1>i. /\ Len(log) \in Nat /\ DOMAIN log = 1..Len(log) /\ Len(flush.chunk) \in Nat /\ Len(state.pending) \in Nat
        /\ \A i \in DOMAIN stream.out : stream.out[i] \in 1..(MaxLines + 1)
    BY <1>a, LogIndices
  <1>t. Logs!Truncation = Notice
    BY DEF Logs!Truncation, Notice
  <1>1. ASSUME build = "over", state.truncated, lost = {}
        PROVE  log = <<Logs!Truncation>> \o SubSeq(Logs!UpTo(state.seq), state.seq + 1 - Len(Logs!TailOfRing), state.seq)
    <2>1. log = <<Notice>> \o Logs!TailOfRing
      BY <1>a, <1>1 DEF LogSteps, RingFits
    <2>2. PICK count \in Nat : count <= state.seq /\ Logs!TailOfRing = [i \in 1..count |-> state.seq - count + i]
      BY TailIs
    <2> DEFINE tail == Logs!TailOfRing
    <2> DEFINE all == Logs!UpTo(state.seq)
    <2>3. Len(tail) = count /\ tail \in Seq(Nat) /\ DOMAIN tail = 1..count
      BY <2>2, <1>n
    <2>4. all = [i \in 1..state.seq |-> i] /\ all \in Seq(Nat) /\ Len(all) = state.seq
      BY <1>n DEF Logs!UpTo
    <2> HIDE DEF tail, all
    <2> DEFINE last == SubSeq(all, state.seq + 1 - count, state.seq)
    <2>5. /\ last \in Seq(Nat) /\ Len(last) = count /\ DOMAIN last = 1..count
          /\ \A i \in 1..count : last[i] = all[state.seq - count + i]
      <3> DEFINE from == state.seq + 1 - count
      <3>1. from \in Nat /\ from = Len(all) + 1 - count /\ count <= Len(all) /\ all \in Seq(Nat)
        BY <2>2, <2>4, <1>n
      <3>2. last = SubSeq(all, from, Len(all))
        BY <2>4
      <3> HIDE DEF from, last
      <3>3. /\ SubSeq(all, from, Len(all)) \in Seq(Nat) /\ Len(SubSeq(all, from, Len(all))) = count
            /\ DOMAIN SubSeq(all, from, Len(all)) = 1..count
            /\ \A i \in 1..count : SubSeq(all, from, Len(all))[i] = all[Len(all) - count + i]
        BY <3>1, LastOf
      <3> QED BY <2>4, <3>2, <3>3
    <2> HIDE DEF last
    <2>7. \A i \in 1..count : tail[i] = state.seq - count + i /\ state.seq - count + i \in 1..state.seq
      BY <2>2, <1>n DEF tail
    <2>8. \A i \in 1..count : last[i] = state.seq - count + i
      BY <2>4, <2>5, <2>7
    <2>9. last = tail
      BY <2>3, <2>5, <2>7, <2>8
    <2> QED BY <1>t, <2>1, <2>3, <2>9 DEF last, tail, all
  <1>2. ASSUME build = "over", lost = {}, ~state.truncated
        PROVE  log = Logs!UpTo(state.seq)
    <2>1. /\ state.pending = <<>> /\ flush.chunk = <<>> /\ (flush.holder # "none" => flush.upTo = state.seq)
      BY <1>a, <1>2 DEF LogSteps, Ended
    <2>2. /\ Len(log) = state.flushed /\ (\A i \in DOMAIN log : log[i] = i)
          /\ (flush.holder # "none" => Len(flush.chunk) = flush.upTo - state.flushed)
          /\ Len(state.pending) = state.seq - Taken
      BY <1>a, <1>2 DEF LogWhole
    <2>3. state.pending = <<>> => Len(state.pending) = 0
      OBVIOUS
    <2>4. flush.chunk = <<>> => Len(flush.chunk) = 0
      OBVIOUS
    <2>5. flush.holder = "none" => Taken = state.flushed
      BY DEF Taken
    <2>6. Len(log) = state.seq
      BY <2>1, <2>2, <2>3, <2>4, <2>5, <1>n
    <2>7. log \in Seq(1..(MaxLines + 1))
      BY <1>a, LogSeqs
    <2>8. log = [i \in 1..state.seq |-> log[i]]
      BY <2>6, <2>7, <1>i
    <2>9. \A i \in 1..state.seq : log[i] = i
      BY <2>2, <2>6, <1>i
    <2> QED BY <2>8, <2>9 DEF Logs!UpTo
  <1>3. Logs!LogIsComplete
    BY <1>1, <1>2 DEF Logs!LogIsComplete
  <1>4. ASSUME NEW i \in DOMAIN stream.out, NEW j \in DOMAIN stream.out, i < j,
               {stream.out[i], stream.out[j]} \cap (flushedLate \cup {Logs!Truncation}) = {}
        PROVE  stream.out[i] < stream.out[j]
    <2>1. /\ stream.out[i] \notin flushedLate /\ stream.out[i] # Notice
          /\ stream.out[j] \notin flushedLate /\ stream.out[j] # Notice
      BY <1>4, <1>t
    <2>2. stream.out[i] \in 1..MaxLines /\ stream.out[j] \in 1..MaxLines
      BY <2>1, <1>i, <1>n
    <2>3. stream.out[i] \in Owed /\ stream.out[j] \in Owed
      BY <2>1, <2>2 DEF Owed
    <2> QED BY <1>a, <1>4, <2>3 DEF StreamOrder
  <1>5. ASSUME stream.pc = "end", lost = {}, dropped = {}, ~state.truncated
        PROVE  1..state.seq \subseteq Logs!ToSet(stream.out)
    <2>1. \A line \in 1..state.seq : Has(stream.out, line)
      BY <1>a, <1>5 DEF StreamWhole
    <2> QED BY <2>1 DEF Has, Logs!ToSet
  <1>6. Logs!StreamIsComplete
    BY <1>4, <1>5 DEF Logs!StreamIsComplete
  <1> QED BY <1>3, <1>6 DEF Logs!LogsComplete

\* Every line that a build has written is in its log when it is over, in order, unless its write
\* failed, or its last lines are, when it was too long; and who follows the log to the end was
\* sent each line, unless one was lost, dropped or cut off, and in order.
THEOREM LogsAreComplete == ServerSpec => []LogsComplete
  <1>1. ServerInit => (scene = "logs" => LogsInv)
    BY LogsStart DEF ServerInit
  <1>2. (scene = "logs" => LogsInv) /\ [ServerNext]_serverVars => (scene = "logs" => LogsInv)'
    BY LogsStep, LogsRest DEF ServerNext, serverVars
  <1>3. (scene = "logs" => LogsInv) => LogsComplete
    BY LogsInvSays DEF LogsComplete
  <1> QED BY <1>1, <1>2, <1>3, PTL DEF ServerSpec

===============================================================================
