-------------------------------- MODULE MCServer -------------------------------
(* Server for TLC.  A scene with more of everything than TLC can go through has two parts. *)
EXTENDS Server

VARIABLE part

\* Keys of one tenant in the cache; two keys of one tenant and one of another that are idempotent.
OneTenant == [k \in Keys |-> CHOOSE t \in Tenants : TRUE]
TwoTenants == [k \in IdemKeys |-> IF k = "other" THEN "t2" ELSE "t1"]
TwoColumns == <<"service_env", "snapshots.env">>

\* Two keys and one request, or two requests and one key; always two admins.
OneRequest == \A r \in Requests : (\E q \in Requests \ {r} : req[q] # Idle) => req'[r] = req[r]
OneKey == LET k == CHOOSE c \in Keys : TRUE
          IN /\ \A r \in Requests : req'[r].key \in {k, Nothing}
             /\ \A c \in Keys \ {k} : key'[c] = key[c]

\* Three requests with one body, or two with two.
OneBody == \A r \in IdemRequests : idemReq'[r].body \in {CHOOSE b \in Bodies : TRUE, Nothing}
TwoRequests == LET r == CHOOSE q \in IdemRequests : TRUE IN idemReq'[r] = idemReq[r]

\* One snapshot that is used, while calls fail and ah restarts; or two where retention keeps one.
OneSnapshot == \A s \in Snaps \ UsedSnaps : creator'[s] = creator[s]
NoUsers == user' = user /\ snapFaults' = 0 /\ snapCrashes' = 0

\* One preview, and calls that fail or a restart; or two.
OnePreview == \A p \in Ids \ {CHOOSE i \in Ids : TRUE} : p \notin rows'

MCInit ==
  /\ ServerInit
  /\ part \in CASE scene \in {"cache", "idempotency", "snapshots"} -> 1..2
               [] scene = "previews" -> 1..3
               [] OTHER -> {1}

MCNext ==
  /\ ServerNext
  /\ part' = part
  /\ scene = "cache" => IF part = 1 THEN OneRequest ELSE OneKey
  /\ scene = "idempotency" => IF part = 1 THEN OneBody ELSE TwoRequests
  /\ scene = "snapshots" => IF part = 1 THEN OneSnapshot ELSE NoUsers
  /\ scene = "previews" => CASE part = 1 -> OnePreview /\ crashes' = 0
                             [] part = 2 -> faults' = 0 /\ crashes' = 0
                             [] part = 3 -> OnePreview /\ faults' = 0

MCSpec == MCInit /\ [][MCNext]_<<part, serverVars>>

=============================================================================
