--------------------------------- MODULE Server --------------------------------
(***************************************************************************)
(* What the server keeps beside the workloads: the key cache (AuthCache,   *)
(* whose definitions this module takes as they are), the idempotency       *)
(* entries, the keyring of a tenant, the registration limits, the master   *)
(* keys, the usage, a build's log, the snapshots, the pulled images and    *)
(* the previews.  They share no state: a behaviour is one scene, in which  *)
(* one component moves and the variables of the others, except the key     *)
(* cache's, are 0.                                                         *)
(***************************************************************************)
EXTENDS AuthCache

VARIABLE scene

\* The idempotency entries of the tenants' keys.
CONSTANTS IdemKeys, IdemTenantOf, Bodies, IdemRequests, TenantCap, GlobalCap
VARIABLES entry, order, idemReq

Idem == INSTANCE Idempotency WITH
          Keys <- IdemKeys, TenantOf <- IdemTenantOf, Requests <- IdemRequests, req <- idemReq

\* The keys of one tenant.
CONSTANTS MaxKeys, RingRequests, MaxSeconds, MaxMints, MaxRingSuspensions
VARIABLES second, keys, tenant, ringReq, mints, ringSuspensions

Ring == INSTANCE Keyring WITH
          Requests <- RingRequests, MaxTime <- MaxSeconds, MaxSuspensions <- MaxRingSuspensions,
          now <- second, status <- tenant, req <- ringReq, suspensions <- ringSuspensions

\* The registrations.
CONSTANTS Clients, RegRequests, PerIP, Global, MaxTenants, MaxEntries, Window, MaxTime, MaxMade
VARIABLES now, global, entries, regReq, active, suspended, made, windows, reactivated

Limits == INSTANCE Registration WITH Requests <- RegRequests, req <- regReq

\* The master keys.
CONSTANTS Columns, MasterKeys, FirstKey, MaxBackups, MaxRestores
VARIABLES db, tx, file, server, dump, backups, generated, restores

Rotation == INSTANCE KeyRotation WITH Keys <- MasterKeys, used <- generated

\* The usage of the containers.
CONSTANTS Services, Sandboxes, MaxUse, MaxRestarts
VARIABLES row, counter, used, billed, missed, fresh, lastCPU, tick, restarts

Meter == INSTANCE Metering

\* The log of a build.
CONSTANTS MaxLines, MaxLogSize, FlushBytes, TailLines, Buffer, LogFails
VARIABLES build, log, state, logger, ticker, flush, stream, chan, lost, dropped, flushedLate

Logs == INSTANCE BuildLogs WITH Fails <- LogFails, status <- build, late <- flushedLate

\* The snapshots of a service.
CONSTANTS Snaps, UsedSnaps, MaxPerService, MaxSnapFaults, MaxSnapCrashes
VARIABLES service, tags, snapRows, creator, user, deletion, snapGc, removal, attempted, exposed,
          late, snapFaults, snapCrashes

Snapshot == INSTANCE Snapshots WITH
              Used <- UsedSnaps, MaxFaults <- MaxSnapFaults, MaxCrashes <- MaxSnapCrashes,
              rows <- snapRows, gc <- snapGc, faults <- snapFaults, crashes <- snapCrashes

\* A public image.
CONSTANTS Creates, MaxPullFaults
VARIABLES operators, image, record, create, imageRows, conts, imageGc, untracked, pullFaults

Images == INSTANCE PulledImages WITH
            MaxFaults <- MaxPullFaults, rows <- imageRows, gc <- imageGc, missed <- untracked,
            faults <- pullFaults

\* The previews of an environment.
CONSTANTS Ids, MaxPreviewsPerEnv, MaxSuspensions, MaxFaults, MaxCrashes
VARIABLES env, rows, routes, net, attached, op, owner, sweep, gc, dark, taken, broken, suspensions,
          faults, crashes

Preview == INSTANCE Previews WITH tenant <- owner

ASSUME ServerAssumption ==
  /\ Idem!IdempotencyAssumption /\ Rotation!KeyRotationAssumption /\ Meter!MeteringAssumption
  /\ Limits!RegistrationAssumption /\ Ring!KeyringAssumption
  /\ Snapshot!SnapshotsAssumption /\ Logs!BuildLogsAssumption
  /\ Images!PulledImagesAssumption

idemVars == <<entry, order, idemReq>>
ringVars == <<second, keys, tenant, ringReq, mints, ringSuspensions>>
limitsVars == <<now, global, entries, regReq, active, suspended, made, windows, reactivated>>
rotationVars == <<db, tx, file, server, dump, backups, generated, restores>>
meterVars == <<row, counter, used, billed, missed, fresh, lastCPU, tick, restarts>>
logsVars == <<build, log, state, logger, ticker, flush, stream, chan, lost, dropped, flushedLate>>
snapshotVars == <<service, tags, snapRows, creator, user, deletion, snapGc, removal, attempted,
                  exposed, late, snapFaults, snapCrashes>>
imagesVars == <<operators, image, record, create, imageRows, conts, imageGc, untracked, pullFaults>>
previewVars == <<env, rows, routes, net, attached, op, owner, sweep, gc, dark, taken, broken,
                 suspensions, faults, crashes>>

serverVars == <<scene, vars, idemVars, ringVars, limitsVars, rotationVars, meterVars, logsVars,
                snapshotVars, imagesVars, previewVars>>

-----------------------------------------------------------------------------

IdemAway == entry = 0 /\ order = 0 /\ idemReq = 0
RingAway == second = 0 /\ keys = 0 /\ tenant = 0 /\ ringReq = 0 /\ mints = 0 /\ ringSuspensions = 0
LimitsAway == /\ now = 0 /\ global = 0 /\ entries = 0 /\ regReq = 0 /\ active = 0 /\ suspended = 0
              /\ made = 0 /\ windows = 0 /\ reactivated = 0
RotationAway == /\ db = 0 /\ tx = 0 /\ file = 0 /\ server = 0 /\ dump = 0 /\ backups = 0
                /\ generated = 0 /\ restores = 0
MeterAway == /\ row = 0 /\ counter = 0 /\ used = 0 /\ billed = 0 /\ missed = 0 /\ fresh = 0
             /\ lastCPU = 0 /\ tick = 0 /\ restarts = 0
LogsAway == /\ build = 0 /\ log = 0 /\ state = 0 /\ logger = 0 /\ ticker = 0 /\ flush = 0
            /\ stream = 0 /\ chan = 0 /\ lost = 0 /\ dropped = 0 /\ flushedLate = 0
SnapshotAway == /\ service = 0 /\ tags = 0 /\ snapRows = 0 /\ creator = 0 /\ user = 0
                /\ deletion = 0 /\ snapGc = 0 /\ removal = 0 /\ attempted = 0 /\ exposed = 0
                /\ late = 0 /\ snapFaults = 0 /\ snapCrashes = 0
ImagesAway == /\ operators = 0 /\ image = 0 /\ record = 0 /\ create = 0 /\ imageRows = 0
              /\ conts = 0 /\ imageGc = 0 /\ untracked = 0 /\ pullFaults = 0
PreviewAway == /\ env = 0 /\ rows = 0 /\ routes = 0 /\ net = 0 /\ attached = 0 /\ op = 0
               /\ owner = 0 /\ sweep = 0 /\ gc = 0 /\ dark = 0 /\ taken = 0 /\ broken = 0
               /\ suspensions = 0 /\ faults = 0 /\ crashes = 0

Scenes == {"cache", "idempotency", "keyring", "registration", "rotation", "metering", "logs",
           "snapshots", "images", "previews"}

\* The key cache starts where it begins in every scene, with keys to mint in its own.
ServerInit ==
  /\ scene \in Scenes
  /\ Init /\ (scene = "cache" \/ \A k \in Keys : key[k] = "unused")
  /\ IF scene = "idempotency" THEN Idem!Init ELSE IdemAway
  /\ IF scene = "keyring" THEN Ring!Init ELSE RingAway
  /\ IF scene = "registration" THEN Limits!Init ELSE LimitsAway
  /\ IF scene = "rotation" THEN Rotation!Init ELSE RotationAway
  /\ IF scene = "metering" THEN Meter!Init ELSE MeterAway
  /\ IF scene = "logs" THEN Logs!Init ELSE LogsAway
  /\ IF scene = "snapshots" THEN Snapshot!Init ELSE SnapshotAway
  /\ IF scene = "images" THEN Images!Init ELSE ImagesAway
  /\ IF scene = "previews" THEN Preview!Init ELSE PreviewAway

\* Only the component of the scene moves.
ServerNext ==
  /\ scene' = scene
  /\ IF scene = "cache" THEN Next ELSE UNCHANGED vars
  /\ IF scene = "idempotency" THEN Idem!Next ELSE UNCHANGED idemVars
  /\ IF scene = "keyring" THEN Ring!Next ELSE UNCHANGED ringVars
  /\ IF scene = "registration" THEN Limits!Next ELSE UNCHANGED limitsVars
  /\ IF scene = "rotation" THEN Rotation!Next ELSE UNCHANGED rotationVars
  /\ IF scene = "metering" THEN Meter!Next ELSE UNCHANGED meterVars
  /\ IF scene = "logs" THEN Logs!Next ELSE UNCHANGED logsVars
  /\ IF scene = "snapshots" THEN Snapshot!Next ELSE UNCHANGED snapshotVars
  /\ IF scene = "images" THEN Images!Next ELSE UNCHANGED imagesVars
  /\ IF scene = "previews" THEN Preview!Next ELSE UNCHANGED previewVars

ServerSpec == ServerInit /\ [][ServerNext]_serverVars

-----------------------------------------------------------------------------

\* Everything keeps its type.
TypesOK ==
  /\ TypeOK
  /\ scene = "idempotency" => Idem!TypeOK
  /\ scene = "keyring" => Ring!TypeOK
  /\ scene = "registration" => Limits!TypeOK
  /\ scene = "rotation" => Rotation!TypeOK
  /\ scene = "metering" => Meter!TypeOK
  /\ scene = "logs" => Logs!TypeOK
  /\ scene = "snapshots" => Snapshot!TypeOK
  /\ scene = "images" => Images!TypeOK
  /\ scene = "previews" => Preview!TypeOK

(* The properties of the components, each where its component moves. *)

\* One execution per idempotency key.
OneRunPerKey == scene = "idempotency" => Idem!OneRunPerKey

\* A pending entry has a runner, and a waiting request waits for a runner.
RunnersKnown == scene = "idempotency" => Idem!RunnersKnown

\* A stored response stays until it expires or is evicted.
StoredUntilExpiry == [][scene = "idempotency" => Idem!KeepsStored]_idemVars

\* The caps on the live keys of a tenant and on the active tenants hold.
CapsHeld == /\ scene = "keyring" => Ring!KeysCapped
            /\ scene = "registration" => Limits!TenantsBounded

\* A recovery costs the tenant at most the oldest key.
RecoveryCostsOneKey == scene = "keyring" => Ring!RecoveryCostsOneKey

\* The server reads every secret, or refuses to start.
SecretsReadable == scene = "rotation" => Rotation!SecretsReadable

\* What is used is billed once.
BilledOnce == scene = "metering" => Meter!BilledOnce

\* Who follows a build's log gets every line of it.
LogsComplete == scene = "logs" => Logs!LogsComplete

\* The image of a snapshot that can be restored exists; the operator's image does, and GC
\* knows the image that ah has pulled.
ImagesKept == /\ scene = "snapshots" => Snapshot!ImagesKept
              /\ scene = "images" => Images!PulledImagesTracked

\* A preview of a running environment is served.
PreviewsServed == scene = "previews" => Preview!PreviewsServed

=============================================================================
