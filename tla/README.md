# agentic-hosting: a verification project

TLA+ models of `ah`, the single-node hosting daemon of this repository, checked with TLC and,
where it matters most, proved with TLAPS. Paths below are relative to the repository root, which
is `src/` in `PROJECT.json`.

## 1. The system

`ah` is one Go process beside a Docker daemon and a SQLite database. HTTP handlers call managers;
a manager reads a row, calls Docker, and writes the row again. Background goroutines do the same
to the same rows. There are few locks, so correctness rests on the order of the calls and on the
`WHERE` clauses of the updates.

| Component | State | Operations | Hard behaviour | What makes it correct |
|---|---|---|---|---|
| services (`internal/services`) | `services` rows, containers, Traefik route files, one striped mutex per service, deploy queue and semaphore | Create, Deploy, DeployImage, Restart, Start, Stop, Delete, ResetCircuitBreaker, StopAllForTenant, StartAllForTenant | every Docker call may fail; operations on one service exclude each other but not the reconciler or a suspension | no container without an owner, no container behind an open circuit, none after a suspension, deployment rows closed, every operation returns |
| reconciler (`internal/reconciler`) | the row it read, crash counters | crash counting, circuit breaker, restart of unhealthy containers, recovery of stale rows, environments' leases, statuses of databases | lock-free; acts on rows it read before Docker calls | no phantom crash, breaker removes before it opens, transient statuses end |
| tenants (`internal/api/tenants.go`) | `tenants`, `tenant_quotas`, limiters with an LRU of clients | register, suspend (two ways), reactivate, quotas | the stop of the workloads is a detached goroutine; the cap is read before the insert | a suspended tenant runs nothing and authenticates nobody; limits hold up to the requests in flight |
| keys (`internal/api/auth.go`, `recovery.go`, `internal/db/keys.go`) | `api_keys` | create, list, revoke, recover | count, expiry and suspension between the statements; recovery on a full keyring | the cap on live keys; a recovery costs the oldest key |
| builds (`internal/builds`) | `builds` rows; in memory: `cancels`, `phases`, queue, log buffers, subscribers | StartBuild, runBuild, CancelBuild, CancelAllForTenant, log streaming | cancel against the start of the deploy; restart; a stream that starts in the middle | one of cancel and deploy wins; every build ends; a follower gets every line |
| deployments | history rows with a transition guard | create, update, cancel | - | the row an operation opened is closed |
| auth (`internal/middleware/auth.go`) | LRU cache of key lookups with a generation | lookup, fill, revoke, suspend | fill with a result read before a revoke | a dead key is refused at once |
| idempotency (`internal/middleware/idempotency.go`) | in-memory entries, caps, TTL | reserve, wait, replay, release, sweep | waiters, eviction, slow handlers, panics | one execution per key; nobody waits for one that is over |
| environments, warm pool (`internal/environments`) | `environments`, `warm_pool` rows, containers, volumes | create, claim, start, stop, delete, exec, extend, refill | leases, claims against refill and GC | a container has one owner; a renewed lease is honoured |
| previews | `environment_previews`, route files, one ingress network per environment | create, delete; start, stop and delete of the environment | suspension and GC's network pass take no lock | a preview of a running environment is served |
| sandboxes, reaper (`sandbox*.go`) | the same rows, kind `sandbox`; `pulled_images` | create, DELETE, extend, reap, disk watchdog, egress cleanup | six writers of one status; retries of a teardown | over means torn down; pulled images are tracked |
| databases (`internal/databases`) | rows, containers, volumes, networks, ports | create, delete, stop all, start all, startup recovery | three-step provisioning against suspension and deletion | recorded or removed, in every order; data lost only by Delete |
| kanbans (`internal/kanbans`) | one board per tenant, container, volume, credentials | create, provision, restart in place, delete, stop, start, startup recovery | a failed board is replaced or kept | the same |
| snapshots (`internal/snapshots`) | rows and image tags | create, delete, restore, retention | reference check, then untag | what can be restored, and what runs, keeps its image |
| gc (`internal/gc`) | images, orphaned containers, volumes, networks | collect | list-then-act | nothing in use is removed |
| metering (`internal/metering`) | counter baselines, `usage_events` | tick | counters reset; samples fail | nothing is billed twice |
| crypto, backup (`internal/crypto`, `cmd/ah`) | the master key file, ciphertexts, the hash key, backups | rotate-key, backup, restore, start | crash between database and key file | a server that runs reads every secret |
| config, db, docker client, builder, API routing, CLIs | - | - | I/O, parsing | not modelled on their own |

Interactions: the API calls managers directly; managers meet the reconciler, GC and the
suspension only in the database and in Docker; builds call `services.DeployImage`; suspension
calls builds, environments, services, databases and kanbans in turn (`api/tenants.go`
`stopTenantWorkloads`) and evicts keys from the auth cache.

The hazards of each component, at their lines, are listed in `PROJECT.json` ("hazards"), each
with the properties that would catch it, the orders the code does not survive, or the reason why
no property covers it.

## 2. Modules

| Module | Models |
|---|---|
| `ServiceLifecycle` | services.Manager, the service half of the reconciler, suspension and reactivation, container exits and crashes of `ah`, on the services of one tenant |
| `ServiceLifecycleProofs` | its theorems: operations, rows and locks; containers and suspension |
| `BuildOutcome` | abstract: what the builds table promises about a build |
| `Builds`, `BuildsProofs` | builds.Manager, which implements `BuildOutcome`, and its theorems |
| `BuildLogs` | a build's log: buffer, ring, flushes, truncation, subscribers, StreamBuildLogs |
| `AuthCache`, `AuthCacheProofs` | the auth middleware and its cache, and its theorems |
| `Keyring` | the API keys of a tenant: creation, recovery, revocation under the cap |
| `Registration` | registration, the operator's routes, their limiters and the cap on tenants |
| `Idempotency` | the idempotency middleware |
| `Environments` | environments.Manager (kind "environment") and its warm pool, with what the reconciler, a suspension and GC do to them |
| `EnvironmentsProofs`, `OwnershipProofs` | its theorems: types and suspension; who owns what and what keeps a workspace |
| `Previews` | the previews of one environment: rows, routes, ingress network |
| `Sandboxes`, `SandboxesProofs` | sandboxes from create to teardown, the reaper, the disk watchdog, egress cleanup, and their theorems |
| `PulledImages` | the images that sandbox creates pull, and GC's pass over them |
| `Databases`, `Kanbans` | their managers, with suspension, startup recovery, reconciler and GC |
| `Snapshots` | snapshots, who runs from their tags, retention, GC's pass over built images |
| `Metering` | the usage collector |
| `KeyRotation` | rotate-key, the key files, the start of the server, backups |
| `Jobs`, `Server` | compositions: builds and sandboxes; the components that belong to the server as a whole, from the key cache to the previews |
| `ServerProofs`, `ArtifactsProofs` | the theorems of `Server`: idempotency, keyring, registration, key rotation, metering; snapshots, pulled images, previews |
| `MCServer`, `MCStores` | instances for TLC of several components, one per scene |
| `MCServiceLifecycle`, `MCBuilds`, `MCEnvironments` | instances for TLC: symmetry sets and constant functions |

A step of a model is one SQL statement, one Docker call or one critical section. What a goroutine
read is kept in its own record (`op`, `rec`, `sweep`, `req`, `canceller`, `creator`, `user`, `fill`,
`gc`, `tick`), so a decision may be stale when its write is done. Database statements are atomic, as
SQLite has a single writer, and time is abstracted to events or to a small clock: a TTL, a retry time
or an age may pass whenever the code could see that it has. Variables called history record what a
property has to except or to count; no guard of the code's steps reads them.

### ServiceLifecycle

`row` is the part of the `services` table that steers the code (status, container_id,
circuit_open, crash_count); `docker` gives every container a state; `lock` is the striped mutex.
`op[w]` is a goroutine inside an operation: `pc` is the next statement or call, `cid` the
container id it read, `was` the status Restart may give back, `new` the container it created.
`Begin` covers what an operation does before the lock (`checkTenantActive`, the deploy slot),
`LockService` the lock and the authoritative read under it, and then

- Deploy: `Mark` - `Prep` - `Teardown` - `Clear` - `Recheck` - `Run` - `Activate` - `WriteRoute`;
- DeployImage: the same without `Prep`; Restart: the same with a compare-and-swap as its mark;
- Start: `StartContainer` - `RestoreStarted` - `StartWrite`; Stop: `StopContainer` - `StopWrite`;
- Delete and Reset: `RemoveAll` - `Erase`.

`Discard` is the way out of a failed activation and `Reject` the refusal before the lock, which
writes the row without it. `rec` is the reconciler: `RecWatch` reads a row, `RecInspect` asks
Docker, and the later steps are its writes. `sweep` is StopAllForTenant.

Abstractions: the 256-slot lock is one lock per service (two services that share a slot only
wait longer); the deploy queue and semaphore are shared by all tenants and appear as "may be
full"; stopping and removing a container is one step that may fail half-way; the label pass of
StopAllForTenant is one step; a best-effort removal that fails puts the container into `leaked`,
where GC would find it; `Discard` joins the removal with the row's write.
A failing write is modelled where the code has a path of its own for it (activation, routes, the
recheck block); that the database is unavailable altogether is not.
StartAllForTenant's deploys are `rdeploy`/`deploy` operations of any worker. A Restart that failed at its
teardown gives the row its old status back, as the deferred handler does.

### Builds

`runner[b]` is StartBuild and then runBuild; `canceller[c]` a call of cancelActive. `cancelFn`
and `phase` are the maps guarded by `logMu`. `wonLive`, `deployed` and `faulted` are history
variables. `BuildOutcome` states the promise: a build is submitted once, runs at most once,
succeeds only if deployed, and does not change once it has ended, with the one exception the code
has (StartBuild's unconditional write of `failed` when the queue is full).

### AuthCache

A request is `Lookup` - (`EvictExpired`) or (`ReadGeneration` - `QueryKey` - `Store`) - `Respond`.
Revocation and suspension are two steps: the commit, then the eviction, with anything in between.
Requests are assumed to carry the right secret: only what the cache may do wrong is asked.

### BuildLogs

`state` is logState (sequence number, pending lines, ring), `flush` who holds `flushMu` and the
chunk it took, `chan` a subscriber's channel. `AppendLog` - `FlushFull` - `NotifyLogSubs` for a line;
`EndBuild` - `FlushLast` - `FlushTailBuffer` - `FinishBuild` - `CloseLogSubs` for the end; `SubscribeLogs` -
`FlushForStream` - `ReadBuild` - `CopyLine` for a stream. A line is its number; sizes count lines. `lost`,
`dropped` and `late` are the lines of a failed append, of a full channel, and of a flush between the
stream's own flush and its read of the row. Left out: the notice that a cancel appends, which has no
sequence number.

### Keyring

A key is when it was made and when it expires. `BeginCreate` - `InsertKey` and `BeginRecover` -
`InsertRecoveryKey` - `RevokeOldest` - ... are the handlers, whose INSERT counts the live keys with
the time the handler read when it began. `survivor` marks a key inserted while the tenant is suspended,
`spent` and `wasted` what a recovery revoked. Hashes, names and prefixes are left out.

### Registration

Each limiter is a global window and one window per client, kept in an LRU; the model lets the LRU
drop any other client's entry (the code drops the least recently used: more behaviours here).
`Allow` charges the client, `ChargeRegistration` the global budget once a tenant is made;
`CountTenants` and `InsertTenant` are two statements. The values of quotas are left out.

### Idempotency

Under `mu`: `Look` (reserve, wait, replay or refuse), `Store`, `Release`. An entry is identified
by the request that reserved it, as the code identifies it by pointer. `order` is the entries by
age, for the choice of a victim. `Expire` may happen to a pending entry: a handler may be slower
than the TTL.

### Environments

`env` and `pool` are the two tables, `cont` and `vol` are Docker: a container has a state, a name
(unique among those that exist) and the volume it mounts, and a volume in use cannot be removed.
A warm container and its volume go by the name of their pool entry, an environment's own volume by
the name of the environment; ids are used once.

- `creator[e]` is the goroutine in create(), which holds no lock: `Insert` - `Acquire` (one
  transaction on both tables) - `Transfer` - `Commit` for a warm container, `Insert` - `Acquire` -
  `MakeVolume` - `RunCold` - `Commit` for a cold start, and `Unclaim` - `Reset`, `RunFailed`,
  `UndoContainer` - `UndoStorage` - `DropRow` - `Fail` as the ways out;
- `user` is the one holder of the manager's mutex: Start (`Hold` - `StartContainer` - `StartCommit`,
  or `StartUndo`), Stop (`StopContainer` - `StopWrite`), Delete (`DeleteContainer` - `DeleteStorage` -
  `DeleteRow`). `ExtendLease` takes no lock;
- `rec` is the reconciler on the row it read: a container that is gone (`RecWatch` - `RecMark`), a
  lease that ran out (`RecClaim` - `RecStop`), a stop to be tried again (`RecInspect` - `RecRecheck` -
  `RecStop`); `RecFailStale` fails old creates;
- `sweep` is StopAllForTenant, which a suspension runs twice; `fill` the refill, with the entry it
  listed; `gc` what the collector listed as orphaned and has not removed yet.

`used` stands for `last_activity_at`, which the first commit sets, and `lost` for containers that a
failed call or a restart left behind. `minResourceAge` of GC is modelled as "the operation that
made the container is over" (`InFlight`); volumes have no minimum age in the code and none here.
`Actors` and `Faults` choose what takes part in an instance. A refill handles one entry at a time, between whose
listing and inspection anything may happen; so the decisions of a pass are as stale as in the code,
but for one: `DockerPrune` stays out of the moment in which a pass holds a listed volume, as the
code does lose a claimed workspace there (section 4). Stop and remove of a container are one step
that may fail half-way, and so are the pool row and the volume of a teardown. Previews have a module of their own. Not
modelled: exec and sync, templates and MaxTotal, networks, `Drain` (only tests call it).

### Previews

`op` is the operation that holds the manager's mutex; `sweep` and `gc` take none. A container that
was stopped has no endpoint, but keeps the id of its network and cannot start without it. `broken`
records what the code does not repair: an operation cut short by a failing call or a restart, a
sweep that meets a Start after a reactivation (`tenant_lifecycle.go:41`), GC between its owner check
and its removal (`gc.go:180-209`).

### Sandboxes

`row` has the status, whether a container is recorded, and time as two flags (`lapsed`, `old`).
`creator` is create() (`Insert` - `Prepare` - `RunEnvironment` - `Commit` and the undo), `deleter` DELETE,
`reaper` RunSandboxReaper with the watchdog and the startup cleanup, which share the strict teardown
`Get` - `RemoveContainer` - `RemoveVolume` - `DeleteRow`; `expirer` and `sweep` are the reconciler's expiry
and StopAllForTenant. All of them write the status of one row. `left` marks what a best-effort
cleanup or a crash may have left for GC, `missed` a sandbox that was created after the sweep had listed it
without a container: the sweep writes `stopped` and stops nothing. `StartUp` claims all rows in one step.
Bound: a suspension waits for the sweep of the one before.

### PulledImages

`ImageExists` - `UpdateRecord` or `InsertRecord` - `InsertRow` - `PullImage` - `CheckSize` -
`RunEnvironment` is a create, `RemoveFresh` - `ForgetFresh` the refusal of one whose image is too big; GC is `SelectStale` - `ReadUses` - `CheckExists` - `RemoveUnused` -
`Forget`. `missed` marks the orders in which the code does lose track: a create that found the image
just before its removal, and the unguarded DELETE of a refused create (`sandbox_images.go:127`).
`Age` assumes that tracking an image and a pass of GC are shorter than `minImageAge`.

### Databases and Kanbans

A database's or board's container has a name of its own, so at most one exists; `cont` is its id, and
`cid` what the row records. `vol` says whether there is data to lose. Create, Delete, `sweep`
(StopAllForTenant) and `starter` (StartAllForTenant) go statement by statement, the reconciler and GC
are single steps on what they see; `Crash` ends every goroutine and runs `ReconcileStale`.
For boards, `create` is Create with the goroutine it leaves behind, which provisions a new board, replaces
a failed one or restarts it in place; the dialogue with Vikunja succeeds, leaves an account without
a token, or fails. `leaked` and `missed` mark containers whose removal failed and rows that a
stale write has made wrong; the orders are listed in section 4.
Abstractions: one sweep and one starter at a time, no failing call inside ReconcileStale, removal of a
volume's data and of the volume in one step, one port range, and a readiness probe that any
container on the port answers.

### Snapshots

`tags` are Docker's, `rows` the table, oldest first; `user` is what runs from a snapshot: a service
restored from it or a sandbox forked from it. `deletion` is deleteSnapshot, for the API and for
retention; `gc` lists images, containers and rows, then untags; `removal` is the part of
services.Delete that untags a service's snapshots. All tags share one old image, as TagImage does
not change the age that GC looks at; `exposed` marks a tag that GC listed before its row was there
(`gc.go:330`), `late` a user that came when its snapshot's deletion had begun.

### Metering

A tick lists services, then sandboxes, then samples each container against its baseline. CPU time and
network bytes follow the same rules and are one counter. `fresh` is a sandbox younger than the
collector, whose first sample counts from zero; `missed` a container with use that no sample
can have seen from its start.

### KeyRotation

A ciphertext is the name of its key. `BeginRotation` - `RotateKeys` (a column a step) is one
transaction; `GenerateKey`, `MoveOldKey` and `MoveNewKey` are the operator following
`docs/runbooks/operations.md`; `Start` loads or seeds the hash key; `Vacuum` - `Publish` is a backup.
Excluded: restoring a backup older than the row of the hash key, which the code cannot tell from a
fresh database (`rotate.go:132`).

### Jobs, Server, MCStores

Each takes several components that share no state and lets a behaviour be one `scene`: the variables
of the others stand still (in `Server` they are 0). That is a sum of instances, not a product, and says
of each component what a run of its own would. `Server` instantiates each of its components once, with
constants of its own, and is what the proofs are about; `MCServer` divides the scenes that are too large
for TLC in two parts. `MCStores` has several instances of the same two components, with the constants
written out.

## 3. Runs

| Run | Instance | Shows |
|---|---|---|
| lifecycle_safety | 1 service, 2 workers (restart, delete), 2 containers, threshold 2 | the interleavings of two operations, the reconciler, a sweep and crashes lose no container, route or decision |
| lifecycle_faults | 1 service, 1 worker, all operations but Deploy, 2 containers, threshold 1, every call may fail | all error returns are consistent |
| lifecycle_live | 1 service, 1 worker (deploy, restart, delete), threshold 2, fairness | operations return, transient statuses end |
| lifecycle_lost_sweep | deploy, fairness | **violated**: a restart before StopAllForTenant is done leaves the tenant's containers running |
| jobs | scenes *builds* (2 builds, 1 canceller, queue 1, failing writes, a timeout, restarts) and *sandboxes* (1 sandbox, a suspension, a crash, a failing call, egress disabled) | builds: one winner, no stuck row, refinement of `BuildOutcome`, every build ends. Sandboxes: what is deleted leaves nothing, what is over is torn down |
| builds_two_cancels | 1 build, 2 cancellers | **violated**: the loser's undo lets a cancelled build deploy |
| server | scenes: key cache (2 keys and 1 request, 1 key and 2 requests; 2 admins), idempotency (3 requests, 1 body; 2 requests, 2 bodies; 3 keys of 2 tenants, caps 1 and 2), keyring (cap 2), registration (budget 1, cap 1, LRU of 1), rotation (2 columns, 2 keys, 1 backup), metering (2 containers), logs (5 lines, cap 3, ring 1), snapshots (1 in use, with a fault and a crash; 2 with retention 1), pulled images (2 creates; the operator's or not), previews (2, with a suspension, a fault and a crash) | no stale entry and no dead key; one execution per key; caps; readable secrets; billing once; complete logs; images in use kept; previews served |
| environments_pool | 2 environments, 1 pool entry, 1 cold container; users, reconciler, refill, GC, operator; faults of the refill | one owner, workspaces kept, a Start's lease respected |
| environments_suspend | 1 environment, 1 warm entry, 1 cold container; suspension, users, GC; failing calls, restarts | what is suspended is stopped, what is left over is collectable |
| environments_leak | 1 environment, 1 warm entry; users | **violated**: a Delete during a create hides a running container from GC |
| stores | scenes: a database with every fault and a crash, or with two suspensions; two databases on two ports, or under a quota of one; a board and a suspension, or two; a board with faults and a crash | no data lost but by Delete, nothing runs after a suspension but what a named race leaves, the quota holds |
| kanban_data | 2 creates, a suspension, a crash | **violated**: the startup recovery removes the volume of a used board |

Each property of a passing run has a mutant in `PROJECT.json`: a plausible bug that makes it fail.
The mutated definitions stand before the ones they replace and are marked `Mutant:`.

Bounds. One service suffices for the lifecycle: services share no state but the tenant and the
sweep's list, and the lock is per service. Two workers are two operations in flight, which the lock makes one
working and one waiting or refused; a third would only wait. Two containers give an old and a new
one at once; when they are used up RunContainer fails, which the code allows at any time. A
threshold of two separates "counted" from "tripped" and gives the recovery restart its turn; with one,
every crash trips the breaker. The operations of `lifecycle_safety` are the two that meet the most:
a Restart runs the whole deploy path too (remove, run, activate), and only a Delete takes the row away. Deploy
itself differs from what a Restart runs in one step, the refusal `Reject`; it is in the liveness run.
What the breaker and a suspension promise is checked without failing calls only; with them, both are
proved (section 5).
In `Idempotency` caps of one and two are
reached by three keys. Two builds and a queue of one make the queue full; one more canceller than
in `jobs` is the violation run. Ownership in `Environments` is contested by two creates over
one entry, with a cold container for the one that does not get it; the faults of
a suspension need one environment only, since rows meet each other in the pool and in the quota.
The two safety runs of `Environments` divide the actors between them: what a suspension does to the row of one
environment does not depend on the refill, which never touches `environments`.
Sandboxes meet each other only in the insert's count, so one suffices for the teardown; all its
writers are there at once. Databases meet on ports and quota, which have scenes of their own with two; a
tenant has one board, and two creates are what it takes to replace it. Two images per retention of one,
one rotation with a backup and a restore, five lines where the cap is three: each bound is the least at which the
limit is reached and passed. Suspensions, crashes and failing calls are bounded by one each where a
second only repeats the first; the scenes "twice" have two suspensions.
TLC takes up to three minutes for the largest runs.

Deadlock is not checked where ids are used once or events are bounded, so that an instance may run out
of things to do: `environments_pool`, `environments_leak`, `jobs`, `server`, `stores` and `kanban_data`.
In the other runs some event from outside is always possible.

Fairness. Goroutines run (`WF` of a worker's, runner's or canceller's next step), Docker calls have
deadlines, `sync.Mutex` does not starve a waiter (`SF` of `LockService`), and the reconciler's
ticker runs every recovery query on each tick (`SF` for services, as the statuses come and go; `WF`
of `FailStaleCreate` for sandboxes). For sandboxes: a create and a DELETE that have begun go on, the reaper's
ticker runs, and time passes (`Age`). In `Jobs` each fairness condition holds in its own scene. Nothing is
assumed of users, of containers or of crashes, which are finite in number in the sandbox scene (a teardown that fails
for ever never ends). The other modules state safety only and assume no fairness.

## 4. The four divergences

- **A cancelled build may deploy** (`builds.go:697`). `cancelActive` undoes its mark
  when its write loses, and the mark may be that of the cancel that won. The comment at
  `builds.go:79` promises that a cancel and the start of the deploy cannot both win.
- **A crash erases a used board** (`kanbans.go:147`). A failed board that has been in use is restarted in
  place with the status `provisioning`; if `ah` stops before that is over, `ReconcileStale` takes the row for a
  board that was never set up and removes its volume. The comments at `kanbans.go:186-187` and
  `356-357` say that such a volume is kept. `DataKept` states what holds otherwise.
- **A suspension does not survive a restart** (`api/tenants.go:444`). Nothing resumes
  the workload stop, and suspending again is refused with 409.
- **A Delete during a create hides a container** (`environments.go:650`). Delete reads a `creating` row
  without a container and erases it after the create has claimed a warm container and committed. The pool row stays
  `claimed`, so neither GC nor the refill ever takes the running container.
  `ClaimedStaysOwned` states that this is the only way.

Noted while modelling, without a run. The properties except these orders by name (`missed`, `leaked`,
`exposed`, `late`, `broken`, `survivor`), so that they say there is no other:

- services: a Start under way at a suspension or at the breaker's decision writes `running` over it
  (`services.go:1016`; the onboarding story says `stopped`). No container runs, which
  `SuspendedHasNoRunningContainer` states;
- keys: recovery on a full keyring revokes the oldest key that is not revoked, expired or not, so expired keys
  use its retries up and it ends in 409 (`recovery.go:137`, `db/keys.go:26-50`) where the comments at `recovery.go:105-110`
  promise the oldest live key: `RecoverySucceeds` in `Keyring` states the promise. A key inserted while a
  suspension commits survives it; the cap on tenants is read before the insert, and reactivations are not counted (`tenants.go:249`);
- environments: a Start between the reconciler's claim of an expired lease and
  its stop is followed by that stop, which `reconciler.go:666-668` excludes for renewals;
  a sweep's unconditional `stopped` on a row still being created, followed by a reactivation and a Start, lets
  the create's undo remove the container of a running environment, and leaves a `stopped` row with no
  container if the create has failed before (`tenant_lifecycle.go:55`, `environments.go:471-491`); a `docker container prune`
  between the refill's listing and its inspection of a row claimed meanwhile costs that environment
  its workspace (`pool.go:140-143`), and the same holds for GC's listing of volumes; an inspection that is out of date marks a
  restarted environment `stopped` (`reconciler.go:636`);
- sandboxes: the sweep writes `stopped`, and a failing create `failed`, over `deleting`; the reaper takes such
  rows up again, which `SandboxesEnd` shows;
- previews: GC disconnects Traefik from a network that had no owner when it was listed (`gc.go:180-191`);
- databases and boards: a suspension between the second `tenantActive` and the unconditional `ready`
  (`databases.go:778-784`, `kanbans.go:538-544`); a sweep that has listed a provisioning row and writes `stopped` over a
  container recorded since; a sweep that outlives a reactivation, or resurrects a failed row and so
  passes the quota; a Delete that overlaps a Create or a start, whose container GC has to find;
- snapshots: GC looks at the age of the image, not of the tag (`gc.go:330`), and deleting a service asks services only
  whether its snapshots are in use (`services.go:1350`), where `snapshots.go:501-502` counts sandboxes too;
- pulled images: a refused create forgets the record of another one, and one that found the image present just
  before GC removed it brings it back unrecorded (`sandbox_images.go:127`, `gc.go:531-532`);
- logs: a line flushed by another between a stream's flush and its read comes twice (`builds.go:647-648`, against the comment at 72-73).

Also: `build-pipeline.md` says a user's cancel leaves `cancelled`
while the code writes `failed` (`builds.go:742`); `tenant-onboarding.md` says builds are not
cancelled on suspension while CancelAllForTenant does so; a StartBuild refused by a full queue can turn a
`cancelled` row into `failed`; `Deployments.Cancel` takes `pending` rows only, which nothing inserts.

## 5. Proofs

For every value of the constants, from the named assumptions of the modules only (`LifecycleAssumption`,
`BuildsAssumption`, `JobsAssumption`, `EnvironmentsAssumption`, `AuthAssumption` and `ServerAssumption`, which
is the conjunction of those of its components): any number of services, workers, containers, builds,
sandboxes, environments, pool entries, keys, requests, snapshots and previews, and any faults. Two theorems about
environments, one about builds and one about previews have a further hypothesis, which is stated with them.

`ServiceLifecycleProofs` proves `TypeOK`, `CircuitOpenHasNoContainer`, `DeploymentRowClosed`,
`NoRouteResurrection` and `NoPhantomCrash`. None is inductive. The invariant `LifecycleInv` adds what
the code relies on without saying so:

- `Exclusion`: a worker past the lock holds it, and the row is there. Only Delete erases a row,
  and Delete needs the same lock;
- `Quiet`: while a worker exchanges a container the row is not `running` or `crashed`, so the
  reconciler does not watch it. Every lock-free writer (the sweep, the stale-row recoveries,
  Deploy's refusals) writes a status that keeps it so; recoverStaleRestarts, the only one
  that writes `running`, needs a `restarting` row, which a deploy never has;
- `WatchedRead`: what the reconciler compares the row with is a watched status, so its
  compare-and-swap fails on a quiet row;
- `Broken`: an open circuit belongs to a row that exists and has no container;
- `Closed`: a deployment row is open only between the mark and the end of the operation;
- `Purpose`, `Remembers`: who works is a deploy or a restart, and the status a restart gives back is one
  that a service has.

The proof splits a step into a worker's (`Operate`) and the rest (`World`); `OperateAdvance` says how a
worker moves, `OperateTouches` and `WorldRow` what a step may do to a row, `OwnStep` and `OperateKeeps`,
`WorldKeepsInv` put them together. `LifecycleInv` was checked by TLC on the instances of both safety
runs before it was proved.

`AuthCacheProofs` proves `TypeOK`, `NoStaleEntry` and `DeadKeyRefused`. The strengthening is
`HeldResult`: a request that holds a database result either still tells the truth, or its key's eviction
is to come, or the generation has moved on and its store will be refused.

The second half of the module proves `NoUntrackedContainer` and `SuspendedHasNoRunningContainer` on top of
`LifecycleInv`. `ContainerInv` says where every container comes from: it is the one its row names, or in
flight, or leaked (`Tracked`); what worker `w` knows at each of its steps (`Knows`: which containers are
left once it has stopped, removed or created one); the ids that the reconciler and the sweep remember
were created (`RecKnows`, `SweepKnows`), so that clearing a row's id loses nothing; and, while the
tenant is suspended, that what is behind the sweep is cleared and what is before it still names the
container the sweep listed (`Swept`). Two facts carry the proof: only `Run` brings a container to life
(`Fades`, `NoRevival`), and the id in a row changes in `Activate` or when its container is gone
(`KeepsCid`).

`BuildsProofs` proves the types, `NoAbandonedSlot`, `CancelExcludesDeploy` and that `Builds` implements
`BuildOutcome` (`ImplementsOutcome`: Init maps to its Init and every step to one of its steps or to a
stutter). The strengthening ties the runner's place to the row (a runner that is queued or running has a
row that says so, until a cancel or the restart has ended it) and to the slot it holds. `CancelOrDeploy`
assumes `OneCanceller`; with two cancels of one build it is false (`builds_two_cancels`, section 4).

`SandboxesProofs` proves `SandboxesCleared` and `TypesOK` of `Jobs`, with `Inv`: what create has
made and what its undo has left (`CreateFits`), how far a teardown has come once nothing can make the
container again (`TeardownFits`), that only a finished create has a row that says running
(`RunningFits`), and that after a suspension each running sandbox is still on the sweep's list
(`SweepFits`). The proof found an order that the runs' bounds had hidden: a create that commits between two
suspensions, after the first sweep has listed its row without a container and before that sweep writes
`stopped` over it, leaves a container that the second sweep does not stop, as it lists running rows only
(`tenant_lifecycle.go:26`). `missed` excepts it.

`EnvironmentsProofs` proves `TypeOK` with `Shape`, what each goroutine and the row it works on have in
common, and `SuspendedNotRunning`: the commits ask for an active tenant, so a row that runs when a pass
lists it is stopped in that pass, or its container could not be stopped and is in `lost`.

`OwnershipProofs` proves `OneOwner` and `ClaimedStaysOwned`. `OneOwner` is about rows, and no invariant
of the rows alone is inductive: a create or a Delete may write or remove what it read long ago. So
`Apart` is about what an environment holds (`Holds`: its row, and what create, request and reconciler
remember for it): nothing is held by two, and nothing fresh is held at all, where fresh is what nobody
was given (a container that does not exist yet, a ready entry, the one that the refill is making). A
step takes fresh containers only (`OneTakes`), and what is not fresh never is again (`FreshShrinks`), as
ids are used once. `ClaimsInv` adds that row, creating goroutine and holder of the mutex name the same
claimed container until its pool row is gone; the exception of `ClaimedStaysOwned` is where that fails.

The second half of the module proves `StartShielded` and `WorkspaceKept`, both action properties, for `Calm`
instances: those without suspensions, as in `environments_pool`. Without the hypothesis both are false.
TLC finds, with a suspension beside a Start, that `Hold` writes nothing on a row that is no longer
"stopped", and that the sweep marks it "stopped" again with its old lease; and that the sweep brings
back, as "stopped", a row whose create failed while the refill was pruning the entry that it claimed, so
that a Start puts a new container on a volume about to be dropped. In both a row that a reactivated
tenant sees as stopped has not been through a Stop; the sweep's write is unconditional
(tenant_lifecycle.go, StopAllForTenant). `Quiet` says what a settled row keeps while there are no
suspensions: its create is over, and a Start finds it as it read it. `Vols` says whose the volumes are,
and `KeptInv` that whenever the refill or GC may still drop a listed volume (`Marked`) that a row names,
the container that mounts it is there, or a Delete is on its way: DropVolume fails while the volume is
in use.

`ServerProofs` and `ArtifactsProofs` are about `ServerSpec`. What is inductive in a component is so in its
scene, and the other scenes leave it alone, so each theorem is that of its component. tlapm gives an
instance its own copy of the operators on finite sets and sequences, so lemmas such as
`LimitsCardinality` say that the copies agree.

- `RetriesWait` (`OneRunPerKey`), `NobodyWaitsInVain` (`RunnersKnown`) and `ResponsesStay`
  (`StoredUntilExpiry`, an action property). `IdemInv`: an entry that is pending belongs to a request
  that runs its handler or is about to release it (`PendingIsHeld`), such a request has its entry, and
  it is pending (`HoldsEntry`), and who waits, waits for such a request with the same key
  (`WaitIsAnswered`). So two runners of a key would own one entry. That reserving never evicts a pending
  entry is `RoomIsCompleted`, the lemma behind it.
- `SecretsStayReadable` (`SecretsReadable`). `RotInv`: the database, every backup and a copy in
  progress are each under one key (`Good`); a server that is up has the key of the database
  (`ServerFits`); and what an open transaction has done so far is known column by column (`TxFits`),
  which is what makes its commit go from one key to the other at once.
- `UseIsBilledOnce` (`BilledOnce`). `MeterInv`: what is billed of a container and what its counter has
  grown since the baseline never exceed what was used, and for a sandbox watched from its start they
  are all of it (`BilledFits`, `FreshFits`); a running sandbox that a complete
  list lacks started after it (`ListIsComplete`), so that no baseline of one that runs is dropped.
- `RecoveriesCostOneKey` (`RecoveryCostsOneKey`) and `CapsAreHeld` (`CapsHeld`). `RingInv`: the keys that
  count are within the cap now, and for each recovery, at the time it read when it began, the keys that it
  still sees live and those it has revoked are within the cap and what others have made
  (`RecoveryFits`). `LimitsInv` counts the registrations at each place: active tenants and those about to be
  inserted pass the cap by at most the other handlers and the reactivations (`TenantsFit`); a tenant
  was charged to a window or is about to be (`BudgetFits`). It takes a finite number of requests in flight.
- `LogsAreComplete` (`LogsComplete`). `LogsInv`: log, chunk that is being appended and buffer are in
  order and follow each other (`LogOrder`), and unless something was lost or cut off they are all lines
  (`LogWhole`); the ring has the last lines, each in its place (`RingFits`); what a stream has written
  precedes what it will read and what is in its channel (`StreamOrder`), and what its flush did not
  cover is in the channel or written (`StreamWhole`). It rests on `RemaindersDiffer`: lines of one window of
  the ring have different places in it.
- `ImagesAreKept` (`ImagesKept`). `SnapInv` says of each snapshot, for every step of its creation, of its
  users, of the deletions and of GC, what keeps its tag: its row, a user that a reference check would
  count, or that nobody has listed it yet (`SnapFine`). `PullInv`: while an image is on the host and not
  the operator's, it is recorded, or a create that will record it or forget it is under way, or the order
  is one of those that `missed` names (`PullsRecorded`).
- `PreviewsAreServed` (`PreviewsServed`), when a reactivation waits for the sweep (`~LateSweeps`, as in the
  run). `PreviewInv`: the previews of a running environment are served but for the one that the
  operation under way is about (`Serves`); an operation that connects the container has a row to connect
  it for (`OpFits`), so GC, which works on networks without rows only, is not at work (`GcFits`); no start
  that may commit meets a sweep that stops the container (`SweepFits`).

The inductive invariants were checked by TLC on the instances of the runs before they were proved.

Model-checked only: `TypesOK` of `Server`, the properties of `Databases` and `Kanbans`, and
all liveness, which is out of the prover's reach, like everything that needs ENABLED or induction over
data.

## 6. Plan

What is left, in this order:

1. Proofs: `SuspendedNotRunning`, `QuotaHeld` and `DataKept` of databases and boards.
2. Composition: one suspension against `Builds` and `ServiceLifecycle` together, so that a build
   that ends during a suspension does not deploy into it; Start and Stop of a service as further
   operations of the two-worker run.
3. `Environments`: an expired lease ends (liveness), and the abstract specification of ownership
   (a container has at most one owner) that the module implements.
4. A property about the container of a stopped service that the reconciler is restarting
   (`reconciler.go:386`).

## 7. Not modelled

Ciphers and hashes, token-bucket rate limits and body limits (each decided inside one critical
section or one request), the builder (external: it succeeds or fails, and writes lines), routing,
validation and JSON, the dashboard, the CLIs and the client library (one request per call, no retries of
their own), migrations and configuration. The Docker client is modelled where it is called: what a call
does to containers, names, volumes, networks and tags, and that it fails. Of modelled components: exec,
file access, sync and templates of environments and sandboxes, `Drain` of the pool (only tests
call it), orphaned route files and build caches in GC, names, DNS labels and env vars of services.
