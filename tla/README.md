# TLA+ models of the service monitor

The repository is a self-hosted platform that watches, builds, deploys and
repairs services: an API server (`apps/api`), a worker (`apps/worker`), agents
on the machines that run the services (`apps/agent`), a Kubernetes operator
(`deploy/operator`), and PostgreSQL and Redis underneath. This directory holds
TLA+ models of its core, TLC configurations that check them on small instances,
and TLAPS proofs about them for instances of any size. `PROJECT.json` maps every
definition to the lines it models and lists runs, hazards and theorems; this
file explains them.

    tlc -workers 2 -config CommandChannel.cfg CommandChannel.tla   # one run
    tlapm CommandChannelProofs.tla                                 # one proof

| module | models | runs | proofs |
|---|---|---|---|
| `CommandDelivery` | what the channel promises: at-least-once delivery | (abstract) | refinement |
| `CommandChannel` | `RealtimeManager`, the `/realtime` handler, the agent's client | `CommandChannel.cfg` | `CommandChannelProofs` |
| `AgentSession` | the goroutines of one agent session | `AgentSession.cfg` | `CommandChannelProofs` |
| `Builds` | poller, build queue, dependencies, dispatch | `Builds*.cfg` | `BuildsProofs` |
| `AutoFix` | error groups, the per-service fix lock | `AutoFix.cfg` | `IngestionProofs` |
| `BuildJob` | what one build does: `kaiad.yaml`, git, docker, crane, the registry | `BuildJob.cfg` | `BuildJobProofs` |
| `Deploy` | drift scheduler, deploys, flips, detaching, the agent's executor | `Deploy.cfg` | `DeployProofs` |
| `Registry` | uploads, manifests, tags, garbage collection | `Registry.cfg` | `RegistryProofs` |
| `RegistryAccess` | registry tokens, visibility of repositories, the signing key | `RegistryAccess.cfg` | `RegistryAccessProofs` |
| `Bootstrap` | setup wizard, configuration, the stores opened on first use | `Bootstrap.cfg` | `ConsoleProofs` |
| `Accounts` | tenants, sessions, enrollment tokens, credentials | with `Console` | `ConsoleProofs` |
| `Console` | a browser tab on top of `Accounts` | `Console.cfg` | `ConsoleProofs` |
| `Ingestion` | log events, incidents, remediations, the executor | `Ingestion.cfg` | `IngestionProofs` |

`MC*` modules hold the constants of the instances TLC checks. `AgentSession`,
`AutoFix` and `Bootstrap` are proved about beside another component, so their
`Init`, `Next`, `Spec` and variable tuple carry a prefix.

## Inventory

### API server (`apps/api/src/server.ts`)
REST routes, the `/realtime` WebSocket endpoint for agents and the web UI,
and timers. Its state is in PostgreSQL (services, agents, builds, load-balancer
status), in Redis (pending commands, queues), and in the memory of the process:
the session map, `fixInFlightByService`, `fixCommandToGroup`, the error groups
and `reconcileInFlight`. Handlers are asynchronous functions of one event loop,
so what interleaves is what runs between two awaits.

* **Command channel** - `realtimeManager.ts`, the `/realtime` handler and the
  agent's `internal/transport/client.go`. State: a Redis list of commands per
  agent, the session map, the agent's `seenCmds` and active connection.
  Operations: `sendCommand`, `registerAgent`, `acknowledgeCommand`,
  `unregisterAgent`, `disconnectAgent`; dial, heartbeat, read loop,
  `executeAndAck`. Hard: direct send against replay, late close events, lost
  acks, restarts of either side. Correct if no queued command is lost, none runs
  twice in one agent process, and queued commands reach an agent that stays.
* **Agent session** - `RunContext`, `runSession`, `readLoop` and the
  `executeAndAck` goroutines around the one-place channel `errCh`. Hard: who
  posts, who waits, which error wins. Correct if a session's end is followed by a
  dial, and the process exits only on a permanent rejection.
* **Automatic fixes** - `errorGrouping.ts`, `autoFixDispatcher.ts`, the handlers
  of `app_log_error` and `command_ack`. State: group statuses, lock set, command
  map, all in memory. Hard: several lines of one incident at once, acks that
  overtake the queue's answer, restarts. Correct if a service has one fix at a
  time, under its lock, and the lock comes back.
* **Deployment reconciliation** - the drift scheduler, attach and detach of
  agents, redeploy on environment changes. State: bindings,
  `service_loadbalancer_status`, `reconcileInFlight`. Hard: duplicate redeploys,
  teardown against redeploy, late status reports, two agents writing one row.
  Correct if desired and reported deployments converge.
* **Registry** - `registry/`: upload sessions over PostgreSQL large objects,
  blobs, manifests, tags, and a collector that runs as a process of its own.
  Every statement commits by itself. Hard: two requests on one object, the
  collector against a push, a crash between an object and its row. Correct if a
  committed blob keeps its bytes, a tag can be pulled, and no bytes are leaked.
* **Registry access** - `/registry/token`, `packages/registry-auth`, `requireAuth`.
  State: the signing key, rows of visibility, and tokens that clients hold. Hard:
  rights that change between the grant of a token and its use, a key lost in a
  restart, tokens with fewer scopes than a later request needs. Correct if nobody
  gets through on a right older than a token's life, and who may do something is
  not refused for good.
* **Bootstrap and setup** - `bootstrapEnv.ts`, `setupRoutes.ts`,
  `configPersistence.ts`, the startup of `server.ts`: the configuration file, the
  environment, an auth store swapped at run time, six stores opened on first use
  and then kept. Hard: the wizard twice at once, crashes between its steps,
  outages at a first use. Correct if a configuration names a database that has
  the admin, and the stores of a process agree.
* **Accounts** - `auth.ts`, `postgresAuthStore.ts`, `enrollmentStore.ts`,
  `apiCredentialsStore.ts`: rows of tenants, sessions and passes. Hard: a
  handler's session, membership and change are separate statements; deletion of
  a tenant moves sessions and cascades. Correct if no session is lost with a
  tenant without need and a revoked pass opens nothing.

### Worker (`apps/worker/src`)
* **Build pipeline** - `builds.ts`, `builddeps.ts`, over `service_builds` and
  `monitored_services` (`packages/db/src/queries.ts`). State: rows of builds,
  `depends_on`. Operations: polling, claiming, dependency resolution,
  success/failure, dispatch to agents, triggering of dependents. Hard: several
  workers and polling passes, crashes mid-build, dependencies that finish while a
  build reads them. Correct if builds end, pushes get built, dependents are
  rebuilt and the newest build is deployed.
* **Log ingestion and remediation queue** - `worker-runtime.ts`,
  `log-ingestion.ts`: detectors, a cooldown per fingerprint, BullMQ jobs. Hard:
  check-then-act on the cooldown, a crash or a refused enqueue after the incident
  is recorded, tools that hang. Correct if remediations of one error keep the
  cooldown, and a recorded incident is remediated.

### Agent (`apps/agent`)
* **Executor** - `internal/executor`: redeploy, teardown, fix plans. Each command
  runs in a goroutine of its own. State: containers, Kubernetes objects, the load
  balancer (`internal/lb`), what was deployed per service. Hard: two commands for
  one service at once, partial failure of a rollout.
* **Log tailing and shipping, supervision, samplers** - small loops:
  rotation, bounded buffers, restart budgets.

### Operator (`deploy/operator`)
* **KaiadAgent controller** - reconcile loop with finalizer and one-time
  enrollment. Hard: a crash between enrolling and storing the credential.

### Web console (`apps/web`)
* **The tab's tenant** - `App.vue`, the switcher, the tenants page and the
  configuration page all set it, from answers in any order. Correct if the tab
  shows the tenant its session is in, and comes to rest.

### The rest
OAuth, the other pages, text generation, policies, CI. No protocol of their own.

How they meet: the worker posts commands to the API
(`/api/v1/internal/agent-commands`), which puts them on the channel; a finished
build enqueues `redeploy_service`, an error line `run_fix_plan`; the agent
answers with `command_ack` (channel and fix lock) and with status reports
(reconciliation).

## Modules

### CommandDelivery and CommandChannel
`CommandDelivery` is what callers of `sendCommand` may rely on: a command is
outstanding from the moment it is queued, may be executed, and leaves only when it
has been executed. `CommandChannel` implements it with
`outstanding <- Range(pending), executed <- finished`.

One agent is modelled: sessions and lists are keyed by agent. `pending` is the
Redis list, `session` the map entry, `link[k]` the server's side of connection
`k` (`accepting` while the handler awaits the token check, `open` once listeners
are attached, `registering` between `registerAgent` and the answer of its LRANGE,
`registered`, `closing`, `down`). `down[k]` and `up[k]` are frames under way;
`conn`, `seen`, `running` the agent's memory. `SendCommand`,
`CheckBackpressure`, `PushPending`, `DeliverDirect` are `sendCommand` cut at its
awaits, `ReceiveAck` and `RemovePending` are `acknowledgeCommand` cut at its LRANGE.
Faults are real actions: connections break at either side in either order
(`ServerClose`, `CloseSession`), a heartbeat arrives before the listener
(`FrameBeforeListen`), the API or the agent restarts. Telemetry frames and
their caches, the UI's subscriptions and `awaitCommandResult` (no caller in
production code) are left out, and so is the mode without Redis.

### AgentSession
`main` is the program counter of `RunContext` and `runSession`, `reader` that of
`readLoop`, `errCh` the channel with room for one error, `executing` the number of
`executeAndAck` goroutines. A rejection and a failed ack use the non-blocking send
(`PostOrDrop`), the read loop's own error a plain one (`PostReadError`, enabled only
when there is room). `Leave` is `wg.Wait` returning: it needs the read loop to be
done. `CommandChannel!CloseSession` is this module's way from `cleanup` to
`sleep` in one step.

### Builds
`builds` is the table in the order of `created_at`, `dependsOn` the `depends_on`
column, `head` the remote branches. A polling pass is `LsRemote`, `CompareSha`,
`EnqueuePolled`; a worker goes through `resolve`, `pipeline`, `dependencies`,
`dispatch`, `list`, `trigger`, one await each. `Fault` actions are the calls
whose failure the code logs and goes on from; `Crash` is a worker that dies and
is replaced. Two history variables name what excuses a stale service:
`overlapped` (two of its builds ran at once) and `lost` (a step of one was lost);
a third, `deployed`, records the last dispatch. Cloning, containers and image assembly are
one step that succeeds or fails; `BuildJob` details it. Whether a build is deployed is
a matter of its commit's `kaiad.yaml` (`Deployable`). Services are not deleted, and a poller's pass that
would find nothing new is left out.

### AutoFix
A frame's handler is `ReportError` (grouping and the gate, one turn), a lookup,
`TakeLock` (the check and the `add` are one turn), the key material, the queue,
`RecordDispatch`. An ack is `ReceiveAck` (the map entry goes) and `ReleaseLock`
(after its lookup). `named` is the store's answer to a label; `Rename` changes
it. `CommandRefused` is the worker's job ending on 429 with no retry.
`RestartApi` also stands for a rejected enqueue: nobody catches it in the message
handler. The 30-minute windows of `upsert` are abstracted to both outcomes, and
normalisation to the identity of a group.

### BuildJob
Details the one step "cloning, containers, assembly" of `Builds`: `runBuild` from
its claim to its end. `repo` is the `kaiad.yaml` of each commit, `job` the build a
worker has and the steps it has left (`Steps`, computed from the file as the code
computes its calls), `proc` the child process of the step, `tag` and `latest` what
the registry's tags name, `dirs` and `keys` what lies on the disk. The checks of
`kaiad.yaml` are `InnerChecks` for every form and `FullChecks` for the
single-service one, as in the code. The worker's own calls before the first tool are
steps as well: `Claim` takes the row only, a manual build's `Resolve` begins with the
key, and `Clone` is `MakeDirs`, `LogBanner`, `sshAuthEnvForKey` and then git. The first
two stand before the `try` whose `finally` removes the directory (`ThrowsEarly`), the
third before the one that removes the key (`ThrowsWithKey`). A tool's step ends by `Exits` (either way; a push may
have landed when it fails), by `TimesOut` (the child gets SIGKILL, and the build goes
on when its pipes close: `ChildEnds`), by a failing database call (`Throws`), or
with the worker (`Dies`). `Finally` is the `finally` of `runBuild`, `RemoveKey` those
around git; the removal of the directory is not awaited, hence the extra steps
`Removed` and `RemovalFails`. The history `stray` records what a failing call before
the `try`, or a failing removal, left behind. What logs say is left out, digests are the build that pushed and whether the image has its entrypoint.

### Deploy
The handlers of the API that deploy, the worker's dispatch, and the executor. A
handler that awaits is a job: `todo` holds what it has read, `at` the target in hand.
`TimerPass`, `ManualPass`, `ReconcileAgent`, `GoOnline`, `BuildSucceeds`,
`DeployChosen`, `DeployOnAgent`, `FlipEnvironment`, `Attach`, `Detach` and
`SetBindings` are the operations; `ListTargets`, `PopRow`, `SendTeardown` and
`SendRedeploy` what follows, one awaited call each. `rows` is
`service_loadbalancer_status`, which is all the scheduler knows, `containers` what
really runs. A command runs in a goroutine of its own: docker by `Clear` and
`Start`, Kubernetes by `Apply`, which changes nothing where an immutable selector
forbids it, then `Report`. The history variable `lost` names the pairs of agent and
service of which a row, a report or a teardown was lost. Delivery is reduced to
what `CommandDelivery` promises: a command is held while its agent is away.

### Registry
`blob`, `manifests`, `tag` and `upload` are the tables, `object` the large objects
(what is written there, by digest), `req` the requests under way, `gc` the
collector. One action per statement: `BeginComplete`, `WriteChunk` and `EndBody` for the
chunk that may ride along, `Verify`, `CheckExisting`, `ReuseBlob` or `CommitBlob`,
`DropSession` are one `PUT`; `GcListBlobs`, `GcUnlink`, `GcDeleteBlob` one stage of the
collector. A body is written piece by piece, by whichever request is at it, over what
is there. `CrashApi` and `CrashGc` stop a party between any two statements, `Fails`
and `GcFails` let one statement throw, `UnlinkFails` is an unlink whose error the
handler swallows, `CancelElsewhere` the DELETE that came through another repository.
Four history variables say who was in whose way: `shared`,
`orphaned`, `seen` and `withdrawn`. Ranges of chunks, paging and catalogues are left
out; who may send the requests is `RegistryAccess`.

### RegistryAccess
`key` is the signing key, `live` the bearers that are neither revoked nor expired,
`public` the rows that say so, `token` what the one client holds. `Send` is
`requireAuth` as far as its token, `ReadVisibility` the rest, `Serve` the handler;
`AskToken`, `ResolveBearer` and `ReadPublic` are a request for a token, cut at its
queries. `Restart` may find the key gone and make a new one. The histories `dead` and
`private` are ages, up to the life of a token. Clients share nothing but the server,
and the server keeps nothing of them, so one client is the general case. Formats
(JWT, DER, paths) are abstracted to what they identify; sessions of development
(`dev-token`), which nobody can revoke, and clients that ask for another `service`
are left out.

### Bootstrap
`file` is the configuration file, `env` the URL in the environment of the process,
`auth` and `store` where each store points. `EnsureSchema`, `SeedAdmin` (a
transaction), `WriteConfig` (file, then environment) and `SwapAuth` are the wizard;
`Open` and `FinishOpen` the first use of a store; `Publish` the boot's publication of
the agent's image and then the operator's, each of which may fail and is not retried
(`missed`). An installation has the bundles and crane or not (`baked`). `Start` may find a
`DATABASE_URL` in its environment (`preset`), `Configured` is the one that counts: the
file's, if there is one. `Stop` is a crash or restart at any point, `Outage` a database
that does not answer. What a store contains is left to the other models.

### Accounts and Console
`Accounts` has the rows; a request passes from "session" to "membership" to "act"
to "answered", and every statement in between is a step. Deleting a tenant is
`MoveSessions`, then `RemoveTenant`, whose cascade waits for the locks of another
deletion (`WaitsFor`) or dies in a `Deadlock`. `Consume` and `ConsumeKnown` are the
hand-shake of an agent, `Hello` its end. `Console` EXTENDS it by one tab: `tab` is
App.vue's user, memberships, hash and route; `Render` runs the configuration
page's watcher; `Receive` takes an answer, in any order; `Leave` marks what an
unmounted page still waits for. Everybody else, other tabs included, is
`Accounts!Elsewhere`. The histories `joined`, `told`, `reads`, `disturbed` and
`wanted` carry what the properties excuse or compare.

### Ingestion
`logs` and `fixes` are the two BullMQ queues (external: one active job of each queue,
no retry, one recovery of a stalled job), `seen` the incidents in the memory of the
worker, `child` the process group of the executor. `Look`, `UpsertIncident`,
`QueueRemediation` are one ingestion job cut at its awaits, `Launch`, `Exit`,
`Timeout`, `Close` and `EndRun` the run of a tool. `Shutdown`, `Stop`, `Crash` and
`Start` are the worker's life; detectors are their patterns and confidences.

## Runs

| run | question | states, time |
|---|---|---|
| `command_channel` | safety of the channel, that it implements `CommandDelivery`, that what is queued when the last connection comes up gets through, and that a result on it settles | 394k, 110 s |
| `agent_session` | goroutines of a session | seconds |
| `builds` | two workers: freshness of dependents and deployments, claims | 1.14M, 50 s |
| `builds_live` | builds end, pushes are polled | 307k, 40 s |
| `build_job` | a success names an image with its entrypoint; nothing is left behind | 410k, 125 s |
| `auto_fix` | the lock: safety and liveness | 334k, 75 s |
| `deploy` | what runs and what the table says is where its build belongs; the table catches up, abandoned namespaces are torn down | 300k, 65 s |
| `registry` | committed blobs, tags and objects against every interleaving | 1.37M, 77 s |
| `registry_access` | requests get through on recent rights only; who may is not refused for good | 453k, 45 s |
| `bootstrap` | a configuration has its admin, stores agree, images are published | 419k, 65 s |
| `console` | the tab shows the tenant it acts on; sessions and revoked passes | 442k, 65 s |
| `ingestion` | cooldown of remediations; a recorded incident is remediated | 130 s |

Every property has a mutant: a definition of the model changed as a plausible bug
would change the code ("Mistake:" in the modules), under which the same run finds
the property violated.

### Bounds, and why they are enough
* Channel: 2 commands (one can be mistaken for the other in the list), 2
  connections (an old one whose events come late, and a new one), 2 senders, who may
  overshoot the limit or push one command twice, `MaxPending = 1` so that the limit is
  met, 2 calls, 1 restart of the agent. Connections fail only while one is left to
  dial (`CanFail`): every finite run of failures is followed by a last
  connection, which is what the liveness properties are about. Commands are alike,
  so these speak of one of them.
* Session: 2 commands; two acks can fail beside the read loop, which fills the
  channel.
* Builds: a base and a site built on it. In `builds` only the site's second
  `kaiad.yaml` names the base, so the first registration of a dependency races
  the base's build; both services get two commits, of which the base's second is of a
supporting pipeline, and one fault happens. In
  `builds_live` one worker suffices: ending does not depend on a second one; the run
  has a manual build and a fault, crashes included.
* One build: 2 workers and 2 builds of 1 commit, which is when two write one tag; 2
  faults; a dozen `kaiad.yaml` files, of every form and each way to be refused.
  Three builds are beyond five minutes and add no new pair of writers.
* Fixes: two groups with one label (the wrapper and the cause of one incident) and
  a third with another label, two services, two handlers, two commands, one fault.
* Deploy: 1 agent of either runtime, 1 service, an environment that overrides the
  namespace and one that does not, 2 jobs and 2 commands at once (two passes, or a
  teardown beside a redeploy), 1 build, 1 operator's request, 1 fault. Two agents in
  one environment overwrite each other's row whatever happens, so `StatusCatchesUp`
  excuses them and the run has one agent. Runs with 2 builds or 2 requests take
  too long for liveness.
* Registry: a layer, the image that has it, an index that lists the image; 1 tag, 1
  upload session, 2 handlers and the collector, 5 requests (push and delete again),
  2 large objects, 1 fault (a crash or a failing statement). Handlers are symmetric.
* Registry access: a repository that is always public and one that is not, an
  administrator's session, another bearer, or none; three clients, one that pulls two
  images, one that pushes, one that deletes; tokens live 2 ticks, 1 restart. The
  queries of one request for a token, and the repetition of the request it was asked
  for, take less than a tick: tokens live an hour.
* Bootstrap: 2 databases, 2 handlers (two wizards, or one and a first use), 3 of the
  6 stores (settings behind the gate, credentials and registry before it; the one that
  falls back to memory, the one that does not), 1 fault, and a process started with
  either database in its environment or none.
* Console: 2 tenants, 2 sessions, 1 token, 1 credential, 2 requests under way and 2
  asks of users: a switch overtaken by another, or by a deletion.
* Ingestion: a line that is an error and one that is not, timestamps 0 and 1 with
  cooldown 1, 3 events, 1 stop or crash.

### Fairness, and why the code justifies it
* Channel: weak fairness of event loops, goroutines, Redis answers and the
  reconnect loop (`RunContext` retries for ever). None for callers, failures,
  restarts or `disconnectAgent`. Acks and heartbeats of one connection share one
  condition because TCP delivers in order.
* Session: goroutines that can run do, and the server decides about a token. Strong
  fairness in three places: Go's select picks at random among ready cases, so an
  error in the channel is not passed over for ticks for ever (`ReceiveError`); a
  write to a dead connection may be buffered, but not for ever (`WriteFails`, TCP's
  timeout); and dialling does not fail for ever (`StartSession`).
* Builds: timers fire for ever, each pass visits every service (weak fairness per
  service), git, containers and the database answer or time out. One build: the
  timeouts fire and the worker's own steps are taken; of the tools only `git init`,
  `git remote` and `git checkout`, which have no timeout, are taken to end. A killed
  tool's child need not end.
* Fixes: handlers and acks go on. Frames are not required to arrive.
* Deploy: started handlers go on, the timer fires every minute
  (`setInterval`), the executor's goroutines run, an agent reconnects. Operators,
  builds and faults may come or not.
* Registry: safety only. Nothing makes a client or the collector come back.
* Registry access: requests are answered, clients try again, time passes.
* Bootstrap: the supervisor restarts the process, the boot opens the registry and
  publishes, a database comes back, a started wizard goes on. Nobody has to run it.
* Console: requests are handled, answers and hashchange events arrive. Users need
  not act.
* Ingestion: the worker works, its timer fires, it stops when told and is started
  again; a tool need not end.

### What the code does that one might not expect
The models were written from the code, and they have each of these. The properties
say what remains true beside them, and name them where they excuse a state.

* Channel. A late close event of an old connection unregisters the new session
  (realtimeManager.ts:168); an ack without an active connection is dropped
  (client.go:695) and the replayed duplicate is not acknowledged: `QueuedIsReplayed`
  and `ResultSettles` speak of the last connection only. Two calls of `sendCommand` for
  one command push it twice (realtimeManager.ts:228), and one ack removes one entry:
  `ResultSettles` speaks of commands queued once.
* Session. A second error finds `errCh` full while `wg.Wait` waits for its sender
  (client.go:575): `BlockedBySecondError` says it is the only way to hang. A write
  error may overtake a rejection (client.go:399), so the agent redials:
  `ExitsOnRejectionOnly` is the direction that holds.
* Builds. Two polling passes queue one commit twice (builds.ts:360, against the
  comment at :8); no row is claimed twice. Services that depend on each other would
  rebuild each other for ever.
* One build. Push and mutate are two writes of one tag (builds.ts:1090): a rebuild
  that fails in between leaves the earlier success's reference without entrypoint,
  which `RefsWhole` excuses. `captureArtifacts` writes into the directory the
  `finally` removes. The directory is made and the banner logged before the `try`
  (builds.ts:477-486), and a key written before the one that removes it: a failing
  call in between leaves them, and so does a failing `fs.rm` (:735). `Reaped` names
  these. In multi-service files the ports and names of environment
  domains are not checked. `getRegistryAuthConfig` keeps "no keypair" for ever; a
  failing database call in the failure path leaves a row `running`.
* Fixes. The ack handler releases the lock of whatever the label names then
  (server.ts:1234), not what it locked. `dispatchAutoFix` gets the group as it was before
  the lookup (server.ts:1363), so a group paused or fixed meanwhile is fixed again.
* Deploy. Two agents of one service in one environment share a row (schema.ts:335)
  and are redeployed in turn, each tick. A change of environment with
  unchanged namespace leaves the old row in place, so each tick redeploys. On
  Kubernetes the selector of a Deployment names the environment and cannot change:
  after such a flip nothing is applied, and the agent reports as if it were
  (redeploy.go:981). Kubernetes reports even when the apply fails. Tearing down the default
  namespace of docker removes the service from every namespace. Detaching pops all
  rows and tears down the place of one; a report in flight puts a row back. Changing
  bindings through the service tears nothing down, attaching deploys nothing before the
  next tick, and a chosen older build is undone by it.
* Registry. A repeated PUT unlinks the object the first one committed; a completion, a
  cancellation and the collector race for one session's object. A crash after the
  commit and before the session is deleted lets a later PATCH append to a committed
  blob. If the collector dies between `lo_unlink` and the row's DELETE, the digest
  stays committed without bytes, and the next pass skips it because `lo_unlink` fails.
  What the collector lists it deletes later, though a push has counted on it
  meanwhile: the comment at gc.ts:21-24 promises that a 404 is the worst a push sees
  and that a retry heals it, but a push that ended well may have lost a layer.
  A monolithic POST of a known digest leaks its object, a DELETE of a session through
  another repository (routes.ts:1011-1014) deletes the row, answers 404 and leaks it too,
  and so does every unlink that fails, since all of them swallow the error. The comment
  at routes.ts:714-715 says that the collector sweeps an object without a row; it
  lists rows only, so what is leaked stays. A failing `deleteRegistryUpload`
  (routes.ts:991) leaves a session that names a committed object, as a crash there does.
  An expired session still works.
* Registry access. Nobody is granted the catalogue (server.ts:674, against the comment
  at routes.ts:402) or `delete`; an administrator deletes with a token for `*`, which
  no challenge names. A valid token that lacks a scope is refused with 403 where no
  token at all would be served, until it expires: `PermittedGetThrough` holds because
  it does.
* Bootstrap. README.md:62 of the repository says that environment variables always
  override `kaiad.config.json`; `bootstrapEnv` writes the file's values over them
  (bootstrapEnv.ts:40-44), so an installation that was set up ignores a `DATABASE_URL`
  it is started with, and :75's way to skip the wizard works only without a file.
  `StoresAgree` states the code's order, over both cases. A failed push of a
  bundled image waits for the next start. A store keeps what its first use found until
  the next restart, a failed opening of the registry's pool included; after the
  first-run setup the images are published at the next start only. Two wizards at
  once may leave file, environment and auth store on different databases. After a crash between
  the transaction and the file, running the wizard again resets the admin's password.
* Accounts. Two deletions at once may take away a session although another tenant exists, by
  way of the tenant it was moved to; that is what `joined` excuses. A connection keeps the
  tenant it was opened with.
* Console. An answer that arrives after its page was left is lost to the tab; a
  failing `/me` after a deletion logs out.
* Ingestion. Incidents live in the memory of the worker, so a restart forgets the
  cooldown. A refused `queue.add` suppresses the error for one cooldown. A process group
  that ignores SIGTERM keeps the only slot of the queue until the worker restarts.

## Proofs

All hold for any values of the constants that satisfy the named assumptions. Most of
these say that bounds are numbers, sets of slots are sets of numbers and placeholders
are not members of the sets (`ConstantsAssumption`, `MaxCommandsAssumption`,
`BoundsAssumption`, `ServiceAssumption`, `AutoFixAssumption`, `DatabaseAssumption`,
`ReferencesAssumption`, `EnvAssumption`, `JobAssumption`, `AccessAssumption`). The
others: a service does not depend on itself and the services have an order (`Builds`);
callers of `sendCommand` are finitely many at a time (`SenderAssumption`); digests of
blobs and of manifests are different things (`Registry`); a bearer is a session or a
pass, never both (`PassAssumption`: each is 32 random bytes, a credential with a
prefix); a file of the single-service form has its one service, and a pipeline lists
finitely many layers (`FileAssumption`); a repository whose
pulls are public by decree is one of the repositories, and a token lives at least one
tick (`AccessAssumption`).

* **CommandChannelProofs.** `TypeCorrect` first. `NoCommandLost`
  (`AcceptedNotLost`) is not inductive: an LREM under way or an ack in flight could
  remove a command that no run has ended. `AckJustified` adds what rules it out:
  acks in flight and LREMs issued are of finished commands only. `OncePerProcess`
  needs `StartsCounted`: within one process, a command not yet seen has not been
  started by it. `SessionsAreOpen` is inductive with the types. `BacklogBounded`
  (`BackpressureBound`) counts the callers between their LLEN and their RPUSH
  (`RoomTaken`): together with the list they stay below the limit plus the number of
  callers. `ChannelImplementsDelivery` maps every step to a step of `CommandDelivery`
  or a stutter; RPUSH is `Accept`, LREM is `Settle` (or a stutter when the list still
  has the entry a second time), the end of a run is `Execute`, which is where
  `CarriesAccepted` comes in: what is in flight or being run was queued first. The
  facts on `RemoveFirst`, `Tail` and `Append` it rests on come first in the module.
  At its end, `AgentSession`: `IInv` joins `NoReaderLeft` with `ErrorOrigins` (which
  error can stand where), which is what makes `ExitsOnRejectionOnly` and
  `BlockedBySecondError` follow.
* **BuildsProofs.** `ClaimedOnce` and `TypeOK` need each other: a worker's row stays
  `running` only because no other worker has it, and no other can claim it because
  it is not queued. `IInv` joins them with `Shapes` (every row a `BuildRow`),
  `Commits` (no row or polling pass is ahead of its branch) and `References` (no
  row or dispatch names a build that does not exist; `NewestRow` is the lemma that
  the newest of a set of rows is one of them). `QueueOrdered` says what the claim's
  ORDER BY gives: of a service without overlapping builds, queued rows are newer than
  all others. `AgentsRunNewest` (`DeployedIsNewest`) adds `Told`: the newest success
  of a deployable commit is dispatched, or its worker is still to dispatch it. `DependentsRebuilt`
  (`DependentsFresh`) is the longest argument. `Fresh` follows one pair of a
  dependency and its dependent through every order of their steps: the dependent's
  last build has read the dependency's newest success, or a build of it is queued, or
  whoever made the dependency still has the dependent on its list, or has yet to make
  that list and will find it there because it is registered, or because its
  registration, still to come, is followed by a read that sees the success.
* **BuildJobProofs.** `ReferencesWhole` (`RefsWhole`). A worker at a build is alone
  at it (`Alone`) and has either only the steps up to the checkout ahead of it (`Cloning`) or
  tools (`Building`); after every write of an image that still lacks its entrypoint comes the
  mutate (`Mutated`), and a build that is to have an image has written its tag or is
  still to (`Ahead`). Hence `TagOK`: a tag without entrypoint was written by a build
  that has not succeeded and, while its worker lives, has the mutate still to come; when
  its list of steps is empty, what it wrote is whole. Most
  lemmas say that the lists `Steps` computes from `kaiad.yaml` have this shape, for
  every form of the file, and that each step keeps it (`JobShape`).
* **DeployProofs.** `RunsAsBuilt` (`PlacedAsBuilt`). The invariant follows a build
  from the reading of a handler to the containers: every target of a job names a
  successful build, or is there only to be torn down (`TargetOK`); every redeploy on its
  way carries the namespace that build's own pipeline gives it in the command's
  environment, not in the one the agent has by then (`CommandOK`); so does whatever a
  command leaves in `containers` or `rows` (`Places`), and it replaces what stood there
  (`Once`). That a build, once successful, stays so (`GrownKeeps`) carries all of it
  over a job's awaits. It holds for any number of agents, environments and pipelines,
  the shared rows that `StatusCatchesUp` must excuse included.
* **RegistryProofs.** `TypeCorrect` needs `Created` (a request or the collector names
  only objects that exist or existed) and a `RequestOK` per stage. `TagsWhole`
  (`TagsPullable`) is inductive with `Pushes` (what a push has checked is still there,
  or was withdrawn) and `Listed` (what the collector is going to delete is withdrawn
  from anyone who counts on it). `BytesOwned` (`ObjectsOwned`) needs `Sole`: an object
  in the making is nobody else's, so whoever drops it, drops it alone; what a failing
  statement, a swallowed error or a cancellation from elsewhere lets go of is recorded
  in `orphaned` by those very steps, and by no other. `BlobsServed`
  (`BlobsReadable`) needs `SInv`: an object that is not `shared` is in one hand at a
  time, and is a committed one only in a hand that does not write; a hand that stops
  over a committed object, by a crash or a failing statement, makes it `shared`.
* **RegistryAccessProofs.** `ServedOnRecentRights` (`ServedOnRecentRight`, an action
  property). A token is not older than the rights it was granted on: with `n` ticks
  of its life left, each right it grants was there `TTL - n` ticks ago or later
  (`TokenRight`). Between the handshake's queries (`Asking`) no time passes, a request
  that waits for the visibility wants pulls only (`Reading`), and the ages count from
  what is so now (`Ages`). A key that is made anew is larger than any token's, so old
  tokens stop passing.
* **ConsoleProofs.** About `Accounts` under any tab. `NoSessionLost` (`SessionsKept`)
  needs `Entered`: once a deletion has moved the sessions of its tenant, whoever is
  (still or again) in it is to be moved, came in since, or has no other tenant; and
  that sessions are never moved into the tenant that goes, which rests on `Min` being a
  least element (`LeastTenant`). `DeadPassRefused` (`DeadPassStaysOut`) needs `Dead`
  (what was revoked stays revoked or gone: mints insert only where nothing is) and
  that a request that came with a dead bearer has not been let in yet. `Follows` and
  `Enter` are the frames that every handler is shown to fit.

  About the tab, `ChosenShown` (`ShownIsChosen`). Answers come in another order than
  the session was read in, so what the tab shows says little of the session until it
  is compared with the reads behind it. `CInv` does that: `reads` lists exactly the
  tab's own requests that have read the session and are not answered yet, in order
  (`ReadsAre`); the last of them, or the tab's user when there is none, has the
  session's tenant, unless a request that will read it is still to come (`LastIs`,
  `Will`); and while what the user chose stands, at most one own request is under way,
  and it, or the page the tab is on, aims at what was chosen (`Want`: `Chosen`,
  `Bounced` or `Rest`). Others' steps are shown to leave all that alone (`Foreign`),
  one's own to move it on (`Moves`, `Carries`), and the configuration page's watcher is
  taken case by case (`RenderCases`).

  At the end `Bootstrap`: `ConfiguredAreSeeded` needs only that every wizard past its
  transaction has an admin in its database. `StoresAreOne` (`StoresAgree`) needs
  `OneDatabase`: without overlapping setups there is one wizard, and what is being
  opened or already open is on the configured one (`OnConfigured`: the file's or, without
  a file, the environment's); and `Down`, that a process that
  does not serve has nothing open.
* **IngestionProofs.** `Spaced` (`RemediationsSpaced`) holds although the lookup and
  the record are two awaits, because a queue gives one active job at a time
  (`OneActive`) and only a stopped worker's jobs stall. `Remembered` says that what a
  worker queued is not newer than what it remembers, `Cleared` that a job past its
  lookup is a cooldown later than that. At the end `AutoFix`: `OneFixPerService` and
  `FixingIsLocked` hold because the lock has one owner at a time: first the handler
  that took it, then the command it sent. `LockInv` says so for the three pairs (two
  handlers, handler and command, two commands), that every owner finds the lock taken,
  and that the label still names the owner's service unless that service, and the one
  it names now, were disturbed by a rename. The last part is needed because the ack
  releases the lock of whatever the label names.

Every safety property that a run checks is proved. `BackpressureBound` and the types
of `CommandChannel`, `AgentSession`, `Bootstrap`, `Ingestion`, `Registry` and `Deploy`
are proved and in no run.

Only model-checked: the liveness properties (`QueuedIsReplayed`, `ResultSettles`,
`SessionEndIsFollowedUp`, `BuildsEnd`, `PushesArePolled`, `LockReleased`, `FixEnds`,
`StatusCatchesUp`, `OldNamespacesGo`, `PermittedGetThrough`, `BootPublishes`,
`SwitchesEnd`, `IncidentsRemediated`, `Reaped`), because TLAPS proves neither fairness
arguments nor ENABLED.

## Plan

1. `Deploy` with two agents and no shared environment, for liveness, if the run can
   be made to fit.
2. Composition: `AutoFix` and `Deploy` take their delivery from `CommandDelivery`,
   which `CommandChannel` implements.
3. Dependency cycles in `Builds` as a bounded run of their own.
4. Supervisor and tailer, if a property worth its run is found.

## Not modelled, and why

* Agent load balancer: renders snippets and reloads nginx under one mutex, best
  effort; its failure changes no state that a deployment depends on.
* Log tailing and shipping: frames that nobody acknowledges. Without a promise of
  delivery there is nothing to state beyond the bounds of buffers.
* Process supervision: restart budgets under one mutex; no other component takes part.
* Kubernetes operator: a reconcile loop over objects of a cluster whose caches and
  conflicts a model would have to invent. The API sees its enrollment, which `Accounts`
  has.
* Samplers, metrics, the UI's telemetry subscriptions: periodic readings.
* Pages of the web console other than those that set the tenant: they show what they
  fetched, and have no state that outlives them.
* OAuth and GitHub, policies, the SSRF filter, text generation: functions of one
  request.
* Fix plans, archives and toolchains of the executor: external programs whose result
  `AutoFix` sees.
* Deleting services and agents: rows go by cascade, and nothing is sent to agents, so
  what runs stays until an operator removes it.
