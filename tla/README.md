# Verification of tidefly-plane

tidefly-plane is a self-hosted container platform: a Go process that keeps
services, projects and worker nodes in a PostgreSQL database, runs containers
through Docker or Podman, registers their routes in Caddy and talks to agents on
other machines over gRPC. Long operations are jobs of the River queue; periodic
jobs and one goroutine repair what has drifted.

This directory holds TLA+ modules of the parts in which several actors work on
the same state, the configurations with which TLC checks them, and theorems that
TLAPS proves of them for every value of their constants. Paths below are
relative to `src/internal/`.

## 1. Inventory

### Components

| component | source | state | operations | what makes it correct |
|---|---|---|---|---|
| service manager | `manifest/manager.go` | rows of `services` | Create, Update, Delete, Redeploy: write the row and insert a job | a job that cannot be inserted leaves no row that nobody works on |
| service jobs | `jobs/service_workers.go` | row, containers, route | deploy, redeploy, update, delete, heal, health check, autoscale | no interleaving loses the container of a service, revives a deleted one, or leaves its container or route behind |
| manifests | `manifest/resolver.go`, `adapter.go`, `converter/`, `template/` | `manifest_json` of the row | convert, validate, resolve; four writers change the stored one | what is stored can be deployed again and bears the name of its row |
| blue-green deployment | `jobs/deploy_helpers.go` | containers of two slots, `active_slot`, route | create slot, wait, switch, remove old, store slot | users reach the old version, then the new one; a failed deployment changes nothing; one slot is left |
| reconciler | `reconciler/` | snapshot of all rows, list of containers | every 30 s: heal, scale up, scale down, rolling update | it brings back what is missing, does not fight the other loops, and never serves with fewer replicas while it updates |
| job server | `jobs/server.go` | River tables | retries, discards, periodic jobs | a job is tried again after a crash |
| container events | `jobs/events_webhooks.go` | stop tracker | an unexpected exit enqueues a heal job | an exit on purpose does not |
| system jobs | `jobs/system_workers.go`, `jobs/update_check_worker.go` | none | clean-up, retention, digest poll, version check | the clean-up spares what is used |
| container API, exec | `container/` | status of the row, shell sessions | start, stop, restart, resources, shell | the status agrees with what the runtime does; a session ends |
| container runtime | `infra/runtime/` | containers, images, networks, volumes of the engine | create (pull, force-remove the name, create, start), stop, delete, rename, limits | what is answered without an error is done |
| Caddy client | `infra/caddy/client.go`, `infra/ingress` | ordered routes | bootstrap, add, remove, update (remove and add) | requests go where the last call wanted them |
| agent server | `agent/server.go`, `agent/registry.go` | connection by worker, pending commands, log streams, rows of `worker_nodes` | Connect, heartbeat, Send, StreamLogs, revoke, delete | a worker with a stream is reachable; every command returns; the receive loop never blocks |
| agent client | `agent/client.go` | none | deploy, start, stop, scale and update on a worker | old commands do no harm |
| enrolment and CA | `platform/ca/`, `agent/tokens.go`, `agent/service.go` | one-time tokens, certificates | issue, use, renew, revoke | a revoked worker gets no certificate; certificates are renewed in time |
| sessions | `auth/`, `admin/` users | users, refresh tokens, cookies | register, login, refresh, logout; administration | no session for an account that is off; tabs do not log each other out |
| log monitor, notifications | `logmon/`, `notification/` | streams, watched containers, seen lines, notifications | poll, watch, upsert, acknowledge | one stream per container; an error is not announced over and over |
| log | `platform/logger`, `log/` | rows of the log | store, follow | no row is shown twice |
| self update | `system/update.go` | containers of the plane, of the interface and of Caddy | pull, rename, replace | a plane runs at the end |
| webhooks | `webhook/` | webhook, deliveries | receive, update, rotate, delete | only admitted requests become jobs |
| backup | `backup/` | configuration, records, objects | dump, restore, link | a restore brings back the service's own data |
| event bus | `platform/eventbus/`, `ws/` | subscribers | publish, subscribe | a slow subscriber stops nobody |
| stacks | `deploy/` | stacks | deploy, destroy | nothing calls it |

The remaining packages (access checks, git integrations, projects, dashboards,
settings, metrics) answer one request with one read or write and are listed with
that reason in `PROJECT.json`.

### Interactions

- Handlers and jobs share the row of a service; a job reads it once, works for
  seconds or minutes and writes columns with `UPDATE ... WHERE id`. There is no
  lock and no version column. Four writers also share its manifest: each reads
  the whole of it, changes a part and writes the whole back.
- Jobs, health check, autoscaler, reconciler and clean-up share the containers.
  `CreateContainer` force-removes a container of the same name first, so an
  actor can replace what another has just built.
- Jobs, handlers, the blue-green deployment and the start of the plane share the
  routes in Caddy; a new route is put at the number of routes that was read a
  call before.
- The container event stream calls back into the job queue.
- gRPC handlers, HTTP handlers and jobs share the registry of agent
  connections, and the goroutines of one connection share its maps. A command
  that has timed out may still be carried out.
- Requests of one browser share its cookie; administrators change accounts while
  those are used; a revocation runs beside registrations and renewals.
- The goroutines that a log line starts share the table of notifications.

### Hard behaviours

Stale reads across long steps, healers that overlap with jobs and each other,
crashes between two writes, retries that meet the traces of the first attempt,
calls that fail half way, streams of one worker that overlap, answers after a
timeout, channels that are closed while somebody sends, requests of several
statements without a transaction. `PROJECT.json` "hazards" lists them at their
lines.

## 2. Modules

| module | models | composed with |
|---|---|---|
| `ServiceLifecycle` | one service: API calls, all five jobs, health check, reconciler, exits and crashes | |
| `BlueGreen` | blue-green deployments of one service beside health check and reconciler | implements `Rollout` |
| `Rollout` | what a blue-green deployment promises to users | |
| `Replicas` | the replicas of one service: reconciler, autoscaler, health check, redeploy, update, clean-up | |
| `Manifests` | what users post, the manifest made of it, and the writers of the stored manifest | |
| `ImageUpdates` | digests, drift and the rolling update of the reconciler | |
| `RemoteService` | a service on a worker: the jobs' branches for it, and commands that come late | |
| `AgentRegistry` | overlapping connections of one worker, its registry entry and row | |
| `WorkerConn` | the commands and the log stream of one connection | |
| `Enrolment` | registration tokens, certificates, revocation and the renewal job | |
| `Sessions` | accounts, refresh tokens, access tokens, the cookie | |
| `Webhooks` | one webhook, its requests and its editors | |
| `LogMonitor` | one container's streams, alerts and notifications | |
| `Journal` | the log in the database and its stream | |
| `ExecSession` | a shell session: read pump, reader, writer, process | |
| `CaddyRoutes` | the ordered routes and the calls that write them | |
| `SelfUpdate` | the update of the plane's own containers | |
| `Backup` | configuration, backups, restores | |
| `Runtime` | calls of the runtime and the clean-up job, request by request | `DockerDriver`, `PodmanDriver` over `Engine` |
| `DockerDriver`, `PodmanDriver` | what each driver makes of an answer | instances in `Runtime`, over `Engine` |
| `Engine` | the container engine as the drivers use it (external) | |
| `MCBlueGreen`, `MCAccess`, `MCWork` | several instances of the modules above in one model (section 3) | |
| other `MC...` | one instance for TLC | extend the module |
| `ServiceLifecycleProofs`, `ReplicasProofs`, `AgentRegistryProofs`, `WorkerConnProofs`, `BlueGreenProofs` | theorems of one module | extend the module |
| `DeploymentProofs`, `AccessProofs`, `WorkProofs` | theorems of the models with parts | extend `MCBlueGreen`, `MCAccess`, `MCWork` |

In every module an action is one database or runtime call, with the decisions
that the code takes on its result before the next call: this is the granularity
at which other actors can come in between. Time is nondeterministic: a sleep, a
cooldown or a timeout may be long or short (in `Enrolment` days are counted).
Data is reduced to what the guards look at. `PROJECT.json` "map" gives the lines
of every definition.

### ServiceLifecycle

State: `row` (phase, status, whether a manifest is stored, whether
`updated_at` is older than ten minutes), `ct` (the container named after the
service: absent, created, running, down), `route`, a bounded job table `job`,
the progress of health check, reconciler and container API with the decisions
they have taken on what they read, budgets for calls and failures, and the
history variable `raced`.

A job goes through the stages of its `Work` method: `queued`, `loaded` (row
read), `removed` and `cleared` (containers removed, then the force-remove
inside `CreateContainer`), `started`, `routed`, and ends with the commit. A
failure increments `tries` and puts it back to `queued`, or discards it after
`MaxTries`. `PlaneRestarts` puts running jobs back and forgets the two loops.
`HcList` and `RecDiff` take the decision of the code on a listing and remember
it; the container may have changed when they act on it.

One replica, the default strategy and a service on the plane itself:
`Replicas`, `BlueGreen` and `RemoteService` relax this.

### BlueGreen and Rollout

State: `row` (status, `active_slot`, stored and requested version), `box` (the
three names a service can have, with the version inside), `upstream` (where the
route leads), the progress of each redeploy job, health check and reconciler.
`Unroute` and `Route` are the two halves of `UpdateRoute`. `RollBack` is
assumed to succeed in deleting the new slot. `Rollout` has two variables, the
version users reach and the candidate; `BlueGreen` implements it with the
version behind `upstream` and the version in preparation (`KeepsPromise`).
`reconciler/bluegreen.go` has the same steps in the same order, but is reached
only by an image drift that the code cannot find (section 6).

### Replicas

State: `row` (status and desired replicas), `box[n]` for the container with
number `n` (1 is the plain name, n the suffix `-n`), the progress of the five
actors, and `picked[a]`: a scale down keeps the id of its container, so
`picked` becomes `Gone` when that container is removed, and a new one with the
same name is not hit. The reconciler counts all containers for the number of a
new one and picks the last of all; the autoscaler counts the running ones and
spares the plain name. The health check keeps one status per service, that of
the container listed last, and the order of a listing is not defined: `HcList`
may act on any container. Load and cooldowns of the autoscaler are
nondeterministic. Names sort by number up to 9, hence `MaxNumber <= 9`.

### Manifests

What a user posts is one of the kinds of the converter, a manifest among them
being a plain one with one thing out of the ordinary (`Documents`): a name, a
restart policy, an image and a build, a scaling section. `Validates` and
`Resolve` are the checks and defaults of the resolver. A job holds the manifest
it has read or made; `patch` is the handler of `PATCH resources`, which checks
nothing. `boxes` remembers for which row a container was made.

### ImageUpdates

A digest is the number of a published image. `poll` reads the row and asks the
registry, `rec` is the loop of the reconciler with the replicas it still has to
replace: a set, as the order in which the engine lists them is not defined.
`floor` is the history variable of the property: what ran when the update began,
less what has exited by itself.

### RemoteService

`inbox` holds the commands on their way; `Lose` makes the caller go on with an
error, and the worker may carry the command out afterwards. `tracker` is the
autoscaler's memory. The type invariant carries the claim that a worker never
has more copies of the service than the manifest allows, which depends on every
decision that precedes a command. A minimum that is not positive is taken for 1
by the resolver, hence `AsMin >= 1`.

### AgentRegistry and WorkerConn

`AgentRegistry` has `handler[s]` for each call of `Server.Connect` at work:
`found` (row read), `greeting` (registered), `saved` (hello stored), `loop`,
`recv`, `leaving`, `closing` (the two deferred calls), `done[s]` for its done
channel, `registered` for the entry of the worker, `node` for its row, and the
two steps of an admin's delete. The worker dials again when it has lost its
stream; the plane notices later.

`WorkerConn` refines one connection: `Send` in the steps new, sending, waiting,
leaving, returned; the receive loop looks a channel up under the lock and sends
to it after the unlock; the log stream has an open or closed channel of bounded
capacity. The worker answers a command once: with `MaxAnswers = 2` the second
answer can block the loop, as the channel has room for one and the agent
controls it.

### Enrolment

A registration is the four statements of the handler (`token`, `consume`,
`issue`, `create`), a renewal request those of `RenewCert`. Certificates are a
sequence in the order of their ids with owner, last day, revocation and
successor. The renewal job takes its list first and then issues and links one
successor after the other; it may fail on one, and the plane may crash between
issue and link. `missed` counts the days since the job last went through.

### Sessions

Requests are the steps of the handlers between two statements: `count` and
`create` of a registration, `find`, `revoke` and `issue` of a refresh, `answer`
and `clear` for the two kinds of answers, `save` of an administrator's update
with the row that it read. Access tokens are claims that the middleware believes
until they expire. One browser with one cookie sends all requests; answers come
in any order or are lost. `spent` (tokens whose successor reached the browser),
`off` and `signedOut` are history.

### Webhooks

`calls[c]` is a received request: the row it read, then verify, compare, store a
delivery, insert a job, note the result. The client may go away, which cancels
the context of the last three. `Admits` says what secret, filter and switch
make of a request at one moment; `admitted` remembers whether there was such a
moment before the row was read.

### LogMonitor and Journal

`LogMonitor`: a poll reads the status and acts on it under the lock in a later
step; a stream has a position in the log and a place in a block; `Emit` starts
two goroutines, one that counts (`Upsert`) and one that sends (`IsNew`, then the
channel), with users between them. `Journal`: levels as the code compares them,
a goroutine per row, ids taken before the row becomes visible, the poll of the
stream by `lastID`.

### ExecSession

The read pump feeds `queue` and blocks when it is full, the two goroutines of
`ExecAttach` put one result each into `errs`, and `Await` returns at the first
or when the request's context ends. Closing the connection to the shell is what
ends the other goroutine.

### CaddyRoutes

`task[i]` is the call in progress for the route with id `i`: PATCH, and if that
fails count and PUT at the count. `asked` is where the last task that succeeded
led the route, `mishap` that a PATCH or count failed although the route or the
list was there (the code takes both for "not there"). A PATCH or DELETE of
`/id/...` touches one route with that id, whichever the admin API finds; a PUT at
an index inserts (`WithRoute`).

### SelfUpdate

`boxes` is every container created, with name, state and image; an update is a
sequence of requests to the engine, whose errors are mostly ignored, and for the
plane ends the process it runs in. `MaxRunning` is the number of updates at the
same time (section 6).

### Backup

A backup takes the bucket and the key, dumps, uploads and stores its record; a
restore reads the record and looks for its key in the bucket configured then.

### Runtime, drivers and Engine

`Runtime` sends one request per step and gives the answer to the driver, an
operator from stage and answer to the next stage. An answer is a code or lost;
a request that was lost may have been carried out. `done` says whether the
engine did what the call promises. The clean-up job lists and removes containers,
images and volumes beside the calls.

## 3. Runs

| run | question | result |
|---|---|---|
| `lifecycle_safety` | Do types, clean deletes, the container and the deletion survive two concurrent jobs, all loops, three calls and one failure? | holds |
| `lifecycle_progress` | Does a delete end and a lost container come back, with one failure or crash? | holds |
| `lifecycle_stuck_deploying` | Is a row stuck in `deploying` healed? | violated |
| `bluegreen` | Does a deployment implement `Rollout` (scene `alone`), end with one slot in spite of crashes and a failed call (`crash`), and do the healers beside it bring a container back (`heal`)? | holds |
| `bluegreen_crash` | Is the live slot kept by a retry after a crash? | violated |
| `replicas_scaling` | Do reconciler and autoscaler keep a replica up, overshoot by at most one (in both cases while nothing fails), and settle on the desired number? | holds |
| `registry_streams` | Is the registered connection served and open, and does a worker come back? | holds |
| `registry_evicted` | Is a worker with an active stream connected? | violated |
| `conn_commands` | Does every command return, and does the receive loop go on? | holds |
| `conn_logs` | Is a log line ever sent to a closed channel? | violated |
| `platform_access` | What may users, workers and git providers do, and what are users shown (see below)? | holds |
| `platform_work` | What does the plane do to containers, images, routes and stored data (see below)? | holds |

Components that share no state and do not call each other show nothing by
interleaving. `MCAccess` and `MCWork` therefore take instances of several
modules into one model: the variable `part`, chosen at the start, says which of
them a behaviour is one of, and the variables of the others are `"off"`. The
state space is the sum of those of the parts, not their product. `MCBlueGreen`
does the same with three instances of `BlueGreen` over the same variables and
the variable `scene`. All constants of the three are set in the configurations,
so that the theorems about them hold for any values.

| property of `platform_access` | part | question |
|---|---|---|
| `OffAccountsGetNoSession` | `sessions` | Can a request open a session for an account that was off from its start to its end? |
| `TabsKeepTheSession` | `sessions` | Can tabs that refresh at the same time log the browser out? |
| `RenewalMargin` | `enrolment` | Does every certificate in use keep its margin, less one day for each that the job has missed? |
| `NoCertAfterRevocation` | `enrolment` | Is a certificate issued on a request that came after the revocation? |
| `JobsWereAdmitted` | `webhooks` | Is there one moment at which secret, filter and switch admitted each delivery that became a job? |
| `OneFollower` | `alerts` | Is a container followed by one stream, the one that can be cancelled? |
| `AnnouncedAtMostTwice` | `alerts` | How often is a repeated error sent? |
| `RowsSentOnce` | `journal` | Is a row of the log sent twice or out of order? |
| `SessionEnds` | `exec` | Does a shell session end when its client, its process or the plane ends it? |

| property of `platform_work` | part | question |
|---|---|---|
| `RequestsGoWhereAsked` | `routes` | Do routes of the dashboard and of services stay in order while tasks interleave? |
| `PlaneStaysUp` | `selfupdate` | Does a healthy plane run, however an update and its calls end? |
| `TypeOK` (of `RemoteService`) | `worker`, `autoscale` | Can old commands make more copies than the manifest allows? |
| `RestoresItsOwnService` | `backup` | Does a restore put data of another service into a database? |
| `UpdateKeepsServing` | `images` | Does a rolling update lower the number of running replicas? |
| `AnsweredOkIsDone` | `runtime`, `twocalls` | Has the engine done what a driver answers without an error? |
| `CleanupSparesWhatIsUsed` | `runtime`, `twocalls` | Does the clean-up remove what is used? |
| `ManifestFitsItsRow` | `deploys`, `names` | Does a stored manifest resolve, need no build and bear the name of its row? |

`CHECK_DEADLOCK FALSE` is in every configuration: the users' calls, failures
and crashes have budgets, and when they are used up a system without a loop
that runs for ever has nothing to do.

Each property of a passing run has a mutant (`Mut_...`, next to the definition it
replaces) with a plausible bug of that code, for which the run fails.

Bounds and why they are enough:

- *Two jobs* (`lifecycle_*`): every pair of kinds can overlap, in every order,
  beside both loops and a container call. A third job would only add a third
  copy of the same kind of stale row; the theorems of section 5 cover any
  number.
- *Two attempts* (`MaxTries`): a retry that meets the traces of the first, and
  the discard after the last.
- *Three calls* (create, and two that overlap), *one failure or crash* at any
  step. `NoLostContainer` was also run with four calls and no failure.
- *Four versions, two exits*, and in the scene `crash` *two crashes and one
  failure* (`bluegreen`): three deployments use both slots twice; two crashes
  hit one deployment twice or two in a row. The scene `heal` has one deployment
  with one event of each kind: the healers multiply its states.
- *Three replicas, six numbers, three disturbances* (`replicas_scaling`): the
  last number is free for overshoot and gaps; three disturbances are an
  update, a decision of the autoscaler and an exit or a failing call, or three
  decisions in a row. The overshoot reaches its bound: the autoscaler
  removes a replica and adds one again while the reconciler, which has counted the
  one that was down, adds another. The bound is claimed while no container exits
  and no call fails, as the reconciler takes the number of a new replica from a
  count of all containers, and every one that has exited raises it by one.
- *Three handlers* (`registry_streams`): a handler can evict one that evicted
  another.
- *Two commands, one answer each, two log lines, a channel of one*
  (`conn_commands`): an answer after the timeout, a full channel, a lost stream
  with both commands in flight.
- *Two requests* (`Sessions`, `Enrolment`): two tabs, or a request beside an
  administrator's. There are two accounts, one of which may be made while the
  other is used, and two tokens, so that both tabs can be at the same one; the
  theorems cover any number.
- *Certificates of three days that are renewed two before their end, five days,
  three certificates, one crash* (`Enrolment`): a certificate is renewed in time,
  a day late, and in the run after a crash between issue and link.
- *One request, two editors, three filters, two secrets* (`Webhooks`): the two
  members can change two of secret, filter and switch around the reading of the
  row. Requests do not influence each other but for `last_status`; the theorem
  covers any number.
- *Two lines of three kinds, two streams* (`LogMonitor`): a stream that was
  cancelled and is still reading beside its successor, a repeated error, and a
  block of lines that is one error. The theorems cover any number.
- *Three entries, two streams* (`Journal`), *three messages over a queue of one*
  (`ExecSession`): the queue is full while the reader waits.
- *Two services, three tasks, two starts, one failing call* (`CaddyRoutes`):
  two tasks overlap, and a start throws their routes away.
- *Four containers, two failing calls, one update at a time* (`SelfUpdate`): the
  old, the new and both renamed. With two updates at a time the property fails
  (section 6).
- *A queue of two commands, two losses* (`RemoteService`): an old command
  overtakes two decisions.
- *Two backups in two seconds, two buckets, one failure* (`Backup`).
- *Two replicas, three failures, two images* (`ImageUpdates`): one replica is
  replaced while the other exits, and a new one that is not healthy.
- *Three containers, two images, one lost request* (`Runtime`): every operation
  alone on both drivers; and two that overlap on one name.
- *One row with two jobs and one edit; two rows of one name* (`Manifests`).

Where one component is split into two parts the part bounds more than the
constants do: `EveryCommand` and `OldCommands` (`RemoteService`), `OneCall` and
`FewAsked` (`Runtime`), `OneRow` and `TemplatesAlone` (`Manifests`) of `MCWork` are
conjuncts of the parts' steps. `platform_work` has 602 252 distinct states,
`platform_access` 1 458 283.

## 4. Fairness

- A job that River has fetched goes on, and one that waits is fetched (weak
  fairness of the steps of a job): River polls with several workers and retries
  after a crash (`jobs/server.go`).
- The reconciler runs every 30 s in a goroutine that ends only with the plane
  (weak fairness of all its steps, including the start of a pass).
- Health check and autoscaler carry fairness only inside a pass. Their jobs are
  periodic with `UniqueOpts` by arguments, so the start of the next one depends
  on the queue; no property needs it.
- Ten minutes pass (`TenMinutesPass`), a container call returns.
- In `AgentRegistry` the worker dials again (`Lookup`, the loop of the agent),
  a handler goes on, and a stream is lost at some time (keepalive). A worker
  need not survive.
- In `WorkerConn` a `Send` goes on: the send itself, then the timeout, which
  is always there; the receive loop handles a message that it has taken. That
  the worker answers is *not* assumed.
- In `ExecSession` the goroutines go on when they can, the engine answers the
  requests that open a session, and a connection that is closed ends the calls on
  it. That the client leaves, the process ends or goes on reading is *not*
  assumed.
- In `MCBlueGreen` and `MCAccess` the same fairness is asked of the steps of the
  scene or part; the parts without a liveness property carry none.
- Exits, failures, crashes and users carry no fairness.

## 5. Proofs

TLAPS proves, for every value of the constants allowed by the assumption that
each module names:

| theorem | says |
|---|---|
| `TypeCorrect`, `RegistryTypes`, `ConnTypes`, `ReplicasTypes`, `SceneTypes`, `AccessTypes`, `WorkTypes` | the state is well typed; for `RemoteService` that includes the number of copies on a worker |
| `RemovedForGood` | no actor revives a deleted or purged service |
| `ContainerIsNotLost` | a deployed service has a container when nobody is at work and no call has failed |
| `DeleteIsClean` | a delete that nobody disturbed leaves neither container nor route |
| `RegistryIsServed` | the registered connection is served and its channel open |
| `PendingIsInFlight` | the pending map holds the commands in flight only |
| `ScalingIsSafe` | scaling leaves a replica running |
| `OvershootIsOne` | scaling and rebuilds start at most one replica too many while nothing exits or fails |
| `ScenesKeepPromise` | one deployment at a time implements `Rollout`, over any number of versions and exits |
| `OneSlotIsLeftInScenes` | a deployment that succeeds leaves one slot, after any number of crashes, exits and retries |
| `NoSessionForOffAccounts` | a request that finds the account off throughout opens no session |
| `TabsStaySignedIn` | refreshes that overlap do not log the browser out |
| `CertificatesHaveTheirMargin` | a certificate in use has its days left, less those the job missed |
| `RevokedWorkersGetNoCertificate` | no certificate on a request that came after the revocation |
| `DeliveriesWereAdmitted` | a job exists only for a request that the webhook admitted at one moment |
| `OneStreamFollows` | one stream follows a container |
| `RepeatsAreAnnouncedTwice` | a repeated error is sent at most twice |
| `JournalRowsSentOnce` | a row of the log is sent once, in order |
| `RoutesLeadWhereAsked` | dashboard and services keep their routes while tasks interleave and no call fails |
| `RestoresGoHome` | a restore writes only data of its own service |
| `UpdatesKeepServing` | a rolling update leaves no fewer replicas running than it found |
| `ThePlaneStaysUp` | a healthy plane runs, however an update ends |
| `AnswersAreTrue` | what a driver answers without an error is done |
| `CleanupIsHarmless` | the clean-up takes nothing that is used |
| `StoredManifestsFit` | a stored manifest resolves, needs no build and bears the name of its row |

So every invariant that a run checks is a theorem of the same specification, and
so are the action properties and the refinement.

Assumptions: each module names one (`LifecycleAssumption`, `ReplicasAssumption`,
..., `ManifestsAssumption`), and the models with parts take the conjunction of
those of their parts (`ScenesAssumption`, `AccessAssumption`, `WorkAssumption`).
They state only that sets of slots are finite where they are counted, that
bounds are natural numbers (some of them at least one), that numbers of
containers have one digit, that an autoscaler has a minimum of at least 1, that
kinds of lines, of operations and of edits are among those named in the module,
and that a webhook may have no filter. Three theorems have a premise of their
own. `ScenesKeepPromise` and `OneSlotIsLeftInScenes` are about one deployer; with
two the code does not keep the claim (`LiveSlotIsKept` in section 6). In the
scene of the refinement no call fails and the plane does not crash, as `Rollout`
promises nothing of that (the violated run `bluegreen_crash` shows why), and
`OneSlotLeft` itself excludes behaviours in which a call has failed.
`ThePlaneStaysUp` is about one update at a time (`MaxRunning = 1`), as with two the
property fails (section 6).

Arguments:

- *ServiceLifecycle.* `NoLostContainer` is not inductive: when the container is
  absent in the middle of a rebuild, nothing says that the rebuild goes on.
  `IInv` adds that somebody who has removed the container has yet to create it
  (`MissingIsReplaced`), which holds because a job past its load, or a loop
  past its decision, holds a manifest (`JobsHoldManifest`) and cannot give up
  without a failure. For `CleanDelete` it adds that a delete job which is alone
  stays alone (`DeleteIsAlone`): the other actors have to find the row first,
  and it is filtered out or gone. What it has cleaned then stays clean
  (`CleanedStaysClean`). `RemovedForGood` needs no more than types: every write
  goes through an `UPDATE` that finds no row.
- *Replicas.* The number of a new replica is a count of at least one plus one,
  and the last of at least two names is not the first, so no scaler ever
  touches the plain name (`ScalersSparePlainName`). Hence the plain name is up
  or somebody rebuilds, and a rebuild that ends has started it or has found its
  name taken by one that another rebuild started (`PlainNameIsUp`). For the
  overshoot it is not the count that is bounded but the numbers: a container that
  is down is one that a scaler is about to delete (`DownIsPicked`), so while the
  reconciler decides there is at most one, and the number it takes is at most two
  above the count of those that run, which lies below the maximum (`NumbersAreLow`).
- *AgentRegistry.* Register happens at the start of a handler and Unregister
  removes the entry before it closes the channel, under one lock.
- *WorkerConn.* Send adds its entry before anything else and the deferred
  delete comes after every way to leave.
- *BlueGreen.* `Faithful` says, stage by stage, where the route leads and which
  version is in the slot it leads to: until the switch it leads to the slot of
  the row, in which an older version is; the job works with the slot it has read,
  which is still that of the row; after the switch it leads to the new name, in
  which the requested version is. Each step of a deployment then is a step of
  `Rollout` or a stutter. `Tidy` says, stage by stage, which containers there
  may be besides those of the two slots, and that the row is not `running`
  before the job ends: a retry after a crash finds one of these stages again.
  `MCBlueGreen` takes instances of `BlueGreenProofs`, so that `DeploymentProofs`
  uses these lemmas in each scene.
- *Sessions.* A request that began with an account that is off stays at `find`,
  and the account stays off (`Watched`). For the tabs, `Tabs` keeps apart the
  tokens that are in the jar, those that are on their way and those that are
  spent, and says that nobody refreshes with one that has not arrived.
- *Enrolment.* While the renewal job runs, a certificate in use that is not, or
  no longer, on its list has its full margin; the one it has just issued is the
  successor of one on the list. The margin of a day then follows from that of the
  day before. No request that was late passes the lookup of the worker.
- *Webhooks.* `Judged` follows a request: when the row is read, what it admits
  is what `Admits` says of that moment, and a request gets past the judgement only
  if the row it holds admits it.
- *LogMonitor.* A stream that is not cancelled is the one in `watching`
  (`OneFollower` itself is inductive with the types). For the messages,
  `Accounted` keeps a balance of each alert: at most one goroutine counts and
  one sends, nothing is sent of a row that was not counted, and as long as the
  counter is one, messages sent and under way are at most one.
- *Journal.* What a poll has found lies above `lastID`, what was sent not above
  it.
- *CaddyRoutes.* `DashboardInv`: while the plane registers its routes no service
  has a task, they come one at a time, and the one that takes every path comes
  last. `RoutesKept`: while no PATCH and no count has failed, a task that is past
  its PATCH has no route yet, so that a PUT makes no second one, whatever the
  count says by then; the other tasks move the route of a service, but it still
  leads where it led. The lemmas `RouteInserted`,
  `RouteRemoved` and `RouteReplaced` say what the three calls make of a list.
- *SelfUpdate.* With one update at a time, `PlaneInv` says of each stage which
  container has which name: the old plane keeps its own until the new one is
  healthy, and between the two renames the new one, healthy, is still called
  green (`StageOK`).
- *RemoteService.* A command to autoscale asks for at most the maximum whenever
  it was sent (`InRange`), and no other command raises the number of copies above
  one.
- *Backup.* Key, dump, record and object agree on their service from the first
  request of a backup on.
- *ImageUpdates.* `Serving` counts beside the update: after the new replica turned
  out healthy one more runs than before, and the one that is removed is not
  counted.
- *Runtime.* An answer that is not lost and has a good code comes from a request
  that was carried out (`IsAnswer`); the stages of an operation after the one that
  does its work keep `done` (`Carried`). For the clean-up, each of its requests
  looks at the engine again, or is refused by it.
- *Manifests.* A stored manifest passes `Validates` and needs no build (`Fits`), and
  so does every manifest under way. The name holds because a row has one deploy
  job, the only one that renames it (`OneDeploy`), and because the manifest that a
  job or a PATCH has read and will write back bears the name which the row has, or
  which that deploy job will give it (`Fitting`, `Agrees`). Which
  service of a larger stack is deployed depends on the order of a Go map and may
  differ when the job runs again, so the claim about names is made of rows of one
  service (`Single`).

Model-checked only: the liveness properties (`DeleteCompletes`, `SelfHeals`,
`DeploymentsEnd`, `ContainerComesBack`, `SettlesOnDesired`, `ComesBack`,
`SendReturns`, `LoopKeepsReceiving`, `SessionEnds`), as TLAPS does not reason about
`ENABLED` and fairness.

## 6. What the checks found

Four runs show a disagreement with what the code or its documents say
(`PROJECT.json` "findings"):

- **A redeploy that cannot be queued.** `Manager.Redeploy` sets `deploying` and
  then inserts the job; when that fails, the row stays so for ever, as
  `reconcileAll` filters such rows out before the branch for them
  (`reconciler.go:88`, `:192`), and the health check skips them while their
  container exists.
- **A crash between switch and store of the slot.** The retry reads the old
  `active_slot`, takes the live slot for the free one and force-removes it.
- **An old handler evicts a new stream.** `Unregister` goes by the worker's id.
- **A send to a closed log channel**, which panics, when a log request ends
  between the lookup and the send of a line.

Further claims that the code does not keep are stated in the modules. They are
not among the runs; each is found violated by TLC within seconds with the given
specification and constants, other bounds 0 and one job or stream:

| claim | module | with | what happens |
|---|---|---|---|
| `PurgeSparesDeploys` (changelog.md:67) | ServiceLifecycle | `Spec`, `MaxCalls=2`, `MaxTries=1` | the health check purges the row of a first deploy at work, which has no manifest before its commit |
| `DeletedHasNoRoute` (changelog.md:121) | ServiceLifecycle | `Spec`, two jobs, `MaxCalls=2` | a deploy job adds the route after the delete job removed it |
| `CreatedContainerIsStarted` (reconciler.go:46) | ServiceLifecycle | `FairSpec`, `MaxFaults=1`, `MaxCalls=2`, `StartFaults=TRUE` | a container that was created but not started counts as recovered for every healer |
| `AlwaysRouted` (reconciler/bluegreen.go:13) | BlueGreen | `DeploySpec`, `MaxVersion=2` | `UpdateRoute` removes the route first |
| `RolledBackIsRouted` (deploy_helpers.go:75) | BlueGreen | `DeploySpec`, `MaxVersion=2`, `MaxFaults=1` | the second half fails and the old route is gone |
| `LiveSlotIsKept` (reconciler/bluegreen.go:18) | BlueGreen | `DeploySpec`, two deployers, `MaxVersion=3` | two redeploy jobs read the same active slot and build the same new one |
| `RecoveredIsReachable` (reconciler.go:227) | BlueGreen | `FairSpec`, `MaxVersion=2`, `MaxExits=1` | a healer builds the plain name, the route leads to the slot |
| `ReplicasConverge` (reconciler.go:45) | Replicas | `FairSpec`, as `replicas_scaling` with `MaxEvents=2` | after a scale down of the autoscaler beside a scale up there are replicas 1 and 3; each pass of the reconciler counts two, takes the number 3 and replaces replica 3 |
| `DeletedIsPermanent` (agent/routes.go:29) | AgentRegistry | `Spec`, `MaxCalls=1` | the handler of an older stream saves its copy of the row |
| `OneSender` (agent/registry.go:144) | WorkerConn | `Spec`, two commands, `MaxLines=0` | two goroutines are in `stream.Send` |
| `ServedCertIsValid` (platform/ca/renew.go:16) | Enrolment | `Spec`, as part `enrolment` | the job renews the row, the plane goes on serving the certificate it loaded at its start |
| `DriftIsPickedUp` (reconciler/digest.go:35) | ImageUpdates | `FairSpec`, `Replicas=1`, `MaxDigest=2`, `MaxBoxes=3` | only an update writes `deployed_digest`, and only a row that has one is found to drift |
| `PlaneStaysUp` (system/update.go:184) with two updates | SelfUpdate | `Spec`, `MaxRunning=2`, else as part `selfupdate` | each update removes the other's new container and then the old plane |
| `NamesAreOwned` (manifest/manager.go:208) | Manifests | `Spec`, as part `names` | a name is compared before a template or a stack renames the service, and `CreateContainer` force-removes the other's container |
| `PatchKeepsTheImage` | Manifests | `Spec`, as part `deploys` | PATCH writes back the manifest it read before an update stored another image |

Observed while modelling, without a property of their own:

- *Services.* A reconciler that listed the containers before a blue-green
  deployment may remove the new slot as surplus (`OneSlotLeft` fails under
  `FairSpec`, which is why it is asked of the scene `crash`); a health check that
  sees one stopped replica among several rebuilds the service with one, which the
  reconciler scales up again; a redeploy job writes back the number of replicas
  it loaded and loses an update; `removeContainers` matches by prefix and
  removes those of a service named `<name>-...` (`service_workers.go:166`); a
  domain added by an update is routed to the plain name although a slot is live
  (`:621`).
- *Manifests.* A stored manifest never names a build, so a redeploy never builds
  again what came from git or a Dockerfile (`service_workers.go:486-511` is not
  reached, although `converter/git.go:144` says otherwise); limits set by PATCH
  and resources of a manifest do not survive the next creation; the restart
  policy `no` is refused and `on-failure` becomes `always`.
- *Images.* `CreateContainer` pulls only an image that is not local, so an update
  of a mutable tag starts the old image and stores the new digest; a rolling
  update gives the containers names to which the route does not lead.
- *Runtime.* A pull that fails inside its body is taken for success, after which
  the old container is removed and the creation fails; podman's rename looks at
  no status; `exec` of docker inspects the exit code before the command has
  ended.
- *Caddy.* Every start of the plane removes all routes of services, and nothing
  adds them before the next deployment; a PATCH or count that fails counts as
  "not there" and may give a second route of one id or a route in the wrong
  place (`mishap`).
- *Workers.* Nothing sets `worker_id` of a row; a job that finds the worker
  offline starts a second copy on the plane (`service_workers.go:801`); a
  registration whose last statement fails has spent its token, and two concurrent
  registrations may use one token; every start of the plane adds a certificate that
  is renewed for ever.
- *Sessions.* `LogoutAll` beside a refresh leaves a session; an administrator's
  update saves the whole row; the first administrator is checked and then
  created; nothing calls the clean-up of tokens (`jwt.go:260` says who does).
- *Logs and notifications.* A row of the log that becomes visible after one with
  a higher id is never sent (`log/store.go:86`); the levels of the logger are
  compared the wrong way round; a container whose stream has ended stays in
  `watching` and is not followed again until it has stopped
  (`logwatcher.go:196-205`).
- *Webhooks.* No worker is registered for the job that is inserted
  (`jobs/server.go:60-72`); a payload over 64 KB fails its signature as the
  request logger hands on only the part it has read (`middleware/logger.go:80`);
  a delivery whose client goes away stays `pending`.
- *Backup.* A crash leaves a record `running`; two dumps of one service in one
  second share a key; a link and a restore look in the bucket configured now.
- *Shell sessions.* The channel of a session is never closed, so its writer waits
  for ever unless the client said `close` (`container/exec.go:31`).
- *Stacks.* Nothing calls `deploy/`.

## 7. Plan

Written: services, manifests, images, workers, enrolment, sessions, webhooks,
logs, routes, self update, backup, runtime, shell sessions; proofs about all
of them. What is left, in this order:

1. Proofs: nothing that a run checks as an invariant is left. Worth stating next:
   which of the claims of section 6 do hold under a premise (for one job, for one
   update, without failures), and what several services promise each other
   (`NamesAreOwned` for names that no template takes).
2. `StopTracker` (exits within three seconds after a stop) with a clock, and
   `EventBus` (reconnects, slow subscribers).
3. The composition of `CaddyRoutes` with `ServiceLifecycle`: a restart of the
   plane takes away the routes that its jobs rely on.
4. An abstract specification of a one-time token for `Enrolment` and `Sessions`.

Runs are few by design: a new module becomes a part of `MCAccess` or `MCWork`.

## 8. Not modelled

The byte streams of exec and logs; I/O of mail, chat and git; the collection of
metrics; the contents of templates and compose files beyond what the checks of a
manifest look at; ports, volumes, labels and environment of containers;
authorisation of single requests; the real time of the stop tracker; the event
bus, for which nothing in the plane waits; the stack deployer, which nothing
calls; generated and wiring code. `PROJECT.json` "components" gives the reason
for each.
