# Formal model of the Vortex control plane

Vortex is a platform-as-a-service on one Kubernetes cluster: an HTTP API in Go
(`src/apps/api`), a command line client and a web dashboard. This directory holds TLA+
modules that model the API's core logic, TLC configurations that check them on small
instances, and TLAPS proofs of what matters most for every value of the constants.
`PROJECT.json` maps each definition to the lines it models.

The API runs as several identical replicas. They share a Postgres database, the cluster and
a payment provider, and nothing else: no leader, no lock service, no queue. Most operations
read a row, call the cluster or the provider for seconds or minutes, and write the whole row
back. Three tickers run in every replica: the status reconciler, the hourly meter and the
usage reporter. What makes this system hard is what its unit tests reach least: copies that
are stale when they are written, tickers that race, calls whose answer is lost, and events
that arrive late, twice or in the wrong order.

## Inventory

Paths are below `src/apps/api/internal/`.

| Component | State | Operations | What makes it correct |
|---|---|---|---|
| Release history (`platform/releases.go`) | rows of an app's releases: revision, status | record, supersede, reconcile, roll back | one live release, the newest; an ended one stays ended; no deploy unrecorded |
| App lifecycle (`platform/service.go`, `platform/releases.go`) | app row, build records, Helm release, KEDA annotation | create, deploy, build, stop, start, restart, update, scale, rollback, delete | row, cluster and history agree; a stop holds; nothing is deployed unpaid; a deleted app is gone |
| Status reconciler (`httpx/server.go`) | none of its own | list, ask the cluster, write the status | converges; never overrides the user's intent |
| Hourly metering (`billing/pricing.go`) | usage records, a watermark hour | meter the hours since the watermark | each hour once, none skipped |
| Usage reporting (`billing/invoice.go`, `billing/stripe.go`) | reported-cents watermark per period | push the increment, save the watermark | nothing billed twice, nothing lost |
| Subscriptions (`billing/webhook.go`, `billing/invoices.go`, `billing/service.go`) | subscription row, processed event ids | subscribe, apply event, advance and clear dunning | the row ends up where the provider is; every event is applied once |
| Gateway listener shards (`kube/gateway_shard.go`, `kube/kube.go`) | the Gateways' listener lists | attach, remove, org wildcards, create and delete shards | limits hold; one listener per host; other tenants' listeners stay |
| Custom domains (`platform/appconfig.go`) | domain rows, certificates, listeners, routes | add, verify, attach, delete | one verified owner per host; what is served is proven; nothing is left behind |
| Sessions (`identity/service.go`, `httpx/auth.go`) | account row, refresh tokens, reset links | log in, refresh, log out, clean up, forget and reset | a token rotates once; a replay and a reset end the sessions |
| Organizations (`identity/service.go`, `httpx/projects.go`, `httpx/orgs.go`) | memberships, projects, invitations, settings | change role, remove, invite, accept, revoke, create and delete | an owner remains; only pending invitations admit; no app without a project |
| Quota, databases and services (`platform/service.go`, `platform/services.go`) | rows, releases, volumes, the namespace | create, deploy, stop, start, restart, delete | never above the plan; what runs is what the rows say; the password fits the volume |
| Backups (`kube/backup.go`) | Jobs, dump files | back up, list, restore | a success is a whole dump; clients are told their own dumps only |
| Builds (`build/kaniko.go`, `kube/buildpacks.go`) | Jobs, isolation objects, image tags | set up, submit, poll | a success is the build's own image; isolation comes first |
| Store (`store/`) | all rows, in PostgreSQL or in memory | about 110 calls | both stores agree; deleted rows stay deleted |
| Rest of the HTTP layer (`httpx/`), notifications, configuration, clients | rate-limit windows | routing, sending | outside the model, see below |

Interactions: the HTTP handlers call `platform`, `billing` and `identity`; `platform` calls
`billing.EnsureActive` before it deploys and the Kubernetes backend to do so; a deploy records
a release; the reconciler reads the cluster and writes app and release rows; the meter reads
the workloads; the reporter reads usage records and the subscription that webhooks write;
custom domains call the shard pool; databases, services and backups share the namespace that
`EnsureTenant` sets up; everything goes through the store.

The hazards, each at its line and with the properties that would catch it, are in
`PROJECT.json`. One without a property says why.

## Modules

| Module | Models | Proofs |
|---|---|---|
| `ReleaseHistory` | what the release table promises: an atomic append that ends the previous release | |
| `Releases` | the transactions, row locks, revision conflicts and retries that keep the promise | `ReleasesProofs` |
| `AppLifecycle` | one app under requests, build worker, reconciler, autoscaler and the subscription gate | `AppLifecycleProofs` |
| `Metering` | the meter in several replicas | `UsageProofs` |
| `UsageReport` | the reporter, renewals and the provider's meter | `UsageProofs` |
| `Subscription` | webhook events, dunning and subscribing | `SubscriptionProofs` |
| `GatewayShards` | the pool of Gateways under concurrent requests | `DomainsProofs` |
| `CustomDomains` | claiming, verifying, serving and deleting a host | `DomainsProofs` |
| `Sessions` | logging in, rotating and replaying tokens, resetting the password | `IdentityProofs` |
| `Organizations` | members, invitations, projects and settings of one organization | `IdentityProofs` |
| `Workloads` | databases and services under the plan and the subscription | `WorkloadsProofs` |
| `Backups`, `Builds` | the Jobs that dump, restore and build | `WorkloadsProofs` |
| `Tables` | the shape of a store's tables, and what reads and writes them | |
| `PostgresStore`, `MemoryStore` | each call of the two stores as an operator | |
| `Stores` | every call made on both stores, side by side | `StoresProofs` |

Each state machine has an `MC` module that names model values, operations, prices and
symmetry; `MCDomainsJobs` holds `CustomDomains`, `Backups` and `Builds`, which share no state:
`part` says which of the three runs. Operators whose comment says
*Mutant* are wrong versions of the definition after them. They are not part of any
specification; replacing the definition by one makes a property fail, which shows that the
property depends on that piece of the code.

### Releases and ReleaseHistory

`recordRelease` runs a transaction that marks the live releases superseded and inserts the
next revision; the unique index on (app, revision) refuses the second of two inserts and the
call is retried. A writer's steps are `Begin` (read the newest revision), `Supersede` (one row
lock at a time), `Insert`, `Conflict` (roll back, retry), `Commit` and `Error`. The reconciler
reads the current release (`ReconcileRead`) and writes it later (`ReconcileWrite`), without a
transaction, as the code does. Isolation is READ COMMITTED with row locks, as Postgres
defaults to. `History!Spec` of `ReleaseHistory` is the abstract specification; the refinement
mapping takes the committed rows as they are.

### AppLifecycle

A step is one store call or one cluster call. Every process holds `app`, its copy of the row,
and writes it whole. Build, Helm upgrade and pods are separate steps, so any operation can
meet any other half way. `sub` is the gate (`EnsureActive`, the spend cap and the workload
size check together); it may close at any moment. The cluster is external: pods become ready,
the autoscaler moves between zero and ready unless the pause annotation holds it, and a Helm
upgrade leaves an annotation it did not set. Recording a release is one step: that is what
the refinement of `ReleaseHistory` justifies. `stale` and `old` are history variables that
the properties need; no action reads them.

### Metering

Records are keyed by (org, hour, dimension) and inserted if absent; the watermark is one row
that any replica overwrites. A tick takes the hour, reads the watermark, meters hour by hour
and org by org, and sets the watermark at the end. Writes fail, ticks are interrupted and
replicas crash, `MaxFaults` times; the watermark may be unreadable at any time. Costs are
chosen anew at each write. `done` and `base` are history variables: the hours metered in full,
and where the last tick that took itself for the first run put the watermark.

### UsageReport

Amounts are in units of which `Unit` make a cent, so that rounding down happens. The provider
counts what it takes (`billed`); a call may fail before or after that, or lose only the answer,
which the HTTP client retries. `kept` is what remains of `billed` without the increments whose
answer was lost or whose call failed to save them. The provider renews at the month's end and
the webhook that moves the row comes later.

### Subscription

The provider emits events into `sent`; handlers take them in any order and repeatedly, one
store call per step: read the row, write it, mark the event. `Applied` is what each event does
to the row, with the mapping of the provider's statuses. `Strangers` are events of no known
org. `applied` and `ordered` are history variables: what had its effect, and whether in order.

### GatewayShards

Gateway 0 is the primary, higher indices are shards. A request's steps are the calls of the
API server it makes: list to find the host, list to pick a Gateway, create, read, write,
delete. The resource version is the boolean `fresh`: reading sets it, and any write or
deletion of that Gateway clears it in every other request. Which holder `shardForHost` finds,
when there are several, is left open. `emptied` keeps its value over a refused write, as the
variable captured by the closure does. The base listeners are counted, not listed. `crossed`
is a history variable: the hosts that have had two requests under way at once.

### CustomDomains

An organization has one app. A request reads its domain, looks up the TXT record, looks for
another owner, marks the domain verified (`MarkVerified`, against the partial unique index),
and then makes three calls of the cluster, each of which may fail: certificate, listener, and
the redeploy that lists the host in the route. Requests begin whatever else is under way; two
meet (`Reach`) when they are of one organization, or are about a host that the other is about or
has verified. A deploy of the app reads its verified domains
for itself (`appDomains`). The pool of Gateways is a set of hosts here: `GatewayShards` shows
what that leaves out. `overlapped` and `left` are history variables: hosts whose requests
overlapped or failed half-way, and hosts whose verification lapsed or whose app was deleted.

### Sessions

One account. A refresh token is a row that the id in the signed token names; whoever holds it
may present it at any time, twice or at once. `Refresh` verifies and reads,
`RevokeRefreshTokenIfActive` is the conditional update that decides, `issue` stores the new
row, `KillFamily` revokes all of them after a replay. A login may have to correct the admin
flag, with the copy it read (`ReconcileAdmin`). A reset verifies the link and reads the user;
then its transaction consumes the link (`ConsumePasswordResetToken`), writes the user
(`UpdateUser`) and revokes the sessions (`RevokeAllUserRefreshTokens`), and commits
(`CommitReset`). Isolation is READ COMMITTED: what the transaction wrote is locked and shown at
its commit, and the revocation, of a replay too, takes the active sessions of the moment it
starts (`seen`), so that one stored between that and the commit is not among them. `late` names
the logins and refreshes under way in between. Expiry is the
age of the oldest tokens; the cleanup deletes expired rows, and none else (`TombstonesStay`, part of `ReplayKillsFamily`). Requests
may end at any call.

### Organizations

A request authorizes its caller, reads what it decides on and writes, as separate calls; only
`AcceptCommit` and the founding are transactions. `late` is set on a request when another has
written what it has already decided on, and `LateWrite` is a write by such a request: each
property says that a loss happens by nothing else.

### Workloads

Databases and services of one project. A release and a volume are found at a place, a name in a
namespace, a row by its id, so a new workload can meet what an old one left. The namespace is
named by two slugs; a lookup of either that fails is answered with the id, so a creation or a
deploy may go to any of `Namespaces`. The row keeps the namespace it was created in, which stop,
start, restart and delete use; a deploy looks it up again, and creates it if it is not there.
`tenant` is the set of namespaces that were set up whole. Creating counts (`checkQuota`), sets the
namespace up part by part (`EnsureTenant`), applies and stores, and every call may fail.
Start, restart and deploy pass `ensureRunnable`; stop and delete do not. A password has as many
`layers` of encryption as it was encrypted times: a read decrypts, every write encrypts
whatever it is given, and only decrypting leaves a value as it is that was never encrypted.
`crossed` and `astray` are history variables: places whose requests overlapped or failed
half-way, and places a deploy was sent to that were not its row's.

### Backups and Builds

A dump or a restore is a Job, which the cluster starts, retries up to `MaxTries` times and
deletes after a day. Names of Jobs are cut and have a time in seconds, so two databases may ask
for one name; the second creation is refused. The dump's file is named by its Job; an attempt
that fails leaves part of it. A restore is asked for by any name, told to that client or not, of a
dump or of none: the file is looked for when the Job runs. `strayed` (history) names the
databases restored by a name that their client was not told. In `Builds` a worker creates the
service account and the egress policy, then the Job; one of that name that is there already
fails the build. It polls until the Job is complete or failed, an error ends the build while
the Job goes on, and an expired Job leaves its name free.

### Tables, PostgresStore, MemoryStore, Stores

A store is a function from table names to tables. A row keeps the columns that constraints and
queries look at; the others are one value, `v`. A call is an operator from a store to the
store after it and an answer. `PostgresStore` derives the answers from the schema: primary
keys, unique indexes (the partial one on verified hosts too), foreign keys and cascades.
`MemoryStore` follows the maps and checks of its code. `Stores` makes each call the services
make on both and compares answers, rows, queries and pages. `split` (history) is set where the
two are known to part: a host verified twice, a project membership added twice. The usage of all
organizations (`ListAllUsage`) is a page in PostgreSQL, and in memory every record, in the order
in which Go walks a map: there the model returns the rows without an order. A list in descending
order is defined by rank (`Descending`): the i-th key is the one with i - 1 keys before it.

## Runs

Every run finishes within five minutes on two workers. Deadlock is checked in `app_races`,
`app_sequential`, `metering`, `usage_report`, `webhook` and `shards`. In the others everything may
come to rest: all ids of the bounded instance have been given out, or every call has returned.

| Run | Instance | Shows |
|---|---|---|
| `releases` | 3 writers, 2 reconcilers, 3 attempts | `NoneLost`, `EveryRecordReturns`, and that the rows implement `ReleaseHistory`: one live release, the newest, and no ended one live again |
| `app_races` | 2 requests, 1 build, 3 operations, 1 cut short | `NoUnpaidApply`, `StopHolds`, `DeletedForGood` |
| `app_sequential` | 1 request at a time, 4 operations, 2 images, the autoscaler | `ClusterMatchesRow` (a stopped app is down, a deleted one gone, the live release runs), `Converges` |
| `metering` | 1 org, 2 replicas, 3 hours, 2 price lists, 1 fault, unreadable watermark | `WatermarkSafe`, `WrittenOnce`, `CatchesUp` |
| `usage_report` | 1 replica, 3 periods, 2 faults anywhere | `BilledAsUsed` (the watermark is backed, a period is billed once), `CurrentPeriodBilled` |
| `webhook` | 2 deliveries at a time, up to 3 events, 1 subscribe and 1 fault, 4 together; unknown customers, failing reads | `MarkedWasApplied`, `InSync`, `PaymentNeverRevives`, `EveryEventProcessed` |
| `sessions` | 2 requests at a time, 2 passwords, 3 rows: up to 3 tokens, one of which expires, and 2 links; resets statement by statement | `OneSuccessor`, `ReplayKillsFamily`, `OldPasswordOut`, `ResetLinks` |
| `organizations` | 2 requests at a time, the founder and a user, 2 projects, 1 invitation | `OwnerRemains`, `OnlyPendingAdmits`, `AppReachable`, `SettingsKept` |
| `stores` | 2 ids of each kind, pages at every boundary, 12 groups of calls | `StoresAgree` (rows, reads, pages; no orphan, one owner of a host, a true email index), `SameAnswers`, `DeletedStaysDeleted` |
| `workloads` | 2 requests at a time, 1 name in 2 namespaces, 2 ids, a plan of 1, failing calls | `QuotaOvershoot`, `ConnectionWorks`, `ReleasesMatchRows` (rows, releases and namespace), `NoUnpaidRevival` |
| `shards` | 2 requests, 2 hosts, 1 wildcard, ceiling 2, failing calls | `WithinLimits`, `OneListener`, `WritesKeepOthers`, `EveryRequestAnswers` |
| `domains_jobs` | 2 orgs, 1 host, 2 requests at a time, 2 ids; 2 databases of one cut name, 2 seconds, 2 tries, 3 Jobs at a time, 1 restored by a name it was not told; 3 builds, 2 of one tag | `HostsServedByOwner` (proven, owned, served, torn down), `PhaseHonest`, `DumpsStayOwn`, `NoStaleImage` |

The bounds are the smallest in which the interesting cases meet: two processes that hold
copies of one row and a third that changes it; a catch-up cut at its limit; an increment
smaller than a cent; a primary Gateway that a wildcard or a host fills, so that the next host
needs a shard; a plan that one creation fills; a token, its successor and one more; two Jobs of
one name. Three writers make a second conflict possible, which two do not. One org is
enough in `metering` as far as the ticks' order goes; that an hour needs every org is what
`WatermarkIsSafe` proves for any number of them. `MaxAttempts` and `MaxTries` of `shards` are
below the code's 8 and 5, so running out of them happens early. `EveryRequestAnswers` leaves
out a pool that has reached `MaxShard`, the one bound that can hold a request up. `stores` takes
its calls a group of tables at a time: tables of different groups neither reference each other
nor meet in one call, beyond the users, organizations and apps that each group creates. Groups in which no
call compares organizations have one. Two
seconds are enough for two names of Jobs to be equal and to differ; three Jobs, for two dumps
beside a restore, or two restores of one dump. In `workloads` two places meet every way in which
requests do: one name in both, or two workloads in one. A deploy goes astray there to one place,
while its workload is the only one, and requests cross on one place when none does (`MCNext`). One
token that expires is enough for a replay that comes too late, a successor that outlives it and a row
that the cleanup takes; one database restored by another's name, for what the other then meets. The
proofs have no such bounds. In `domains_jobs` a
database belongs to each organization, so that swapping the organizations swaps both.

### Known behaviours

The models have these behaviours of the code too; the properties say under which condition
what they state holds.

- A reconciler tick that listed an app before a Stop writes its status over stopped
  (`httpx/server.go`, `reconcileOrg`). `StopHolds` excepts copies read before the Stop.
- A Stop during the first Apply of a build, or a Delete during a build, leaves pods that no
  row accounts for (`finishBuildSuccess`). `StoppedIsDown` and `NoOrphan`, the parts of
  `ClusterMatchesRow`, are checked with one operation at a time.
- A Deploy after a Stop leaves the annotation that pauses the autoscaler, so the app stays
  deploying, though a comment of `finishBuildSuccess` says that a later Start or Deploy can ship it.
- An update of the git source alone is not stored, and a status that a build has set is
  overwritten with the status read before it (`persistAppSpec`). No property speaks of either.
- A build whose context expires stays building: its failure is recorded with that same context
  (`runBuildAsync`). No property requires builds to end.
- After a build the release is rendered from a row read again after the Apply, so it may record
  another image than the one applied (`deployBuiltApp`). `HistoryMatchesCluster` is checked
  without builds.
- A late reconciler write sets failed on a release superseded in between
  (`ReconcileReleaseStatus`); `NeverReanimated` allows that, since failed is an end.
- A watermark that cannot be read is taken for a first run, and the hours before are never
  metered (`hoursToMeter`). `WatermarkSafe` counts from the last tick that took itself for one.
- A usage increment has no idempotency key, and the watermark is saved after it: an increment
  whose answer was lost, or whose save failed, is billed again (`billing/stripe.go`, `post`;
  `ReportAllUsage` says "never double-billed"). `PeriodBilledOnce` is about `kept`.
- Usage recorded after a month's end and reported before its renewal webhook counts in both
  periods, and two replicas around a renewal leave a watermark above what was billed
  (`ReportUsage`). `PeriodBilledOnce` is per period, and the run has one replica.
- Adding and subtracting a month are not inverse at month ends (`billing/service.go`,
  `periodStart`): usage between the real and the computed start is in no period.
- A failed read of the subscription marks an event processed that was not applied
  (`resolveOrg`): `MarkedWasApplied` counts those as `dropped`. An event applied but not marked
  undoes a later one when it comes again, and a late checkout event reactivates a subscription;
  `InSync` asks for every event applied, none after a later one.
- A dunning step reads, decides and writes the whole row without a transaction: it may write
  past_due or active over canceled (`AdvanceDunning`, `ClearDunning`). `PaymentNeverRevives`
  excepts a copy that was overtaken.
- A shard that a removal has emptied is deleted in a call of its own, whatever it carries by then:
  a listener merged in between goes with it (`RemoveGatewayListener`, whose comment says that
  every other listener is preserved). `WritesKeepOthers` is about writes of Gateways that remain.
- Two overlapping requests for one host may give it two listeners (`allocateListenerShard`).
  `OneListener` excepts those hosts.
- A domain whose token is not found any more is marked failed, but its route, listener and
  certificate stay (`VerifyDomain`); deleting the app leaves those of its domains; a deletion that
  overlaps another organization's verification tears down the new owner's listener; a lookup of
  the domains that fails during a deploy drops the hosts from the route (`appDomains`). `overlapped`
  and `left` name the hosts concerned.
- A login or a refresh that was under way during a reset may store its session after the
  revocation has seen the active ones, before or after the commit, though a comment of
  `ResetPassword` says that any session opened with the old password is killed; and the login
  that corrects the admin flag writes the old password back (`Login`): `survivor` and
  `overwritten`. The revocation after a replay has the same gap. Two overlapping requests for a
  link leave two links live (`ForgotPassword`).
- Two owners may demote each other; a revoked invitation may be accepted, and an accepted one
  revoked, by requests that overlap; a removed member keeps the access to projects; databases
  do not keep a project from being deleted (`DeleteProject`).
- Concurrent creations may exceed the plan, by at most their number less one
  (`QuotaOvershoot`). A database created, or created again after a failure, under the name of an
  earlier one has a password that the volume left behind does not accept, and two workloads of
  one name share a release: `crossed`. A service deployed again loses its image override and
  region (`platform/services.go`, `DeployService`); restarting a stopped database reports
  restarting while nothing runs.
- A slug that cannot be read is replaced by the id (`orgSlug`, `projectSlug`). A deploy then
  installs the workload a second time, in a namespace named by an id that `--create-namespace`
  creates and `EnsureTenant` never set up, without quota, limits and network policy; the row keeps
  its own namespace, so stop, start, restart and delete do not reach that release. A workload
  created in such a namespace (which is set up) is deployed into the slugs' one later. `astray`
  names the places, and `crossed` those whose row and release have parted.
- The in-memory store keeps the rows below a deleted one, has no unique index on verified hosts
  or invitation tokens, does not roll back (`WithTx`), neither sorts nor caps `ListAllUsage`
  (its order is that of a Go map of organizations, where PostgreSQL shows the newest), and its
  transactions are not serialized as their comment says, since `held` is read by everybody. For
  a token that is gone, touching it is an error in memory only. Accepting an invitation to a
  project one is already in fails in PostgreSQL only.
- Names of backups have a resolution of a second, though a comment says that calls never
  collide: the second of two calls fails. A restore may name a running or failed backup and
  loads part of a dump (`Broken`). It may also name the dump of another database of the namespace,
  which is then replayed: nothing checks the name (`handleRestoreDatabase`, `RestoreDatabase`), and
  the volume is one for the namespace, though a comment says that it is one for each database
  (`backupPVCName`). `NoCrossRestore` is about databases that were only restored by names their
  client was told; a failed attempt reads as Failed before the next one
  (`jobPhase`). A backup whose Job expired is listed no more, though its dump is there.
- Job names and tags have eight characters of a build's id: of two builds that share them one
  fails, or overwrites the other's image later (`kaniko.go`, `jobName`). A failed poll fails the
  build while its Job goes on.

### Fairness

Weak fairness on the steps of a request, a worker and a tick: the Go scheduler runs every
goroutine, each call has a timeout, and a ticker fires again. Weak fairness on each of the
provider's deliveries as a whole, the delivery and its handling: the provider repeats an event
that was not answered with success. Strong fairness on a writer of `Releases`, whose step waits
for a row lock that Postgres grants in the order of the queue. Weak fairness on pods becoming
ready and on the autoscaler is an assumption about the cluster and only `app_sequential` uses
it. The runs with liveness properties have faults: bounded in number, or, for `shards`,
unbounded, as a failed call ends the request. The other specifications state no fairness.

## Proofs

All proofs are checked by TLAPS 1.4.5 with Z3, Zenon and LS4; nothing is assumed beyond the
named `ASSUME`s of the modules, which say that bounds are natural numbers and sets finite
where counting needs it. The inductive invariants were checked with TLC first.

**ReleasesProofs** (`TypeCorrect`, `OneLiveRelease`, `EndedForGood`, `NoReleaseLost`,
`Refinement`), for any finite set of writers. `OnlyNewestLive` alone is not inductive: what
protects it is a writer in mid-transaction. The invariant adds what each transaction has
locked and seen (`TxInv`), that only one writer can be about to commit a given revision
(`OneCommitting`), and that a reconciler's target was live when it was read (`RecInv`).
`NoReleaseLost` is a counting argument: a conflict means that another writer has recorded, so
a writer's conflicts are at most the writers already done. The refinement uses the same
invariant: only a commit and a reconciler's write change the table.

**UsageProofs**, for any orgs, replicas, costs and bounds. *Metering* (`TypeCorrect`, `ChargedOnce`,
`WatermarkIsSafe`): the watermark is safe because of what every tick carries: all hours from its start
up to `last` are metered for every org, and its start is at most one past a safe watermark.
A tick that takes itself for the first run carries less, only that the hours it has done are
metered, and `base` moves with it.
*UsageReport* (`ReportTypeCorrect`, `WatermarkIsBacked`, `BilledOnce`): with one replica the
watermark that a report read is the one it overwrites; the invariant relates the report's copy,
its increment and the provider's count at each label: what is `kept` of a period is its
watermark, or the watermark and the increment of the call that is about to save it, and a call
that fails to save takes its increment off again. `WatermarkIsBacked` and `BilledOnce` are for one
replica (`Solo`); for two the known behaviours above say why not. `BillingIsSound` joins them.

**DomainsProofs**, for any hosts, requests, organizations, ceiling, override and reserve.
*GatewayShards* (`TypeCorrect`, `LimitsHold`, `OthersKept`, `ListenersSingle`): a request writes what
it computed from an earlier read, so the limits need `Ready`: while its version is current, what a
request read is what the Gateway carries, what it read had room, and a request on its way to delete a
Gateway works on a shard. The cardinality facts are separate lemmas. A host that no two requests
worked on at once has one listener at most (`OneListener`) because of `Single`: at most one request is
about the host, and if it is about to attach it, the Gateway it picked is the only one that may carry
it. *CustomDomains* (`DomainsHosts`): the row, the certificate, the listener and the app's route of a
host are written by separate calls, so `HostsServedByOwner` is only inductive together with what each
request has read and not yet used (`Known`), what is still to come of it (`Served`: a verified domain
is served, or its request is on its way; `Standing` and `Routed`: a host in the cluster has an owner,
or a delete on its way) and which requests have overlapped (`Overlap`); `overlapped` and `left`, the
hosts that the property leaves out, are those on which what a request knows may be out of
date. What a request reaches grows when another one of its organization verifies a host
(`ReachGrows`): the hosts of both are then among the overlapped ones already.

**AppLifecycleProofs** (`TypeCorrect`, `GateHolds`, `StoppedForGood`, `DeletedStaysDeleted`,
`OneAtATime`), for any requests, builds, images and bounds. `Placed` says at which places an operation can be and
what its copy and its image are there; it is what makes the types inductive. `AllGated`: who is
about to deploy has passed the gate since it closed, or was under way then. `AllHalted`: while
the row is stopped, each process that has not read it before (`stale`) knows it, is idle, or is
a Deploy or a Restart; without the build worker's places in it, a worker that reads the row
twice would break the induction. `CreatedOnce` keeps a deleted row from being inserted again.
`OneAtATime` is about `ClusterMatchesRow`, with one request, no build worker and no abort as its
hypotheses, which are the setting of `app_sequential`: with a second request or an abort the property
is false of the code, as the known behaviours above say. The reconciler is not restricted: it may list,
read and write in the middle of any operation, and sweeps as often as it likes. `Alone` says how far the request
is between row, cluster and history: what it has shipped is in the cluster and not yet in the history
(`Shipping`, `Recording`), a copy that says stopped is of an app that is down (`Stopping`), the
reconciler's copy is never a stopped one (`Ticking`), and while nothing is shipped the three agree
(`Matching`).

**SubscriptionProofs** (`TypeCorrect`, `NoEventIsLost`, `CanceledForGood`, `RowFollowsProvider`), for
any deliveries, plans and faults. What is marked was applied because a delivery that is about to mark has applied
its event or dropped it (`Locals`); a payment leaves a canceled row as it is (`CanceledStays`), so
only a copy that differs from the row can revive it.
`RowFollowsProvider` (`InSync`) has an invariant of its own, `Follows`, about the whole sequence that
was sent. On the provider's side each event follows from the one announced before it (`Chained`): a
payment fails or succeeds in a period that is under way, and a checkout, which does not tell the
period, is followed by the update that does. On the row's side, while events have had their effect in
order, the row is what the events up to the last applied one make of it (`Agrees`). The lemmas say
that sending another event changes neither, that an event applied again leaves the row as it is, and
that an event in its turn moves the row to what it announces.

**IdentityProofs**, for any number of requests. *Sessions* (`TypeCorrect`, `OneWinner`,
`ReplaysAreSeen`, `LinksWorkOnce`, `OldLinksDie`, `LinksAreSound`, `ReplaysEndFamilies`,
`ResetsLockOut`): `OneSuccessor` needs `Rotation`: who is about to issue has revoked the token, which
has no successor yet, and nobody else is about to issue for it. `DeletedExpired` says which rows the
cleanup takes, `LinkRows` that a link that reset the password is used up, `LinkLocks` that one
transaction at a time has consumed a link that is not shown as used yet, and the `Uncrossed` of this
module that a request for a link, while it is alone, has seen every live one. `FamilyEnds`, the other
part of `ReplayKillsFamily`, speaks of the descendants of a token, a least fixed point; its invariant
(`Families`) needs only one set that holds the token and every successor of a member and in which no
session is left active (`Ended`): the replay chooses the set of all tokens issued so far. A revocation takes two steps, and
`Watched` says what holds between them: it has seen every active session but those stored since by a
request that is `late`, and whoever may yet store one is `late`. `OldPasswordOut` follows from
`Opened`, which is inductive together with both: the password in the row is the last one chosen
unless a write of the whole row put an older one back, and whoever is about to open a session without
being late has seen it.
*Organizations* (`OwnersRemain`, `PendingAdmits`, `AppsReachable`, `SettingsAreKept`), for any
members, invitations, projects, roles and settings: four action properties that allow a step of a
request only when it is late, that is, when another one has written since it read. `Decided` is what a
request that is not late knows: that the member it is about to change is not the last owner, that the
invitation is pending, that the project exists or is empty, and the other half of the row that it will
write.

**WorkloadsProofs**. *Workloads* (`WorkloadsInvariant`, `PlanOvershoot`, `PasswordsOpen`,
`RowsTellTheCluster`, `RevivalIsPaid`), for any requests, names, namespaces, ids and plan: a row has a
random id, the release and the volume have only the place, so what a row tells is lost when
requests cross on a place, or one is deployed to another. For a place that none crossed on, `Orderly`
relates the row, the release, the volume and the one request under way (`Progress`), call by call.
`SetUp` follows each request: past `EnsureTenant` its namespace is set up, and a request on a row is
about a namespace that is set up or about a place that is `astray`, from the step on that sends it
there. The plan's overshoot is a counting
argument (`Counted`): rows and creations under way together exceed the limit by fewer than the most
creations that were ever under way at once. `RevivalIsPaid` needs that a request carries whether it
was admitted while the subscription was paid (`paid` in `Course`).
*Builds* and *Backups* (`BuildsTypeCorrect`, `IsolationComesFirst`, `ImageIsOwn`;
`BackupsTypeCorrect`, `PhaseIsHonest`, `NamesStayOwn`, `RestoresStayOwn`, `DumpsAreOwn`), for any
builds, databases, times, attempts and any way of cutting names. A worker is past the parts it has
set up (`PastIsolation`), polls a Job of its own (`PollsOwn`), and what a Job has pushed stays while
it is there (`PushedIsThere`). For backups the invariant relates Jobs and files (`JobOwn`, `FileOwn`),
the names clients know to files of their database (`KnownOwn`), and says that no name of a later
second is in use (`FutureFree`), which is why a name given away is not given again. A restore may be
of any name: `RestoresStayOwn` follows a Job to the database it restores, and whose dump it reads is
only known if the client of that database was told the name, or the database is `strayed`.

**StoresProofs** (`StoresInvariant`, `StoresAlwaysAgree`, `AnswersAreAlike`, `NothingComesBack`), for
any ids, hosts, values, pages and groups of calls. `StoresAgree` speaks of what can be read, and is
not inductive: what a call does next depends on rows that no query shows. `StoresInv` says how the two
stores are related table by table. A table whose rows outlive no parent is the same in both; of the
others the in-memory store has the rows of PostgreSQL and beside them only rows that lost their parent
(`Alike`), since it does not take along what a deleted row owns. To carry that over a call it needs
that PostgreSQL's rows have their parents and keep its unique indexes (`Sound`), that every parent a
row of either store ever named was given out as an id, so that a fresh id can neither adopt the rows
left behind nor collide with one (`Given`), that the index of emails leads to the right user
(`Leads`), and that columns which repeat the key do so (`Keyed`). From `split` on, the tables on which
the stores have parted are released, and only those (`Exempt`). The lemmas go from the statements on
one store (a write, a delete with its cascade) over the same statement on both to one lemma per call;
`Holds` collects what a step must show: the invariant, that nothing comes back, and like answers.
That every read and every page is the same then follows from the invariant alone; for the pages, that
a list in descending order is determined by its rows (`DescendingAlike`) and that both ways to cut one
give the same part of it (`PagesAlike`). The constants' assumptions are that no id is the
null that a subscription without one has, and that the default page is positive and no longer than the
longest (50 and 200 in the code).

Only model-checked: the liveness properties (`EveryRecordReturns`, `Converges`, `CatchesUp`,
`CurrentPeriodBilled`, `EveryEventProcessed`, `EveryRequestAnswers`), since the prover does not reason
about fairness or `ENABLED`. Every other property of a run is stated by a theorem.

## Not modelled

HTTP routing, decoding, authentication middleware and response formats; the rate limiter, one
critical section per key; price formulas and the assembly of invoices, which store nothing;
rendering of Helm values, certificates, network policies and job objects, and the scripts that
Jobs run; scheduled backups, which nothing calls; mail; the cipher; configuration; migrations;
administration, audit and metrics endpoints, which read or append; the command line client and the
dashboard, which keep no state that the API relies on; charts. In `AppLifecycle`, environment
variables, secrets, sizes and replica bounds travel with the image. `retryx` is seen as a call
that succeeds or fails, except where a retry is not harmless (`UsageReport`).

What would be worth adding next: the composition of `CustomDomains` with `GatewayShards`, so that a
host's set of listeners is that of the pool; `EnsureTenant` shared by apps and workloads.
