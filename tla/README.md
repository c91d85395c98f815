# Geass: TLA+ models, checks and proofs

Geass turns a set of servers into a hosting platform: K3s, an operator
(`internal/controller`), a dashboard with an HTTP API (`internal/dashboard`), a
mail relay, a CLI and a number of packages. This directory models the parts of it
that keep state over several calls, and asks what the calls of others, a crash or
a stale read between two of them can do.

All line numbers are of the Go files under `src/`; guides are those under
`src/website/src/content/docs/docs/`. `PROJECT.json` has the full map from
definitions to lines, the hazards with the properties that cover them, and a
mutant for every property of every run.

## 1. Inventory

The parts that are modelled, what each keeps and what is hard about it:

| Part | State | Operations | What is hard | Module |
|---|---|---|---|---|
| Cloud node (`geassnode_cloud.go`) | `GeassNode.status`, two annotations, a finalizer | create, find, wait, join, watch, replace, fail, retry, delete | crash or lost answer between any two calls, stale cache, user writes in the middle of a pass | `CloudNode` |
| Cloud provider interface (`compute.go`) | machines, labels | Create, Get, List, Delete | late visibility, deletion that takes time, spot machines taken back | `CloudNode` |
| Cloud drivers (`pkg/compute/*`) | machines, disks, addresses, firewalls of a node | Create, look-up, Delete as sequences of calls | any call may be the last, request tokens outlive machines | `ComputeDrivers` |
| Node pool (`geassnodepool_controller.go`, `nodepool_*.go`) | pool status, recent nodes in memory | scale, fallback, failure accounting, orphan sweep, resume | stale node lists, passes that crash half way | `NodePool` |
| Node draining (`nodedrain.go`, `nodepool_scale.go`) | cordons, marks | cordon, evict, delete, take back | cordons of an administrator | `PoolDrain` |
| K3s upgrade (`geasscluster_k3supgrade.go`) | upgrade status, cordons, marks | one node at a time: cordon, upgrade, verify, uncordon (it does not drain) | restart in the middle, changes of the target | `K3sUpgrade` |
| Lost nodes (`lost_node.go`) | none: it acts on what it reads | remove pods, give up volumes and instances | machines that return, a primary that goes meanwhile | `LostNode` |
| Apps (`geassapp_*.go`, `reconcile_retry.go`) | app status, Deployment, ScaledObject | deploy, suspend, sleep, wake, give up, tell the outcome | what is read back, changes under way | `AppRollout` |
| Builds (`geassbuild_controller.go`) | one status per build | put back, cancel, run the Job, write the result | results of the run before | `Builds` |
| Databases (`geassdatabase_*.go`, `backup_archive.go`) | server, archives, folders | move, take down, switch backups, retire, purge, delete | a step of several failing, stale lists | `DatabaseBackups` |
| Abuse detection (`abuse*.go`, `pkg/abuse`) | runs, annotations, conditions | sample, report, review, release, reconcile | missed samples, replaced copies | `ServiceAbuse` |
| Schema migrations (`pkg/migrations`) | the level and its record | wait for the lease, migrate, record, lead | two releases at once | `SchemaMigration` |
| Making projects (`project_move.go`, `orgs.go`, `tenant.go`) | projects of an organization | create, import, assign, withdraw | nothing makes a count or a name atomic | `ProjectMaking` |
| Pull request environments (`pr_environments.go`) | list, status, copies | ensure, close, remove | events at once, passes that stop | `PrEnvironments` |
| Webhooks (`pkg/webhooks`, dashboard `webhooks.go`) | hooks, secrets, deliveries | make, delete, emit, deliver, retry, record | two records that belong together | `Webhooks` |
| API tokens (`api_tokens.go`, `api_v1_device.go`) | one Secret | make, revoke, use, cascade, device sign-in | conflicting writers | `ApiTokens` |
| OIDC sign-in (`auth_sso.go`, `sso_refresh.go`) | sessions, one refresh entry | sign in, out, refresh, back-channel logout | a pass over an entry that changes | `SsoSessions` |
| Mail relay (`internal/mailrelay`) | rings of counters, sessions | sign in, reserve, send, give back | limits under concurrency, slots used again | `MailRelay` |

They meet at the API server: the dashboard writes objects, the operator's
controllers hear of them through caches and write status, other operators
(CloudNativePG, KEDA, Kubernetes itself) act on what was written. No two parts
above share a variable in the models; what one does to another is a step of the
other's environment (a suspension for abuse in `AppRollout`, a node's life in
`NodePool`).

Not modelled: autoscaling arithmetic, object stores, etcd snapshots, the
platform's domain and Cloudflare, Longhorn, network policy and mesh, projects,
organizations and quota (the controllers), alerts, the rest of the dashboard and
its API, the GitHub app, CLI, MCP server, installer, cloud connections, SSH,
templates, bundles and metering, API types, web UI. See section 6.

What makes each correct, in a line: a node pays for at most one machine and never
loses track of it; a driver makes one machine however often it is cut off; a pool
stays within its limits and deletes only what is nobody's; an upgrade has one node
out of service and undoes nobody else's cordon; recovery never removes the last
copy; a service sleeps and succeeds only if it ran; a build shows its own result; no
two servers share a backup folder; only what was busy is suspected; a release runs
over data of its own level; limits and names hold under concurrent requests; a
closed pull request leaves nothing; what is sent is signed when its secret can be read; no token is lost or
comes back; who was signed out stays so; no window takes a message too many.

## 2. Plan

Done: the eighteen parts above, `MachineLease` as the abstract specification of a
node, and the proofs of section 5. Left, in this order:

1. `DriversSafe` and `MailSafe` as theorems, as far as the provers go (section 5).
2. `PoolAndNodes`: `NodePool` with a `MachineLease` for each node in place of its
   own outline of a node's life.
3. `Autoscale`: the packing operators of `pkg/platform/autoscale.go` against a
   reference definition.
4. Installer upgrades with rollback, etcd snapshot pruning, replica placement.

## 3. The modules

**`CloudNode`**: one GeassNode whose machine Geass creates.

* The controller works in *passes*; passes on one node never overlap (the work
  queue of controller-runtime gives a key to one worker). `pc` is the call the
  pass makes next, `copy` the pass's own copy of the node, `fresh` whether that
  copy is the version at the API server, `att`, `inst`, `state`, `why` the
  locals the code carries from one call to the next. Each call to the API
  server, to the provider, to the firewall or over SSH is an action; between two
  actions anything else may happen.
* `obj` is the node at the API server, `cache` the operator's informer cache,
  `watch` the versions it has not heard of, at most `Lag` of them.
  `PatchStatus` and `PatchConflict` are the two ways a try of
  `platform.PatchStatus` ends; a conflict re-reads the node *from the cache into
  the pass's copy* and applies the same change to it. `setFailed`, `claimJoin`
  and `letGo` are plain optimistic writes; the retry annotation is dropped by a
  patch without a version.
* The provider is external and modelled as it is used. `Create` is idempotent by
  name. A machine is `doomed` from the moment a deletion is accepted until the
  provider stops listing it (`gone`). With `ShowsLate` a new machine may be
  missing from Get and List for a while. `answered = FALSE` is a call that had
  its effect and whose answer was lost.
* `Return` ends a pass at any call: an error to the work queue, or `waitCloud`.
  Deadlines (`cloudCreateTimeout` and the like) are a choice between waiting and
  failing. `Crash` loses the pass and gives a cache that is up to date.
* The user deletes the node, asks for a retry, or abandons the machine, at any
  moment. Machines boot, stop, vanish; agents register; the Kubernetes node
  turns NotReady or is removed by hand; with `ClusterMayGo` the GeassCluster
  object goes and comes back.

Left out on purpose: `status.message` (a write that only changes the message
makes a new version; the model's claim and user writes stand for such versions),
addresses (a machine is its address), `JoinStartedAt` (written with the phase
that follows it), the spec and the keys of a machine, placement labels, lag of
the cache for Kubernetes nodes and for the GeassCluster, `mostOfPoolNotReady`
(it only keeps a replacement from happening).

**`MachineLease`**: what a node promises to whoever pays: it takes a machine
only while it exists and holds none, and it goes away only when it holds none or
was abandoned. `Lease` in `CloudNode` instantiates it with the machines that are
kept (`Kept`).

**`CloudNodeProofs`**, **`CloudNodeLease`**: the proofs, see section 5.
**`MCCloudNode`**: the symmetry of the machines, for TLC.

**`NodePool`**: how many nodes a pool has.

* One pass at a time; `pc` is the call it makes next. `spec` and `status` are the
  pool at the API server, `pool` and `work` the pass's copies; `finish` writes
  the whole of `work` over `status`, so an error before it (`Return`) loses what
  the pass worked out, while the nodes it made or deleted stay so.
* `node` is the pool's GeassNodes at the API server, `cache` the informer's copy,
  `list` what the pass read from it. A node is reduced to what `listNodes`,
  `clearFailedNodes` and `advanceFallback` tell apart: coming up without an id
  (`waiting`, `stalled` once it has waited `capacityStall` for room), coming up
  with one (`made`), `ready`, failed with and without a machine (`failing`,
  `failed`), and being deleted. `machine` is what the provider has under each
  node's name; it is not always what the node's state suggests: a node may let go
  and leave its machine, and one that is being deleted may still get one. The
  steps of the nodes are the outline of `CloudNode`.
* `recent`, `seen` and `aged` are the operator's memory: nodes it made a moment
  ago, machines it saw without a node, and those it has seen so for longer than
  `orphanGrace`. `Crash` forgets them.
* Time is a choice, with two things held to: the cache hears of a node within the
  30 seconds that `recent` keeps it, and within the twenty minutes of
  `orphanGrace` (`listNodes`, `Age`). `late` says which nodes were created after
  `lastFailureAt`; a node created in the same second is not (`inSameSecond`).
* `accountFailures` counts up to `FailuresBeforePause` only, since nothing looks
  further; `Tidy` drops `late` where it has no effect.
* How many nodes the waiting pods and the spare nodes ask for is any number
  (`manageAutoscaled`), so the arithmetic in `pkg/platform/autoscale.go` is not
  relied on. `Name` bounds how many nodes are ever made.
* What may happen besides is chosen by `May`.

**`NodePoolHistory`** adds what `NodePool` has no place for: which failures a
resume made the pool forget and which failed nodes were cleared away uncounted.

**`PoolDrain`**: how an autoscaled pool takes nodes away. `up` is the nodes,
`cordoned` and `mark` the Kubernetes nodes' `unschedulable` and the annotation
`geass.dev/pool-cordon`, `admin` what an administrator cordoned and has not
uncordoned, `busy` the nodes with pods that must move and `shown` what the
operator's cache of pods knows of it. A pass either takes marked nodes back
(`releaseDrains`) or goes on with the drains (`continueDrains`) and, if none is
left, picks nodes to empty (`scaleDown`, `chosen`) and cordons them. Get and Patch
of a Kubernetes node are separate steps, and the patch carries what differed at
the Get. Which nodes are under-used, for how long, and whether their pods fit
elsewhere is any choice among the nodes `removalBlocker` lets go; so are the
back-off after a failed drain and the delay after an addition (`endPass`).
A stale read of a Kubernetes node is the same as a read at an earlier moment of
the pass; a stale list of pods is not, and has its own variable.
**`PoolDrainProofs`**: the proofs about it, see section 5.

**`MCNodePool`**, **`MCNodePoolHistory`**: what the runs of the pool use, the
symmetries above all.

**The other components.** One module each, with the same shape: a variable for
every piece of state the code keeps, one for the pass or request at work and what
it has read, one action per call that changes something, and `...Happens`, the set
of incidents that may happen besides. An incident is something the code does not
guard against and its environment may do: the properties are checked and proved
without the incidents that break them, and section 4 says which those are. Other
crashes, failing calls and orders of steps are in; where an incident is itself a
crash (stops, interrupted), a call that fails (undeleted, ignored, unwritten,
unkept) or an order of steps (race, overlap, overtaken, standby), that one is not.

| Module | State and actions | Incidents |
|---|---|---|
| `K3sUpgrade` | `calls` is the rest of the pass, each call an action; cordons by whom (`ours`, `theirs`), marks, what is installed where | race, override: somebody cordons or uncordons the very node at work; behind: the cache misses the operator's own last cordon |
| `LostNode` | pods, volumes, claims, the primary; `plan` is what the pass decided from what it read, each deletion an action; Kubernetes and CloudNativePG are external | midway: machines and disks change in the middle of a pass; return: a machine comes back |
| `AppRollout` | the app's spec and status, the Deployment and its cache, copies, the sleeper, what was told; a pass in the order of `reconcileApp` | lag: the Deployment is read back as it was before the pass wrote it; overlap: two deploys announce themselves in the other order |
| `DatabaseBackups` | database, server, archives, what each folder holds, the cache of archives | stale, hurried, neglected, ignored, interrupted: see `BackupIncidents` |
| `ComputeDrivers` | the controller's own look for the machine; the calls of each driver as a sequence; what the cloud has; tokens it remembers | late: the driver's list misses the machine of an earlier Create; each call may fail or have its effect unanswered anyhow |
| `ProjectMaking` | what each request is at (look, make, look again, withdraw), projects, the organization | lag, assigned, emptied, second, stops, undeleted, deleted: see `MakingIncidents` |
| `PrEnvironments` | the list, the status, the copies, copies on their way out (`dying`, until their finalizer is done), what each handler is at; `skipped` remembers the copies that were dying when a request came to them | overlap: two requests about one pull request at once; lag: the cache misses a copy or shows one that is gone |
| `ApiTokens` | the records of the Secret with their version, what each request read | vanish: a project is deleted while a token for it is made |
| `SchemaMigration` | the data's level and its record, what each operator is at, the lease; `overtaken` are the operators that checked before somebody migrated | standby: an operator takes the lease after a newer release found it free, or after one migrated; back: see `SchemaIncidents` |
| `MailRelay` | connections, the moment and the limits each has read before it waits for the lock (`mailAsk`), rings of counters, the clock | step back: the wall clock jumps back; overtaken: a message is counted at a moment read before another was counted at a later one |
| `Webhooks` | hooks, secrets, events and deliveries; a delivery is signed, not, or could not read the Secret | underway, together: a hook is deleted with an event on its way, or made while the last is deleted |
| `SsoSessions` | sessions, the entry, the pass over it, what the provider says | second, overlap, unwritten, unkept, unreadable, untold: see `SsoIncidents` |
| `Builds` | the build, its Job, the pass and what it read; `retold` remembers that a pass begun before a reset wrote over it | none |
| `ServiceAbuse` | annotations, conditions, runs, the sample and the pass at work; `spell` is the history the runs are compared with | during: a service is cleared while it is sampled; unsaved: a sample that found a service calm is not written |

What `Builds` says of a reset is weaker than one would like, because the code is. A
pass that began before a push put the build back may write after it: `PatchStatus`
answers the conflict by reading the build again and making the same change to it
(`status.go:57-78`), and `updateStatus` looks for a reset only where the pass found a
Job it did not make (`geassbuild_controller.go:393-397`). The model makes that write.
`ResultIsOwn` and `PushIsBuilt` except it by name (`retold`); `ShowsWhatItBuilt` and
`ResetIsSeen` hold all the same. A Job may expire at any moment, in the middle of a
pass too. The lag of the cache and logs that are not archived yet are left out.

The last backup of a database that is deleted need not end, nor need it be possible to
request it: `FinalBackupOverdue` is the end of `platform.FinalBackupWait`, and the only
thing about it that is fair.

A delivery that cannot read its Secret is sent unsigned (`pkg/webhooks/webhooks.go:470-476`),
although operations/security.md:752 says "Project webhooks sign each delivery":
`NeverUnsigned` is about the deliveries that could read it.

`ServiceAbuse!spell` is a history variable: for each service the latest samples
taken of its present copies that were all at the threshold, no two further apart
than `MaxGap`. A sample that did not get to a service neither adds to its spell nor
ends it, as in the code ("what was not seen breaks no run now").

**`MCCluster`**, **`MCPlatform`**, **`MCFair`**, **`MCEnds`** put several components into
one run, each by itself: `part` says which one moves in a behaviour, the others stay
as they start. No component is left out of any property of its own, and none is
composed with another.

**`NodePoolProofs`**, **`ClusterProofs`**, **`PlatformProofs`**, **`ControllerProofs`**,
**`DashboardProofs`**: the proofs about these, see section 5. `NodePoolHistory` and
`MCNodePoolHistory` serve the further counterexamples only.

## 4. The runs

Deadlock is not checked: a node that was deleted, a pool that has used up the names
it may give, and requests that were all answered are the end of a behaviour.
Action properties of the groups are written `vars' # vars => ...` inside `[]_vars`:
the guard changes nothing and spares TLC the evaluation on steps that stutter.

| Run | Instance | Shows |
|---|---|---|
| `NodeLife` | 3 machines, 2 attempts, firewall, no data | `TypeOK`, `AtMostOneKept`, `Accounted`, `JoinedThroughFirewall`, `LeavesNothingBehind`, and that the node implements `MachineLease` |
| `NodeData` | 2 machines, 2 attempts, firewall, holds data, machines may show late, the cluster may go | `DataKeepsItsMachine` |
| `NodeBehind` | 2 machines, 2 attempts, cache 1 behind | `LetGoAfterItsMachine` |
| `NodeFair` | 1 machine, 1 attempt, firewall | `NodeEnds` under `FairSpec`: a deletion ends, a failed node stops costing |
| `PoolCap` | 3 names, maxNodes 2, minNodes 1, autoscaling on and off, crashes, deletions | `CapHolds`, `NeverOvershoots` |
| `PoolSweep` | 1 name, 2 choices, Delete policy, everything may happen | `TypeOK`, `SweepSparesClaimed`, and `OrphansGo` under `FairSpec` |
| `ClusterSafe` | 3 nodes, minimum 1, 1 spare, nodes fail; 2 workers, 2 releases; 2 machines, 2 instances, both kinds of volume, midway and return; 2 versions of which the second is broken | `TypeOK`, `AdminCordonKept`, `OnlyEmptyDeleted`; `UpgradeSafe`, `LostSafe`, `RolloutSafe` |
| `PlatformSafe` | 2 archives, 3 edits; all drivers, 2 lives, 3 machines; 2 makers, limit 1, emptied and assigned; 2 pull requests, 1 open, 2 handlers; 3 token requests; 3 operators, 2 levels; 3 connections, 2 windows; 3 hooks; 2 browsers with every incident; 3 commits; 1 service, window 2, gap 2 | `BackupsSafe`, `DriversSafe`, `MakingSafe`, `PrSafe`, `TokensSafe`, `SchemaSafe`, `MailSafe`, `HooksSafe`, `SsoSafe`, `BuildsSafe`, `AbuseSafe` |
| `PartsFair` | 2 machines, 2 instances; 2 versions; 2 archives, interrupted; 1 service | `DatabasesWhole`, `RolloutsEnd`, `DatabasesGo`, `AbuseFollows` |
| `PartsEnd` | 2 nodes with override; 1 worker with override; 3 hooks; 2 browsers; 2 commits | `DrainsEnd`, `NodesLetGo`, `DeliveriesEnd`, `StaleSessionsEnd`, `BuildsEnd` |
| `AppPaused` | 2 versions, the second broken, 1 failure to give up | *violated*: `ChangedIsTried` |
| `DropletOpen` | DigitalOcean with a named firewall, 2 lives, 3 machines | *violated*: `ReadyIsGuarded` |

The `...Safe` properties are conjunctions; each part has its own comment:

| Property | Beside types |
|---|---|
| `UpgradeSafe` | `UpgradeOneAtATime`, `UpgradeKeepsTheirs`, `NoAgentAhead` |
| `LostSafe` | `LastCopyKept`, `RunningPodKept` |
| `RolloutSafe` | `SleepsOnlyStarted`, `SucceededHasRun` |
| `BackupsSafe` | `FolderOfOne`, `NameFreeIsEmpty` |
| `DriversSafe` | `OneMachine`, `ReadyIsGuardedElsewhere`, `AnswersLiveElsewhere` |
| `MakingSafe` | `LimitHolds`, `OneName`, `NothingOfIt` |
| `PrSafe` | `NotStranded`, `ClosedLeavesNothing`, `EnsuredIsWhole` |
| `TokensSafe` | `NoTokenLost`, `TokenLimitsHold`, `NoStaleToken`, `OneSignIn` |
| `SchemaSafe` | `RunsAtItsLevel`, `MigratesInOrder` |
| `MailSafe` | `RingsCountRight`, `NoWindowOver` |
| `HooksSafe` | `NeverUnsigned`, and the limits of hooks, deliveries and sends |
| `SsoSafe` | `SignedOutStaysForgotten` |
| `BuildsSafe` | `ShowsWhatItBuilt`, `ResetIsSeen`, `ResultIsOwn` |
| `AbuseSafe` | `SustainedOnly`, `ClearedLeftAlone` |

Bounds. `MaxAttempt = 1` is one full turn through giving a machine up and
starting over; what an attempt depends on is only its own number and the status
the one before left, so a second turn repeats the first (and the theorems have
no bound). Two machines are one per attempt; the third lets `Create` make a
machine too many if the code let it. `Lag = 1` is enough for a pass to decide
from an old copy; three are needed for a pass to be so far behind that it still
sees `Creating` when the node is `Joining`, and to find an up-to-date version
when it re-reads.

For the pool: one name more than `maxNodes` is what it takes to go past the cap,
and one more than the pool lacks to overshoot. One name is enough for the sweep,
which looks at each machine by itself. Two choices are one to leave and one to go
to. Three nodes let a drain take one empty node, keep a spare one and leave one
with pods; for the end of a drain nodes do not depend on each other beyond one
other that is being emptied.

For the other components: two of everything that can race (makers, handlers,
browsers, machines), three where a third has to come between two others (token
requests, operators, connections, hooks); one node being upgraded and one that is
not; one good and one broken version; `MaxGap` 2 so that a run can go on over a
missed sample, and `Window` 2 so that it takes more than two samples to last. The
theorems have none of these bounds.

Fairness (`CloudNode!FairSpec`). A pass that has begun goes on or ends (every call
has a deadline). The work queue runs a pass again as long as there is something to
do (`Reconcile`, `handleDeletion`: a returned error or `RequeueAfter` brings the
key back). Strong fairness on the calls of a deletion says that a provider, a
firewall and an API server that are asked again and again answer in the end.
Nothing is assumed of the user, of the machines or of crashes stopping. The
drain of a deletion ends by its deadline.

Fairness (`NodePool!FairSpec`, `PoolDrain!FairSpec`). Every pass returns
`RequeueAfter` or an error, so there is always a next one; a sweep that is due
again and again is made; time passes and caches catch up. A deletion
that is tried again and again goes through in the end. Errors and restarts stop at
some point (`Trouble`): an operator that restarts
every twenty minutes never deletes an orphan, since the time it first saw one is
only in its memory. For `DrainEnds` the pool is one that may scale: a suspended or
paused pool neither finishes a drain nor takes it back.

Fairness of the groups. Each liveness property of `MCFair` and `MCEnds` is asked of
its own component and brings the fairness with it: `UpgradeFair`, `LostFair`,
`RolloutFair`, `BackupsFair`, `AbuseFair`, `HooksFair`, `SsoFair`, `BuildsFair` and
`DrainFairness`. They have the same parts. A pass that is asked for is begun and a
call that was begun ends (work queues, tickers and deadlines); what Kubernetes,
CloudNativePG, KEDA or a Job has to do they do in the end; time passes. Errors,
restarts and changes of mind end at some point (`<>[][...]`): a pass that fails every
time gets nowhere. Strong fairness is asked where something is enabled again and
again and not all the time: a delivery that waits for one of `MaxConcurrent` places,
a sign-in that waits for a pass, a build whose Job of the run before is still there,
the timers of an instance that becomes ready and unready.

`MachineRemovedAtLast` (`ComputeDrivers`: once a node is leaving, its machine is
gone in the end) is also stated and holds for every driver, one at a time, with
`DriversFair`.

`ClusterSafe` leaves out what breaks its properties: of the drain the cordon between
Get and Patch (race), an administrator's uncordon (override) and a stale list of pods
(behind); of the upgrade race, override and behind, without which no mark outlives
its upgrade.

The two violated runs are the findings of `PROJECT.json`, which name the comments and
the page of the documentation they contradict. `DropletOpen`: the Droplet is made, the
firewall that the user has named cannot be attached and Create fails; the next pass of
the controller finds the Droplet itself (`geassnode_cloud.go:216-224`), so that Create,
which would try again, is not called.

### Further counterexamples

The properties below are stated in the modules and are also refuted by TLC, in
seconds, with the settings given (the other constants as in the run named).

`PoolFixed` below is `MCNodePool` with 2 names, `Mins = {1}`, `MaxNodes = 1`,
`MaxScaleUp = 2`, `Choices = 1`, `FailuresBeforePause = 2`; `DrainFair` is
`PoolDrain` with 2 nodes, minimum 1, no spare.

| Property | Settings | What happens |
|---|---|---|
| `CapHolds` | `PoolFixed` with `May = {"fail", "retry"}` | "A pool never has more than `maxNodes` machines" (guides/node-pools.md:278). A failed node without a machine is not counted (`geassnodepool_controller.go:130`), its place is filled, and `geass.dev/retry` then gives it a machine again. |
| `CapHolds` | `PoolFixed` with `May = {"loseAnswer"}` | `createNodes` remembers a node only when Create returned no error (`nodepool_nodes.go:279-288`); one that took effect and timed out is made again before the cache shows it. |
| `SuspendedKeepsNodes` | `PoolFixed` with `Suspends = {FALSE, TRUE}`, `Choices = 2`, `May = {"stall"}` | "Stop adding and removing nodes" (guides/node-pools.md:142). `advanceFallback` deletes a waiting node before `mayScale` is looked at (`nodepool_scale.go:90-97`). |
| `ChoiceTriedBeforeLeft` | `PoolCap` with `Mins = {2}`, `MaxNodes = 3`, `Choices = 3`, `Autoscalings = {FALSE}`, `May = {"stall"}` | "The pool tries these choices in order" (guides/node-pools.md:267). Two nodes that wait for the first choice move the pool on twice, because `advanceFallback` (`nodepool_nodes.go:353`) does not look at the choice a node was made with. |
| `FailureKept` | `NodePoolHistory`, constants of `PoolFixed` with `MaxNodes = 2`, `May = {"fail"}` | "Their reason is in the pool's status" (`nodepool_nodes.go:322`). A failed node is deleted before the status that counts it is written. |
| `AdminCordonKept` | `DrainFair` with `Happens = {"race"}` and `Spec` | "it is never uncordoned behind their back" (`nodedrain.go:38-39`). The patch at line 55 carries no version. |
| `AdminCordonKept` | `DrainFair` with `Happens = {"override"}` and `Spec` | "uncordons only those" it marked (guides/node-pools.md:258). The mark outlives an administrator's uncordon, and their next cordon counts as the pool's. |
| `OnlyEmptyDeleted` | `DrainFair` with `Happens = {"behind"}` and `Spec` | "deletes a node once nothing is left on it" (`nodepool_scale.go:525`). A pod that came just before the cordon is not in the cache. The deletion of the node drains it again, so the pod is still asked to leave. |
| `InstallsOnce` | `NodeBehind` with `Lag = 3` | "must not install K3s a second time" (`geassnode_cloud.go:621-624`). A pass that re-reads after a conflict claims from the newer version what it decided from the older. |
| `Accounted` | `NodeBehind` with `Lag = 0`, `ShowsLate = TRUE` | "no machine is left running that nothing knows about" (`geassnode_cloud.go:800-803`). A deletion looks for a machine by name before the provider shows it. |
| `Accounted` | `NodeBehind` with `Lag = 0`, `LostInResume = TRUE` | The stopped machine vanishes before the repeated Create, which makes another; the status keeps the old id (`geassnode_cloud.go:273`). |
| `RulesClosed` | `NodeBehind` with `Lag = 0`, `Firewall = TRUE` | "Geass closes them again when the machine goes" (guides/node-pools.md:314). The rule is opened before it is noted (`geassnode_cloud.go:946`). |
| `Accounted` | `NodeBehind` with `Lag = 0`, `ClusterMayGo = TRUE` | "no machine is left running that nothing knows about" (`geassnode_cloud.go:800-803`). `providerForDeletion` leaves the owner empty when the cluster cannot be read (1011-1018), List with no owner finds nothing, and a node whose machine's id was never written down is let go. |
| `LetGoAfterItsMachine` | `NodeBehind` with `ClusterMayGo = TRUE` | The same with a lagging cache. |
| `ResumeForgets` | `MCNodePoolHistory`, 3 names, `Mins = {3}`, `FailuresBeforePause = 3` | "When you resume, the pool forgets the failures" (guides/node-pools.md:416). `clearResumeRequest` empties `countedFailures` (`geassnodepool_controller.go:279`) while the failed nodes are still listed; the same pass counts them again and pauses. |
| `NeverBelowMin` | `DrainFair` with `Spec` | "It never goes below `minNodes`" (guides/node-pools.md:237). `scaleDown` counts the node that `continueDrains` of the same pass deleted among the ready ones (`nodepool_scale.go:356`) and takes one too many. |
| `UpgradeKeepsTheirs` | `ClusterSafe` with `UpgradeHappens = {"race"}` or `{"override"}` | A cordon between look and patch, or after an uncordon of the node at work, counts as the upgrade's. |
| `UpgradeOneAtATime`, `UpgradeLetsGo` | `ClusterSafe` with `UpgradeHappens = {"behind"}` | `releaseNode` (line 626) reads the node from a cache without the upgrade's own cordon, finds no mark and lets go of a node that stays cordoned. |
| `WholeAgainAlways` | `PartsFair` with `LostHappens = {"return"}` | `lost_node.go:33-36`: an instance that was being made again when the machine of its volume went is on no lost machine and has no stranded volume, and nothing replaces it. |
| `AnswersLive` | `PlatformSafe`, `Clouds = {"gcp"}` or `{"oci"}` | `compute.go:104-106` against `gcp.go:653-662`, `oci.go:487-492`: the token of an earlier life answers with a machine that is gone. |
| `NothingLeft` | `PlatformSafe`, `Clouds = {"scaleway"}` | `scaleway.go:675-752`: Delete removes the machine first; a repeated Delete no longer finds the disk and the address that belonged to it. |
| `OneMachine` | `PlatformSafe` with `DriverHappens = {"late"}` and one of vultr, digitalocean, scaleway, upcloud, ovhcloud | A driver that knows the machine by a list alone makes a second one when neither the controller's list nor its own has the first yet. The others have a token or a name that the cloud keeps unique. |
| `StaleSessionEnds` | `PartsEnd` with `SsoHappens` `{"second"}`, `{"overlap"}` or `{"unwritten"}` | There is one entry for a person and several sessions (`sso_refresh.go:388`); a failed revocation leaves a session nobody ends. |
| `StaleSessionEnds` | the same with `{"unkept"}`, `{"unreadable"}` or `{"untold"}` | The entry is all that brings a pass to a session: a write of it that fails is logged and not tried again, and no token means no entry (`sso_refresh.go:179, 192-198`); a token that cannot be opened drops the entry and ends no session (336-345); an answer without an identity counts as the same person (368). |
| `NoStaleToken` | `PlatformSafe` with `TokenHappens = {"vanish"}` | `api_tokens.go:690`: the token is written after those of its project were revoked. |
| `RunsAtItsLevel` | `PlatformSafe` with `SchemaHappens = {"standby"}` or `{"back"}` | `cmd/main.go:183-184`, `migrations.go:10-12`: a standby is past its check before another migrates and leads later over data it does not know; an older release starts over a migration that was not recorded. |
| `RingsCountRight`, `NoWindowOver` | `PlatformSafe` with `MailHappens = {"step back"}` | A slot of the future is used again for the past. |
| `RingsCountRight`, `NoWindowOver` | `PlatformSafe` with `MailHappens = {"overtaken"}` | "no window of that length ever holds more messages than the limit" (`limiter.go:11-12`): `now()` is read before the lock is taken (`relay.go:292`, `limiter.go:133-135`), so an older moment may be counted after a newer one, whose slot it takes over. |
| `NeverUnsigned` | `PlatformSafe` with `HookHappens` `{"underway"}` or `{"together"}` | `webhooks.go:205-217`: deleting the last webhook removes the Secret another request has just written to; or an event is still on its way to the deleted one. |
| `ResultIsOwn`, `PushIsBuilt` without `retold` | `PlatformSafe`, `PartsEnd` | "a digest left from its last run is never taken for the result of this one" (`geassbuild_controller.go:393-398`): any pass that overlaps a reset can undo it, as said in section 3. |
| `FolderOfOne` | `PlatformSafe` with `BackupHappens` one of stale, hurried, neglected, interrupted | `geassdatabase_controller.go:168, 175, 917`, `geassbackuparchive_controller.go:51` and the like: the archive of the old server is taken for the new one's, or the old server goes on writing. |
| `NameFreeIsEmpty` | the same with stale or neglected | An archive is deleted under a server that still writes to it. |
| `DeletedGoes` | `PartsFair` with hurried or ignored | `deleteTargetResources` passes over its errors (`geassdatabase_controller.go:726`); a database moved or deleted before it was ready is looked for in the wrong place (917). |
| `LimitHolds`, `OneName` | `PlatformSafe` with `MakingHappens = {"lag"}` | Neither of two requests sees the other's project. |
| `LimitHoldsForAll` | with `{"assigned"}` | A project that is moved into the organization is not counted by the request at work. |
| `NoProjectOfNoOrg` | with `{"emptied"}` | The organization goes between the look and the creation. |
| `OneName` | with `{"second"}` | Who yields is told by the creation time in whole seconds and then by the id (`project_move.go:678`). |
| `NothingOfIt` | with `{"stops"}`, `{"undeleted"}` or `{"deleted"}` | What is withdrawn is withdrawn by the request itself. |
| `SleepsOnlyStarted`, `OutcomeTold` | `ClusterSafe`, `PartsFair` with `RolloutHappens = {"lag"}` | The Deployment is read back from the cache as it was before the pass wrote it, and its old copy counts for the new version. |
| `OutcomeTold` | `PartsFair` with `RolloutHappens = {"overlap"}` | Two deploys announce themselves in the other order, and the later one is never told. |
| `SucceededIsReady` | `ClusterSafe` | "`deployment.succeeded` when the pods of that deploy are ready" (guides/github-and-builds.md:721): the copy of the version before, still up while the new one starts, makes the service ready. |
| `ClearedLeftAlone` | `PlatformSafe` with `AbuseHappens = {"during"}` | The targets of a sample are read before the review. |
| `SustainedOnly` | `PlatformSafe` with `AbuseHappens = {"unsaved"}` | `abuse_detector.go:142`: a sample that found the service calm is lost and the run goes on. |
| `OpenLimitHolds` | `PlatformSafe` | The limit is looked at before the pull request is noted, and not again. |
| `NotStranded` | `PlatformSafe` with `PrHappens = {"overlap"}` | One request removes what the other is adding to. |
| `PrSafe` | `PlatformSafe` with `PrHappens = {"lag"}` | Copies are looked for and listed in the cache (`environments.go:20-63`). |
| `EveryPieceIsMade` | `PlatformSafe` | "It is safe to repeat: existing pieces are kept and missing ones are created" (`pr_environments.go:197`). Deleting a copy only marks it (`environments.go:73-78`); a pull request that is opened again before the finalizer is done keeps the dying copy (`pr_environments.go:347, 380`) and is without it a moment later. |
| `EnsuredIsWhole` | `PlatformSafe` with `Repo = {"x", "y"}`, `Number = {1}`, `MaxOpen = 2` | Two repositories with a pull request of one number share the environment's name. |

Seen along the way: with a lagging cache a pass that re-reads after a conflict can
also undo a `setFailed` of the user-visible phase; a Failed node whose machine's id
was never written down (the cluster object disappeared just after Create) keeps
that machine until it is retried or deleted.

## 5. The proofs

`TypeCorrect` (`CloudNodeProofs`): `Spec => []TypeOK`, for every set of machines,
every bound and every setting of the switches. `TypeOK` is not inductive:
`machine[inst]` only makes sense if a pass that gets to the provider has a
machine. `TypeInv` adds that a pass at such a call has one (`PassOK`), that the
copies of the node in `watch` and in the pass have an id when their phase says
so, and where `why` is set. The proof has one lemma per group of actions and one
step per action.

`CloudNodeLease` proves, for every number of machines and attempts,

* `PaysForOne`: `Spec => []AtMostOneKept`;
* `NothingUnaccounted`: `Spec => []Accounted`;
* `AttemptsEndClean`: `Spec => LeavesNothingBehind`;
* `NodeIsLease`: `Spec => ImplementsLease`;
* `ReachesControlPlane`: `Spec => []JoinedThroughFirewall`;
* `DataIsKept`: `Spec => DataKeepsItsMachine`;
* `LetGoLast`: `Spec => LetGoAfterItsMachine`

from `Quiet`: the cache keeps up (`Lag = 0`), the provider shows what it has, no
machine vanishes in the moment before it is resumed, and the cluster object
stays. The last three are needed, as the further counterexamples show. `Lag = 0` still
lets the user write in the middle of a pass and leaves every crash and lost
answer in; with a lag the properties are checked by TLC only where they hold
(`NodeBehind`).

The inductive invariant is `LeaseInv`. Two machines can only be kept if a machine
is made while another is kept; machines are made at `create` and `resume`; so the
invariant says that a pass gets to `create` only when the node has a name and no
id (`CallsOK`), that everything kept then has that name (`Accounted`), and that a
name is that of one machine (`OneAlivePerName`). `Accounted` in turn can be lost
where the status is rewritten (a new attempt, an id), so the invariant says that
nothing is kept when a pass gets to these writes (`CallsOK`), that what the pass
decided from is still so although the user may have written in between
(`CopyOK`), and that the machine in the status, or about to be written there, is
that of the attempt (`NamesOK`, `StatusOK`).

The last three need more. `GuardInv` says that a rule which is noted is there as long
as its machine is kept (`NotedOK`), that so is the rule of a node that is up and of
one a pass is about to bring up (`RuleOK`), that the pass's copy is right about the
rule and about a deletion (`CopyToo`), and that a pass which gives a machine up for a
deletion has one to do, and one that replaces the machine of a node with data saw that
it is gone (`GivenUpOK`).

`PoolDrainProofs` proves, for every number of nodes and every minimum,

* `DrainTypeCorrect`: `Spec => []TypeOK`, whatever happens;
* `CordonsRespected`: `Spec => AdminCordonKept`, if administrators neither uncordon
  the pool's nodes (`NoOverride`) nor cordon one in the middle of `cordonNode`
  (`NoRace`);
* `OnlyEmptyGo`: `Spec => OnlyEmptyDeleted`, from `NoOverride` and a cache of pods
  that keeps up (`NotBehind`).

The last two rest on `MarkInv`: a mark stands for a cordon, and the node on which a pass
makes its next call still has its mark or is gone. So no pod can come to a node
between the look at its pods and its deletion (`EmptyInv`), and no administrator
can cordon it, since it is cordoned (`AdminInv`). The excluded cases are those of
the further counterexamples; all three theorems leave crashes, failing nodes,
timeouts and every order of the pool's passes in.

`NodePoolProofs` proves, for every number of names and all limits,

* `PoolTypeCorrect`: `Spec => []TypeOK`, whatever happens;
* `SweepSparesNodes`: `Spec => SweepSparesClaimed`, whatever happens: a machine is old
  enough to go only if the cache, and the list of the pass that looks, show the node it
  may have (`AgedInv`), and nobody has heard of a node that was not made (`UnmadeInv`);
* `PoolKeepsItsCap`: `Spec => []CapHolds` and `PoolMakesWhatItLacks`:
  `Spec => NeverOvershoots`, from `CreationsAreCounted`: no answer to a creation is
  lost and no failed node is retried, each of which breaks the cap (section 4).
  Crashes, failures, stalled nodes, deletions and the lag of the cache are in.

The cap is about machines, the pool counts nodes, and the list it counts in may be
old. `CountInv` says why that is enough: a list shows a node as what it is or as what
it was before, or the node is one of the new ones that are counted besides (`CacheInv`,
`ListInv`); what is still to be made fits under the limit (`RoomInv`); a node that failed
for good has no machine (`BareInv`); and no more than `MaxNodes` nodes have a machine or
may still get one (`HoldInv`).

The other proof modules take one component after the other. Every theorem is for all
values of the constants, bounds included.

| Theorem | States | Assumes | Inductive invariant |
|---|---|---|---|
| `ClusterProofs!UpgradesAreSafe` | `[]UpgradeSafe` | no incident | `UpgradeInv`: only the node of the status is ever cordoned and the status leaves it only once it is not (`NodeInv`), the mark is on the node cordoned for the upgrade and on nobody else's (`CordonInv`), and what is installed is a release the control plane has (`AheadInv`) |
| `ClusterProofs!RecoveryKeepsData` | `LostSafe` | nothing | `LostInv`: where pods and volumes can be (`PlaceInv`), that what a pass decided still holds of the pods it read (`PodsInv`), that what was given up does not run (`GivenUpInv`), and that while nothing `moved` a copy of the data is one the pass leaves alone (`CopyKeptInv`) |
| `ClusterProofs!SleepersHaveRun` | `[]RolloutSafe` | no lag | `RolloutInv`: from its write on the Deployment has the version of the pass and no later version had a copy up (`VersionInv`); what is verified has run (`RanInv`) |
| `PlatformProofs!ProjectsWithinLimits` | `[]MakingSafe` | only emptied, assigned | `MakingInv`: a request at work on its project has it (`WorkInv`), and an import that has its name has no other of that name before it (`FirstInv`) |
| `PlatformProofs!EnvironmentsAreWhole` | `[]PrSafe` | no overlap, no lag, one repository | `PrInv`: one request about a pull request (`OneEach`), no copy for none (`Owned`), and how far list, status and copies are apart at each call (`PrLocal`, `JobInv`), where a copy counts unless it was dying when it was come to (`Fine`) |
| `PlatformProofs!FoldersAreApart` | `[]BackupsSafe` | no incident | `BackupsInv`: a server writes to an archive that is not going to be deleted and whose folder no other has (`FolderInv`), at most one archive is live (`LiveInv`), and a server that is gone has its archive retired before another is made (`DangleInv`) |
| `ControllerProofs!ReleasesFollow` | `SchemaSafe` | no incident | `LevelInv`, `CheckedInv`, `RunningInv`: the record is at most one level behind the data; who has checked and was not overtaken has both of its own level; and who runs holds the lease, which whoever is to migrate further has waited for |
| `ControllerProofs!BuildShowsItsOwn` | `[]BuildsSafe` | nothing | `BuildsInv`: the build counts its resets (`ResetInv`), a build that has started has a Job of its commit or none (`StartInv`), a pass whose build was put back since finds it not started (`MineInv`), what is to be written is of the commit that was read (`OutcomeInv`), and that commit is one since the reset unless a pass wrote over it (`RecentInv`) |
| `ControllerProofs!SuspectsWereBusy` | `AbuseSafe` | no incident | `AbuseInv`: a run of the present copies lies within their spell, or the next sample comes too late for it (`RunInv`), and what is still to be measured is under no review (`ReviewInv`) |
| `DashboardProofs!ForgottenStaysForgotten` | `SsoSafe` | nothing | the types |
| `DashboardProofs!DeliveriesAreSigned` | `[]HooksSafe` | no incident | `TriesInv`, and `SecretInv`: a delivery may fail to read the Secret at any time; a hook that is stored or listed has its key, also in what the removal of another's key read |
| `DashboardProofs!TokensKept` | `TokensSafe` | no vanish | `TokensInv`: every copy of the Secret holds tokens that were written, and who is to write found nothing to refuse (`CopyInv`); once the project is gone no token for it is being made (`ProjectInv`); a sign-in nobody decided has no token (`FlowInv`) |

Each assumption excludes incidents that break the property (the further
counterexamples), and the run that checks the property makes them too. Each
invariant was checked by TLC on the instance of its run before it was proved. The
attempts changed two models. `Builds!Digest` was defined only for the cases that
happen. And `ServiceAbuse` compared runs with a history that ended with a sample that
did not get to the service, so that `SustainedOnly` held for `MaxGap` 1 only, while
`MaxGap` in the code is three samples: the history is now of the samples that were
taken, and the run has `MaxGap` 2.

Model-checked only:

* the liveness properties, and `OrphansGo` with them: fairness is out of the prover's
  reach;
* `MailSafe`: the reference of `RingsCountRight` is a sum over a set of moments, and
  that a sum changes by what is added to it is an induction over the set;
* `DriversSafe`: twelve drivers, each a sequence of calls that `ComputeDrivers` builds
  and takes apart; planned.

## 6. Not modelled

`PROJECT.json` lists every part under "components", with the reason. Most of the
repository's lines are outside these models: the web UI, generated code, and Go that
renders Kubernetes resources, speaks to one external API, or reads and writes one
object in a request. There the interesting question is whether the rendering is
right, which a state machine says nothing about. Of the parts that are modelled:

* the pool: pools of the user's own servers, what the status only reports (cost,
  messages, counts), more than twenty counted failures, and the deletion of a pool,
  whose nodes go through the API server's garbage collection; the arithmetic of how
  many nodes waiting pods need (any number may be asked for);
* apps: rendering, triggers, promotion of builds, GitHub checks;
* databases: restores, logical databases, the rendering of each engine;
* webhooks: editing, disabling and testing one;
* pull request environments: the settings of the feature (a request may find it off);
* drivers: prices, regions, images, request signing, wire formats;
* dashboard parts: authorization, scopes, hashing, signatures, the HTTP layer.

Candidates with state of their own that are left: the packing arithmetic, the
installer's upgrade with rollback, pruning of etcd snapshots, placement of Longhorn
replicas.
