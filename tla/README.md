# A TLA+ model of the Riak Mesos framework

The framework (`src/`) runs Riak clusters on Mesos. Its scheduler keeps a record
of clusters and nodes, writes it to ZooKeeper, turns resource offers into
reservations and tasks, follows the tasks through status updates, and stops,
restarts and removes nodes. What makes it hard is that four parties act at their
own pace (users, the scheduler's threads, the Mesos master and agents, the
executors), that most messages between them may be lost, repeated or late, and
that the scheduler may crash between any two instructions and has to continue
from what it wrote. On each agent an executor starts, supervises and stops one
Riak, with a goroutine for everything that may happen to it, and registers it in
ZooKeeper for the other nodes to find.

Contents: [parts](#1-the-system-and-its-parts), [modules](#2-the-modules),
[runs](#3-what-the-runs-check), [bounds](#4-bounds), [fairness](#5-fairness),
[proofs](#6-what-is-proved), [findings](#7-where-the-code-and-its-documentation-disagree),
[left out](#8-what-is-not-modelled), [plan](#9-plan).

## 1. The system and its parts

| Part | State | Operations | Talks to |
|---|---|---|---|
| Node, `scheduler/node.go` | `CurrentState`, `DestinationState`, `Generation` (launches), `RestartGeneration`, agent, UUID, `reconciled` | predicates (`CanBeScheduled`, `CanBeKilled`, ...), setters, `ApplyReservedOffer`, `ApplyUnreservedOffer` | called by the cluster |
| Cluster, `scheduler/cluster.go` | `Nodes`, `Graveyard`, `IsKilled`, `IsRestarting`, `Generation` | `ApplyOffer`, `CreateNode`, `RemoveNode`, `RollingRestart`, `GetNodesToRestart`, `HandleNodeStatusUpdate`, `Join`, `Leave` | Riak Explorer of its nodes |
| Scheduler callbacks, `scheduler/scheduler.go` | one lock, one `SchedulerState` | `Registered`, `ResourceOffers` (with one `acceptOffer` goroutine per offer), `StatusUpdate` | the Mesos driver |
| Reconciliation loop, `scheduler/reconcilation.go` | `enabled` | a tick every 5 s: `reconcileTasks`, else `killTasks` | the Mesos driver |
| HTTP API, `scheduler/server.go` | none | create, restart, remove clusters; create, remove nodes; set `riak.conf`, `advanced.config` | users |
| Persistent state, `scheduler/state.go` | one znode | `Persist`, `GetSchedulerState` | metadata manager |
| Offers, `common/offer.go`, `common/utils.go` | what is left of an offer, operations to answer it with | `CanFit*`, `Apply*`, `MaybeUnreserve`, `Operations` | called by nodes |
| Executor, `executor/` | its one Riak node, a lock | `LaunchTask`, `KillTask`, `FrameworkMessage` ("finish") | Mesos, the process manager, ZooKeeper |
| Process manager, `process_manager/` | a child process, its supervising goroutine, a reaper | start, `Listen`, `TearDown` | channels, `SIGCHLD` |
| Metadata manager, `metadata_manager/` | a ZooKeeper session, a tree of znodes, the lock of a framework | create, set, delete, with retries; `SetupFramework` | ZooKeeper |
| cepmd, `cepmd/` | name registrations, one per connection | register, look up, deregister | metadata manager |

Interaction in one paragraph. Users change the wanted state (`DestinationState`,
`IsKilled`, `IsRestarting`). An offer lets `ApplyOffer` give a node an agent, and
a goroutine sends the answer to the master after the lock is released. The
executor on the agent reports its life as status updates, which move
`CurrentState`. A tick of the loop first asks the master about the nodes whose
state it does not know, and only when there is nothing to ask does it stop nodes
(a framework message "finish", or a kill), bury stopped ones and pick the next
node of a rolling restart.

What is hard, in the order of what it would cost (the list with source lines is
`hazards` in `PROJECT.json`):

* **crashes**: a launch must be written down before it is sent, a removal before
  it is confirmed, and `killTasks` sends before it persists;
* **failed writes**: a request whose `Persist` panics is recovered by `net/http`, and
  the scheduler goes on with a memory that is ahead of ZooKeeper;
* **stale knowledge**: after a failover the state of every node is in doubt, yet
  offers come at once, with volumes full of data in them;
* **reordering**: the answer to a reconciliation request may overtake the accept
  that it asks about; updates may be older than the request they meet;
* **loss**: framework messages, answers of the master and accepts are sent once;
* **counting**: ids are made by counting, executors by numbering launches, ports
  by their position in a slice; an offer is checked once and taken from four times;
* **supervision**: Riak may die before anybody has asked to be told, while it is
  being killed, or while its manager ends; a callback that blocks keeps the lock;
* **retries**: an answer of ZooKeeper is lost and its request was performed or not, and
  what is tried again may overwrite what came in between;
* **leadership**: sessions end under live processes, and a standby has read the
  state before it leads;
* **waiting**: removals and restarts end only if messages and updates keep coming.

What makes each part correct:

* scheduler and executor: an executor is never given two tasks (it dies of it);
* persistent state: no crash takes back more than a request that was not answered, even
  if writes fail; ids and UUIDs are never reused;
* offers: no volume is destroyed that a task uses or that a node waits for;
* loop: doubt about a node ends, and so does a removal;
* rolling restart: it ends, when every node was restarted, and stops one at a time;
* offers, in numbers: nothing is overdrawn, given twice or lost, no port goes to two
  nodes, and the master can perform the operations in the order they are sent;
* executor, process manager: no child is left over, the reaper survives, the updates of
  all goroutines have their place in one life of a task, and news of a death is passed on;
* metadata manager: a write takes effect when it is acknowledged, never after it was
  given up, before that at most once per lost answer; it is not given up early, and a
  race to create what all need ends nobody;
* leadership: a leader whose session lasts holds the lock and the published `uri`, and a
  standby takes over;
* cepmd: every name has somebody to delete it, and one that nobody holds is forgotten.

## 2. The modules

| Module | Models | |
|---|---|---|
| `FrameworkRiakNode` | `scheduler/node.go` | operators only: the node record, its predicates and setters, and what `json` leaves of a node |
| `OfferHelper` | `common/offer.go`, `common/utils.go`, `ApplyReservedOffer` and `ApplyUnreservedOffer` of `scheduler/node.go` | one offer divided among nodes: amounts, ports, operations |
| `ProcessManager` | `process_manager/` | manager, reaper, children and channels of one Riak |
| `RiakExecutor` | `executor/` | extends it with callbacks, lock, `runLoop` and signal watcher |
| `TaskLife` | what an executor may say of its task | the abstract specification of `RiakExecutor` |
| `MetadataManager` | `metadata_manager/manager.go`, over ZooKeeper (external) | operators only: calls, requests, retries, sessions |
| `Coordination` | its callers: `Persist` of `scheduler/state.go`, the znodes of executors | extends it with schedulers that persist, executors that start |
| `Register` | what `Persist` should mean | the abstract specification of `SetData` |
| `Cepm` | `cepmd/cepm/cepm.go`, the calls of `erlang_dist/src/erl_epmd.erl` | extends `MetadataManager` with connections |
| `Leadership` | `NewSchedulerCore`, `Run`, `metadata_manager/framework.go` | extends `MetadataManager` with the lock and registration |
| `Mesos` | the master, the agents (external), `executor/` as far as its updates show | offers being answered, tasks, their updates and messages, volumes |
| `Scheduler` | `scheduler/`: cluster, callbacks, loop, API, persistence | the specification, its properties |
| `ClusterRegistry` | what users may rely on | the abstract specification: clusters and nodes, and a saved copy of them |
| `MCScheduler`, `MCOfferHelper`, `MCCoordination`, `MCCepm`, `MCLeadership` | | constants for TLC |
| `SchedulerClaims`, `RestartClaim`, `ExecutorClaims` | statements of `README.md`, comments, messages and tests | properties that the code violates; those of `Coordination`, `Cepm` and `Leadership` stand at their ends |
| `SchedulerProofs` | | lemmas on types, `TypeCorrect`, `NeverBehind`, `NothingIsLost`, `IdsStayDense`, `SchedulerImplementsRegistry` |
| `LaunchProofs` | | extends it: `ExecutorsAreFresh`, `TasksKeepVolumes`, `WaitingNodesKeepVolumes` |
| `SupervisionProofs` | | `Types`, `NoChildIsLeftOver`, `ReaperAlwaysSurvives`, `TaskLifeIsImplemented` |
| `OfferProofs` | | `OfferTypes`, `NeverOverdrawnSafe`, `PortsExclusiveSafe`, `RangesExactSafe`, `ConservedSafe`, `AnswersCanBePerformedSafe` |
| `MetadataProofs` | | lemmas only: what each request of a call does to znodes, sessions and faults |
| `CoordinationProofs` | | extends it: `CoordinationTypes`, `EnsureToleratesSafe`, `MadeNodeIsOwnSafe`, `PersistToleratesSafe`, `PersistIsRegisterSafe` |
| `LeadershipProofs` | | extends `MetadataProofs`: `LeadershipTypes`, `LeaderOwnsUriSafe`, `OneLeaderSafe` |
| `CepmProofs` | | extends `MetadataProofs`: `CepmTypes`, `NameHasKeeperSafe` |

`Scheduler` extends `Mesos`, which extends `FrameworkRiakNode`. The parts meet where
one takes for granted what another one shows: `Scheduler` takes the outcome of
`OfferHelper` as a choice, the life of a task up to its first terminal update from
`TaskLife` (a master passes on no update of a task that has ended), and from `Register`
that a write is there when `Persist` returns; `RiakExecutor` is given one task only,
which is `ExecutorStartedOnce`.

### The scheduler

**State.** `nodes` is one function over all ids `<<cluster, SimpleId>>`; the field
`place` says whether the node is in `Nodes`, in `Graveyard` or nowhere. `clusters`
holds the flags and the restart generation of each name. `stored` is the znode;
`unsaved` says that the write of a request failed and that none has succeeded since.
`enabled` says that the process is registered. `ring` is membership in the Riak
ring, as changed by `Join` and `Leave`. On the Mesos side, `accepts` holds one
record per `acceptOffer` goroutine (or message of it under way), `tasks` the task
known under each id with its unacknowledged updates and the message on its way to
it, `answers` the updates made up by the master (they are not retransmitted),
`vols` the persistent volumes, and `executors` is a history of those started.

**Atomicity.** Every API request, callback and tick holds `SchedulerCore.lock`
from start to end, so each is one action, `Persist` included. `Persist` may fail:
`SetDataWithRetry` panics when it gives up. In a callback or a tick the panic ends the
process, which is one of the crashes below. In a request (`PersistFails`) `net/http`
recovers it and the deferred `Unlock` runs: memory keeps the change, ZooKeeper does not
have it, the user gets no answer, and the scheduler goes on until a later `Persist` of
any handler carries both, or a crash takes the change back. Outside the lock run the
accept goroutines. A crash may come between any two instructions. Inside a
handler it differs from a crash before the handler only if something left the
process before `Persist`; there are two such places, messages in `killTasks` and
Riak Explorer calls in `StatusUpdate`, and each has an action of its own
(`CrashInKillTasks`, `CrashInStatusUpdate`). Everywhere else a crash before
`Persist` is `Failover` before the handler, and one after it is `Failover` after.

**Offers.** The arithmetic of cpus, memory, disk and ports is reduced to its
outcome: `launch` and `reserve` are any sets of nodes for which the offer is large
enough, limited by what is structural (a reservation is there for each volume and
serves one node). Which node wants what of an offer, what is unreserved, what is
destroyed, when the state is written and what the goroutine sends follow the code.

**Mesos.** Its behaviour is taken from how the code uses it. Updates of agents are
repeated until acknowledged (`AgentUpdate` may leave the queue as it is). What the
master makes up itself, `TASK_ERROR` for an invalid launch, `TASK_LOST` for a
rescinded offer, answers to reconciliation, is sent once and may be lost. A launch
under an id the master still knows is invalid. An update passes through the master
after the answers it sent before. A volume is in at most one offer and in none
while a task uses it.

**Executor.** `TaskStarting`, `TaskRunning`, `TaskFails` and `DeliverMessage` are
what its goroutines end in. `LaunchTask` holds the executor's lock until Riak
answers, so no message is handled in between. `RiakExecutor` has the goroutines.

### Offers in numbers

`OfferHelper` follows one offer from `NewOfferHelper` to `Operations`. `ApplyOffer(n)`
is the body of the loop over nodes, in any order, for a node in any state (it
launches, reserves or does nothing). `reserved` and `unreserved` are the two
`ResourceGroup`s as far as they are left; a slice of ports may be cut out wherever
`rand.Intn` may point to. Amounts are naturals; the code adds, subtracts and compares
float64s. `Pool`, `Move` and `Perform` are the master, performing the operations of an
answer one after the other; a launch on a volume that is not there is refused alone,
which is `Scheduler`'s business.

### Executor and process manager

Each goroutine is a process (manager, reaper, `LaunchTask`, `runLoop`,
`FrameworkMessage`, `KillTask`, signal watcher), and each channel operation, system
call and select branch is a step. `loop` is `startProcessManager` followed by
`background` and `killProcess`; `reaper` is `processManagerLoop`, in its select or
blocked in `Wait4(-1)`. Riak boots, comes up and dies when it likes; `cp`, the child of
`KillEPMD`, is the one other child, and its `SIGCHLD` is one of those the reaper takes
for Riak's. `consoleLog` may be readable from the beginning, left on the volume by an
earlier run. `updates` has every update that any goroutine sends, in the order sent:
those of `LaunchTask` and `runLoop`, `TASK_KILLED` of `KillTask`, and the `TASK_RUNNING`
that `next` repeats for each `SIGUSR2`. (Nothing in the repository sends that signal; an
operator may.) A send on a closed or nil channel does what Go says: `Crash`, `reaperPanic`
or a goroutine that is blocked for ever. Reuse of pids is neglected.

### ZooKeeper and what is kept in it

`MetadataManager` has a call per goroutine (`calls`), which goes through the requests of
the function that it stands for (`pc`), with the retries of that function (`try`), the
version (`stat`) that its last `Get` returned and, as history, how often it has `wrote`.
`SetDataWithRetry` asks for a version and sets, and does both again after an error. Its
other branch, which creates the znode, is taken for a nil `stat`; the `zk` library (not
part of the repository) returns a `Stat` together with its errors, so it is not
reached. The answer to any
request may be lost, whether it was performed or not (`faults`), after which
`CreateConnection` keeps the session or takes a new one. `SessionEnds` takes the
ephemeral znodes of a session along; a panic takes its process (in a request to the HTTP
server it does not, which `Scheduler` has). Reads are taken as up to
date; paths are flat names whose parents exist, and `Delete` deletes a leaf; the outer
retries of `getChildren` and `GetRootNode` read only.

`Coordination` starts with a framework that has run before: schedulers (the leader, and
one that takes itself for it) persist any states, executors go through their `Program`
of calls. `Cepm` has one goroutine per connection; a client closes its connection when
it likes. `Leadership` follows each scheduler from reading the state over the lock (a
queue of sessions, external, which a session enters once and leaves when it
ends) and the `uri` to registration, and Marathon (external) starts it again after a crash.

## 3. What the runs check

| Run | Instance | Checks | Distinct states |
|---|---|---|---|
| `failover` | one slot, two successive clusters of one name, two launches each, writes of requests that fail, two crashes, two offers in flight | `ExecutorStartedOnce`, `CrashLosesNothing` | 1,464,000 |
| `two_nodes` | two nodes, one ring, creations that fail to be written, a crash | `ImplementsRegistry` | 374,000 |
| `reservations` | one node, two agents (symmetric), volumes, two launches, writes of requests that fail, a crash | `KeepsVolumesInNeed`, `ImplementsRegistry` | 400,000 |
| `shared_agent` | two nodes with volumes on one agent | `RunningTaskKeepsVolume` | 664,000 |
| `liveness` | one node, two launches, a rolling restart, a crash, fairness | `TypeOK`, `EventuallyReconciled`, `AddressableRemovalEnds` | 55,000 |
| `offers` | 360 offers to three nodes of two sizes, with and without reservations | `Conserved`, `NeverOverdrawn`, `PortsExclusive`, `RangesExact`, `AnswersCanBePerformed` | 31,000 |
| `executor` | one executor, two ticks, two "finish"es, two `SIGUSR2`s, kills, fairness | `TypeOK`, `NoChildLeftOver`, `ReaperSurvives`, `ImplementsTaskLife`, `SupervisedTaskEnds`, `SupervisedStartEnds` | 124,000 |
| `coordination` | two schedulers with two `Persist`s each, or two executors; two lost answers, two sessions, crashes | `TypeOK`, `EnsureTolerates`, `MadeNodeIsOwn`, `PersistTolerates`, `PersistIsRegister` | 1,350,000 |
| `cepm` | two registrations of one name through two executors and a query; a lost answer, crashes, fairness | `TypeOK`, `NameHasKeeper`, `NameIsForgotten` | 219,000 |
| `leadership` | two schedulers, a lost answer, two sessions each, crashes, fairness | `TypeOK`, `LeaderOwnsUri`, `StandbyTakesOver` | 336,000 |

* `ExecutorStartedOnce`: no launch under way names an executor that was started
  before or that another launch names. It takes the write of the new `Generation`
  before the goroutine starts, and a crash, to see why the order matters.
* `CrashLosesNothing`: over a crash, memory changes in the two unexported fields at
  most, unless a write has failed and none has gone through since; and while that is so,
  only requests change anything. So what an offer, an update, a tick or an answered
  request has changed is never taken back: the first write that goes through has
  everything in it.
* `KeepsVolumesInNeed`: an answer that destroys volumes is given only when no node
  is in doubt, and destroys no volume of a node that can be scheduled on it.
* `RunningTaskKeepsVolume`: a live task has its volume, on its agent.
* `ImplementsRegistry`: through ZooKeeper the scheduler is `ClusterRegistry`, with
  the refinement mapping at the end of `Scheduler`: the contents of memory and those of
  the znode, which is the saved copy. Ids are first-unused and UUIDs fresh, burials
  final, clusters go only when killed and empty; a request may be left unsaved and a
  crash goes back to the saved copy; offers, updates and messages do not show.
  In `two_nodes` creations fail to be written, and an id that a crash has taken back is
  given out again, its UUID is not; in `reservations` every request may fail.
* `EventuallyReconciled`: a node in doubt does not stay so.
* `AddressableRemovalEnds`: a removal ends, provided the task that runs is, from
  some point on, the one the scheduler believes in. The proviso is needed: see
  `claim_removal`.

* `Conserved`, `NeverOverdrawn`: what is left, launched, reserved and withheld for
  executors adds up to the offer, and no part of it goes below zero, for any order of
  nodes; `PortsExclusive`: no port is given twice or given and kept; `RangesExact`:
  the ranges sent are exactly the ports taken, and Riak is configured with three of
  them; `AnswersCanBePerformed`: the operations succeed in their order.
* `NoChildLeftOver`: the manager is done only when Riak is dead and collected, however
  it came to its end. `ReaperSurvives`: a death collected while the manager closes its
  channel is not sent on it. `ImplementsTaskLife`: the updates of all goroutines,
  in the order sent, are a behaviour of `TaskLife`. `TASK_RUNNING` follows a start that
  succeeded and nothing repeats it once the task is killed, `TASK_KILLED` is said once,
  the end of Riak is said once and as `TASK_FINISHED` exactly if "finish" was taken up.
  It is not claimed that a terminal update is the last one, because it need not be: Riak's
  death may be reported after `TASK_KILLED`, and `next` or `KillTask` may report between the
  end of Riak and the exit. `Mesos`, which follows a task up to its first terminal
  update, takes no more than that from it.
* `SupervisedTaskEnds`: once somebody listens, a noticed death or a `TearDown` ends the
  executor, whichever callbacks are blocked with the lock; `SupervisedStartEnds`:
  `LaunchTask` gets an answer, if the reaper knew the child before it died. The provisos
  are needed: see `ClaimNotify.cfg` and `ClaimStart.cfg` below.
* `PersistIsRegister`: `SetData` of two writers, with its retries, implements `Register`:
  a write takes effect at the moment that it is acknowledged, never after it has failed,
  and before that at most once for each answer that was lost. A retry reads the version
  again, so after a lost answer it can overwrite what another scheduler has written, and
  been told is written, in between; the register allows that, and says how often.
  `PersistTolerates`: a `Persist` is given up only after more setbacks than there are
  retries, lost answers or writes of others.
  `EnsureTolerates`: nobody dies of losing the race for a shared znode. `MadeNodeIsOwn`:
  within its first session, an executor's znode is its own, with what it last wrote.
* `NameIsForgotten`: a name without a connection that holds it disappears, up to the one
  way in which it stays: a registration that is written but cannot be read back, with as
  many lost answers as there are retries and one more, is answered `ERROR` and kept.
  `NameHasKeeper`, the safety half of it: as long as a name is registered, a goroutine
  of the process that made it is still to delete it, or its session was given up and
  will expire, up to the same number of lost answers.
* `LeaderOwnsUri`: a scheduler that leads, with the session it locked with, has the lock
  and owns the `uri`. The converse does not hold: a session that expires between `Lock` and
  `Create` leaves a `uri` whose owner does not have the lock. `StandbyTakesOver`: nobody waits for a lock or `uri` that nobody releases.
  (A leader whose session has ended notices nothing and goes on; its `uri` is gone.)

Each of these has a mutant of the code that breaks it (`mutants` in `PROJECT.json`;
the mutated operators stand just before the ones they replace).

## 4. Bounds

All bounds are constants and appear in guards: `MaxNodes` (slots per cluster),
`MaxUuid` (nodes ever created), `MaxGeneration` (launches per node), `MaxRestarts`,
`MaxCrashes`, `MaxAccepts` (offers in flight), `MaxAnswers` (answers in flight per
id; a full channel loses the answer to a question, which a lossy channel may do
anyway, and makes a launch's own answer wait). They bound how often something
happens, not what may happen. `MayFail` is the set of
requests whose write may fail: all of them in `failover` and `reservations`, those that
create clusters and nodes in `two_nodes` (a removal may be asked for, and fail, in every
state, which multiplies them), none elsewhere: the claims are violated without, liveness
is not about what is written, and `RunningTaskKeepsVolume`, like all else, is proved for
any `MayFail`.

Why they are enough: what the executor property needs is a second launch, a second
UUID in the same slot and a crash between launch and accept, all in `failover`; the
registry needs two ids, burial of either, the end of the cluster and a creation that a
crash takes back (`two_nodes`);
volumes need a second agent, for offers that do not have the node's volume
(`reservations`), and a second volume in one offer (`shared_agent`). One cluster
name suffices because clusters meet only in `NeedsReconciliation`, which is a
disjunction over all nodes, whichever cluster they are in. The proofs do without
bounds of any size.

`OfferHelper` bounds nothing but its offers: exact fits, room for none, one or two of
three nodes, ports in one piece, in pieces and out of order, volumes of one node, of two
and of a node that is gone. `ProcessManager` has `MaxTicks` (60 in the code: how often
the start loop goes round; the second tick is as good as the last), `RiakExecutor`
`MaxFinish` and `MaxNext`, the messages and signals that arrive: a second "finish" meets a
manager that ends or has ended, a second `SIGUSR2` an end that was reported. `MetadataManager` has `MaxRetries` (10 in the code; what
counts is whether there are as many lost answers as retries, so 2 and 2), `MaxFaults` and
`MaxSessions`. `Teams` in `Coordination` bounds who runs at the same time: schedulers and
executors write different znodes. In `cepm` one retry and one lost answer, in
`leadership` one lost answer and no retry: retries are checked in `coordination`.

## 5. Fairness

`Fairness` assumes only what code and Mesos justify.

* Weak, for the two halves of a tick: `time.Tick` fires forever and the loop has no
  exit. Of `killTasks`, the case without the kill fallback, which is taken only
  when the driver reports an error.
* Weak, for `Registered` or `Reregistered`: the driver registers again after a restart.
* Strong, for `AgentUpdate`, `MasterUpdate` and `DeliverMessage`: agents retransmit
  until acknowledged, and a tick asks and sends again whatever it asked and sent
  before, so that an unbroken series of losses would be needed.
* Weak, for `TaskStarting`, `TaskRunning`: `LaunchTask` runs to its end.

* `RiakExecutor`, weak: goroutines that can run do run (manager, reaper, `LaunchTask`,
  `runLoop`, `TearDown`), and a process that is sent `SIGKILL` dies. Riak need not come up,
  write its log, or die otherwise; messages and signals need not come.
* `Cepm`, `Leadership`, weak: goroutines run, requests get an answer or an error, and
  ZooKeeper ends the sessions of processes that are gone. Clients need not hang up.

Users, offers and crashes need not ever act. `OfferFairSpec` (only for
`ClaimRelaunch.cfg`) adds that large offers keep coming and get accepted.

## 6. What is proved

The theorems hold for every value of the constants that the assumptions
`NodeAssumption`, `MesosAssumption` and `SchedulerAssumption` admit: bounds are
natural numbers, `CompatibilityMode` is a Boolean, `NoSlave` is no agent. The sets
of names and agents are arbitrary, and so is `MayFail`. Those of `SupervisionProofs` hold for every
`MaxTicks`, `MaxFinish` and `MaxNext` (`ProcessManagerAssumption`, `ExecutorAssumption`).
Those of `OfferProofs` hold for all offers of any length: the amount of each resource is
a natural, no port is listed twice, and finitely many nodes have any needs
(`OfferAssumption`); a Mesos agent offers no port twice, and a scheduler has finitely
many nodes. Those of `CoordinationProofs`, `LeadershipProofs` and `CepmProofs` hold for
any sets of schedulers, executors and connections, any number of retries, lost answers
and sessions (`MetadataAssumption`, `CoordinationAssumption`, `LeadershipAssumption`,
`CepmAssumption`): the constants are naturals, each executor and scheduler is a process
of its own, the path of an executor's znode is none of the shared ones, and a connection
registers or asks, not both.

* `TypeCorrect`: `Spec => []TypeOK`. One lemma per group of actions; the lemmas on
  setters, tasks and launches are reused by all other modules.
* `NeverBehind`, `NothingIsLost`: the invariant `StoredInv` is inductive by itself given
  types. `StoredIsCurrent`: between handlers `stored` is the serialized memory, or a
  request's write failed and none has succeeded since (`unsaved`); `StoredIsWritten`:
  what is stored is in the form that `serialize` writes, so that reading it back and
  writing it again changes nothing. Requests persist or fail to; every other handler
  writes or has not changed what it would write (`WritesChanges`): an update persists
  when it found its node, `ResourceOffers` and `killTasks` when they changed something
  that is serialized, `reconcileTasks` changes nothing that is.
* `ExecutorsAreFresh`: `ExecutorStartedOnce` says nothing of the next launch, so it
  is strengthened by `Covers`: no two nodes share a UUID and none is ahead of the
  counter (`UuidsIdentify`), and a node's `Generation` is at least that of every launch
  of its UUID, started or under way (`GenerationsCover`). It is claimed of the nodes in
  memory and of those in ZooKeeper, which a crash goes back to: a launch is written
  before it is sent, and a request, the only thing that may fail to be written,
  launches nothing.
* `TasksKeepVolumes`: `RunningTaskKeepsVolume` needs to know about the offers being
  answered: what is in one exists and is in no other (`OffersExclusive`), no task
  uses it (`OffersUnused`), and an answer that destroys launches nothing and
  destroys only what its offer holds (`AnswersFit`). Without reservations there are
  no volumes (`NoVolumes`), which keeps the invariant true in that mode too.
* `WaitingNodesKeepVolumes`: the action property, from the definitions of
  `NeedsReconciliation` and `MaybeUnreserve`.
* `IdsStayDense`, `SchedulerImplementsRegistry`: ids given out by a cluster are
  `1..m` for some `m` (`IdsDense`), an empty slot has no UUID (`UuidsMark`), and only
  existing clusters are killed (`KilledExist`), in memory and in what is stored. Counting then yields `m + 1`
  (`NextId`, by cardinalities of intervals). Every action is shown to be one of
  `CreateCluster`, `KillCluster`, `AddNode`, `Retire`, `Other`, `Crash`, or to leave the
  register as it is.

* `Types`, `NoChildIsLeftOver`, `ReaperAlwaysSurvives`: `NoChildLeftOver` is not
  inductive. `SupervisionInv` adds that Riak is started once (`StartedOnce`) and that
  what the manager knows is true (`Collected`): a death in `waitChan` is one of a child
  already collected, the manager returns only after it, and closes the channel only at
  its end. The reaper then cannot meet a closed channel, because Riak, its one
  subscription, is collected by then.
* `TaskLifeIsImplemented`: every step is a step of `TaskLife` or does not show. It needs
  `SaidInv` (what has been said agrees with where `LaunchTask` and `runLoop` are, and who
  has said `TASK_KILLED` keeps the lock) and `LockInv` (when `LaunchTask` and "finish" have
  the lock), from which it follows that `next`, `KillTask` and "finish" act only
  after `TASK_RUNNING` and not after `TASK_KILLED`.

* `OfferTypes`, `NeverOverdrawnSafe`: the invariant `OfferTypeOK` says that both groups
  hold naturals and distinct ports, and that launched and reserved nodes are disjoint. A
  node takes from a group up to four times after a single `CanFit`; the lemmas on
  `CanReserve` and `CanLaunch` show that it covers their sum.
* `PortsExclusiveSafe`: the slice that is cut out and its rest partition the ports of a
  group (`TakingPorts`, `LeavingPorts`), so ports of nodes served before are not in the
  group any more.
* `RangesExactSafe`: each task is `TaskInfo` of a node and of as many ports as were asked
  for (`TasksFromPorts`). Ports can be sorted: a permutation that has put the first `n`
  in order can be made one that puts `n + 1` in order (`OrderOneMore`), so `Sorted`
  yields the ports in increasing order (`SortedPorts`). `Covers` is the loop invariant of
  `ArrayToRanges`: after `k` ports the ranges end with the last of them, hold all of them
  in order, and leave a gap between any two.
* `ConservedSafe`: `Balances` states the sums over sets of nodes, with one node added at
  a time; that a sum over a set grows by the amount of a new member rests on the
  library's theorems on finite sets and on the fold that defines `Total`.
* `AnswersCanBePerformedSafe`: an answer that gives back launches nothing and gives back
  everything (`AnswerShape`, inductive because no node is served once the answer is
  given). What `Conserved` says of the launches leaves `Enough` for the reservations.
  A set of resources of one name is worth no more than `getResource` adds up, which counts
  what is offered twice twice (`SetWithinSum`); so volumes and reservations that are given
  back do not exceed what is reserved. One lemma per operation says what `Perform` does.

  The library's induction theorems cannot be used with the installed provers. What the
  folds of `OfferHelper` (`Total`, `getResource`, `RangesToArray`, `ArrayToRanges`,
  `Perform`) and its sort compute is proved by minimal counterexample instead, from the
  well-foundedness of `<` and of strict subsets (`SmallestNat`, `SmallestSet`): a fold
  exists (`FoldExists`), and goes through the positions one after the other (`FoldRuns`).
* `CoordinationTypes`, `EnsureToleratesSafe`, `MadeNodeIsOwnSafe`: the inductive invariant
  `Inv` of `CoordinationProofs`. `MmInv` (from `MetadataProofs`) has types, the requests
  that each kind of call goes through, and that who has panicked has no process.
  `ProgramInv` says which call an executor is in. `EnsureTolerates` is
  about calls that gave up; `EnsureInv` counts for the others too: a call has had at most
  one try more than answers were lost, because a race that is lost is found out by the
  next look, and `SharedInv` (shared znodes are persistent) keeps that look from being
  wrong again. `OwnInv` follows an executor's znode from its creation to its deletion or
  the end of the session, through retries that may have been performed.
* `PersistToleratesSafe`, `PersistIsRegisterSafe`: `PersistInv` counts, for every `SetData`
  of the state, the setbacks since it began (lost answers, and versions that others have
  written) against its retries and its own writes: a retry has had a setback of its own,
  and a version that was read is refused only if somebody has written since.
  `SchedulerState` is never deleted (`SharedInv`), so a refused `Set` is always one of
  these. Every step of `Coordination` is then a step of `Register` or a stutter.
* `LeadershipTypes`, `LeaderOwnsUriSafe`, `OneLeaderSafe`: the inductive invariant `LeInv`.
  A session is in the queue once, none there is newer than that of its process, and
  the one of a scheduler that has yet to queue is not there (`QueueInv`); a
  scheduler calls for its state alone, and reads data (`CallInv`); a ticket is of the current
  session or of an earlier one (`TicketInv`); who was told that it has the lock is first
  in the queue, while its session lasts (`LockInv`); and who has announced itself
  with its session owns the `uri` (`UriInv`). TLC checked `LeInv` with two sessions per
  process on 4.4 million states before it was proved. `OneLeader`, in
  `LeadershipProofs`, follows: two schedulers cannot both be first in the queue.
* `CepmTypes`, `NameHasKeeperSafe`: the inductive invariant `CepmInv`. A handler is in the
  call its state says, for its own name (`ConnInv`), and every name is ephemeral and has a
  keeper (`Kept`). A keeper could stop being one by failing to register, so `Keeper` adds
  that one that reads back what it wrote has lost an answer for each of its retries: as
  long as the znode is there no reply makes it try again, and only more lost answers than
  retries make it give up.

Only model-checked:

* `EventuallyReconciled`, `AddressableRemovalEnds`, `SupervisedTaskEnds`,
  `SupervisedStartEnds`, `NameIsForgotten`, `StandbyTakesOver`: liveness, which rests on
  fairness and `ENABLED`;
* the claims of the next section, which are counterexamples.

## 7. Where the code and its documentation disagree

Two runs end with a counterexample (`findings` in `PROJECT.json` has the quotations):

* `claim_removal` (`EveryRemovalEnds`): the master answers `LOST` before the accept
  arrives, the node is launched again, the second launch is refused: "finish" now
  names an executor that does not exist, at every tick.
* `claim_framework` (`SameFrameworkId`): a standby that read the state before the first
  leader registered asks for a second framework ID and overwrites the state.

The other configurations `Claim*.cfg` do the same for further statements; they are kept
beside the runs and are checked with the module in brackets:

* `ClaimRelaunch.cfg` (`SchedulerClaims`, `StoppedNodeIsRelaunched`): a node meant to
  restart gets a late `TASK_RUNNING`, is wanted `Started` again, and stops because of the
  "finish" sent before: `Started` and `Shutdown` is a pair that `CanBeScheduled` refuses
  for ever (`node.go:297`; `README.md:89`, "attempt to relaunch the task").
* `ClaimBuried.cfg` (`SchedulerClaims`, `BuriedNodeIsKilled`): a node removed while it
  starts is sent "finish" and buried in the same tick; if the message is lost the task
  stays (`node.go:311`; `cluster.go:237`, "a node that's already been killed").
* `ClaimRestart.cfg` (`RestartClaim`, `AllNodesRestarted`): a repeated `TASK_RUNNING`
  counts as the end of a restart that never happened (`node.go:358`; `cluster.go:192`,
  "all nodes already restarted").
* `ClaimVolumes.cfg` (`SchedulerClaims`, `UnusedVolumesDestroyed`): "no nodes can use it"
  (`offer.go:90`) is taken to mean that none can be scheduled now: a volume of a stopped
  node is destroyed.
* `ClaimSpread.cfg` (`SchedulerClaims`, `NodesAreSpread`): nodes are not spread over
  agents (`cluster.go:94`; `README.md:29`).
* `ClaimRing.cfg` (`SchedulerClaims`, `BuriedNodeLeftRing`): a node that fails does not
  leave the ring (`cluster.go:259`; `README.md:88`, "remove the node from the Riak
  cluster").
* `ClaimForgotten.cfg` (`SchedulerClaims`, `RemovalIsRemembered`): a late status update
  or a rolling restart turns a requested removal back (`node.go:351`, `cluster.go:185`;
  `README.md:87`, "removal of the node").
* `ClaimNotify.cfg` (`ExecutorClaims`, `ListenerIsTold`): a stale `SIGCHLD` of `cp` has the
  reaper wait in `Wait4(-1)` with the subscription of Riak's pid unread, so the death is
  dropped (`manager_reaper.go:95`); or Riak dies before the manager reads the listener
  (`manager.go:38`; `manager_test.go:47`, `status := <-re.Listen()`).
* `ClaimStart.cfg` (`ExecutorClaims`, `StartEnds`): the reaper takes a `SIGCHLD` before the
  queued subscription while `killProcess` has seen the zombie alive: `<-waitChan`
  (`manager.go:186`) is never served and `LaunchTask` never returns (`manager.go:72`,
  "Wait 60 seconds for the process to start").
* `ClaimKill.cfg` (`ExecutorClaims`, `KilledRiakIsShutDown`): `finishChan` is never made;
  after `TASK_KILLED` Riak runs on and the executor is blocked with its lock held
  (`executor/node.go:343`; line 97, "Finish channel says to shut down Riak").
* `ClaimDied.cfg` (`ExecutorClaims`, `ReportedRiakIsDead`): subscribers are notified before
  the process is killed (`manager.go:152`; `node.go:89` of `executor/`, "Riak Died").
* `ClaimHealth.cfg` (`ExecutorClaims`, `RunningRiakHasStarted`): the test of the error of
  reading `console.log` is inverted (`executor/node.go:264`; line 266, "Riak started").
* `ClaimUnregister.cfg` (`MCCepm`, `RegisteredUntilDisconnect`): the end of an old
  connection, or session, deletes the registration of a newer one (`cepm.go:67`;
  `protocol.txt:8`, "TCP disconnect unregisters node").
* `ClaimRegister.cfg` (`MCCepm`, `RegistrationIsWritten`): a shadowed `err` hides that a
  registration was not written (`manager.go:413`; `cepm.go:58`, "we blow up the entire
  process").

`RestartClaim` adds a history variable to the specification (the launch that was
current when the restart began); it constrains nothing.

## 8. What is not modelled

* The text of configurations, status pages, bucket types, roles and principals: no
  control depends on them in what is modelled.
* Time. The 5 seconds between questions are a choice (`reconcileTasks` may leave out
  nodes it has asked about before); time-outs may come at any moment; the sleeps of
  `doJoin` and `doLeave`, during which the scheduler's lock is held, are not seen.
* The versions and retries of a write inside `Scheduler`: there a `Persist` succeeds or
  fails as a whole. `Coordination` has its requests, and two schedulers that overwrite each
  other's state; `Scheduler` has one scheduler at a time.
* Stale reads of ZooKeeper, trees of znodes, watches. The znode of an executor goes with
  its session and is not made again (`SetData` then retries `Get` and panics);
  `MadeNodeIsOwn` ends with the first session for that reason.
* Several tasks per executor (excluded by `ExecutorStartedOnce`), several children per
  process (there is one manager), exit statuses, chroot and rlimits. The signal channel
  is closed before `signal.Stop` is called; the instant between is not modelled.
* What the Riak Explorer client sends and reads (`riak_explorer/client.go`): the outcomes
  of its calls are choices in `Join` and `Leave` of `Scheduler`.
* `net_kernel.erl` and `inet_tcp_dist.erl` (copies of Erlang/OTP modules), embedded
  artifacts, command line.

## 9. Plan

Done: the scheduler with Mesos around it, its abstract register and its proofs; offers
in numbers; executor and process manager with their abstract life of a task and its
proofs; the metadata manager with its abstract register; cepmd; leadership; the proofs
of `OfferHelper`, `Coordination`, `Leadership` and `Cepm`. Every safety property that a
run checks is proved. Left, in this order:

1. Rolling restart of two and more nodes over a smaller Mesos side: how many are down at
   once (`cluster.go:167`).
