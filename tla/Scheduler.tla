----------------------------- MODULE Scheduler ------------------------------
(***************************************************************************)
(* The framework scheduler (scheduler/): clusters and nodes in memory, the *)
(* copy of them in ZooKeeper, the HTTP API, the Mesos callbacks and the    *)
(* reconciliation loop. Every entry point takes SchedulerCore.lock for its *)
(* whole duration, so each is one action; what runs outside the lock is    *)
(* the goroutine that accepts an offer (accepts, module Mesos), and what   *)
(* can come between two instructions is a crash of the process.            *)
(***************************************************************************)
EXTENDS Mesos

CONSTANTS
    MaxCrashes,     \* bound: crashes of the scheduler process
    MaxAccepts,     \* bound: offers being accepted at the same time
    MayFail         \* bound: the requests whose write may fail

ASSUME SchedulerAssumption ==
    MaxCrashes \in Nat /\ MaxAccepts \in Nat

VARIABLES
    clusters,   \* SchedulerState.Clusters, without the node maps
    nodes,      \* their Nodes and Graveyard maps: CurrentID() -> node
    stored,     \* what the znode SchedulerState holds
    unsaved,    \* a request's write failed, and none has succeeded since
    enabled,    \* registered with Mesos since the process started
    nextUuid,   \* the next fresh UUID
    ring,       \* nodes that have joined the Riak ring of their cluster
    crashes     \* number of crashes so far

schedulerVars == <<clusters, nodes, stored, unsaved, enabled, nextUuid, ring, crashes>>
vars == <<schedulerVars, mesosVars>>

\* NewFrameworkRiakCluster, and the absence of a cluster of that name. A cluster
\* in SchedulerState.Graveyard is only ever logged, so it counts as absent.
Cluster == [assigned : BOOLEAN, IsKilled : BOOLEAN, IsRestarting : BOOLEAN,
            Generation : 0..MaxRestarts]

NoCluster == [assigned |-> FALSE, IsKilled |-> FALSE, IsRestarting |-> FALSE, Generation |-> 0]

NewFrameworkRiakCluster == [NoCluster EXCEPT !.assigned = TRUE]

State == [clusters : [Names -> Cluster], nodes : [Id -> Node]]

\* Clusters, nodes, their stored copy and what Mesos holds are well typed, counters within
\* their bounds.
TypeOK ==
    /\ MesosTypeOK
    /\ clusters \in [Names -> Cluster]
    /\ nodes \in [Id -> Node]
    /\ stored \in State
    /\ unsaved \in BOOLEAN
    /\ enabled \in BOOLEAN
    /\ nextUuid \in 1..(MaxUuid + 1)
    /\ ring \subseteq Id
    /\ crashes \in 0..MaxCrashes

\* SchedulerState.serialize: everything but reconciled and lastAskedToReconcile.
Serialize(cs, ns) == [clusters |-> cs, nodes |-> [i \in Id |-> Serialized(ns[i])]]

\* SchedulerState.Persist, the last call of every handler that changes state.
\* SetData panics when it gives up: in a callback or in the loop that is a crash.
Persist == stored' = Serialize(clusters', nodes') /\ unsaved' = FALSE

\* In a request net/http recovers the panic and the lock is released: memory keeps
\* the change, ZooKeeper does not get it, and the user gets no answer. (A write
\* that did arrive although SetData gave up leaves nothing behind: Persist.)
PersistFails == stored' = stored /\ unsaved' = TRUE
PersistInRequest(request) == Persist \/ (request \in MayFail /\ PersistFails)

\* GetSchedulerState finds no znode and writes an empty state.
Init ==
    /\ MesosInit
    /\ clusters = [c \in Names |-> NoCluster]
    /\ nodes = [i \in Id |-> NoNode]
    /\ stored = Serialize(clusters, nodes)
    /\ unsaved = FALSE
    /\ enabled = FALSE
    /\ nextUuid = 1
    /\ ring = {}
    /\ crashes = 0

\* The ids in the Nodes maps of a cluster, of all clusters, and the buried ones.
NodesOf(ns, c) == {i \in Id : i[1] = c /\ ns[i].place = "nodes"}
AllNodes(ns) == {i \in Id : ns[i].place = "nodes"}
GraveyardOf(ns, c) == {i \in Id : i[1] = c /\ ns[i].place = "graveyard"}

\* ExecutorID(): a new executor for every launch of a node.
Executor(n) == <<n.UUID, n.Generation>>

-----------------------------------------------------------------------------
(* HTTP API: scheduler/server.go *)

createCluster(c) ==
    /\ ~clusters[c].assigned
    /\ clusters' = [clusters EXCEPT ![c] = NewFrameworkRiakCluster]
    /\ UNCHANGED nodes
    /\ PersistInRequest("createCluster")
    /\ UNCHANGED <<enabled, nextUuid, ring, crashes, mesosVars>>

\* A cluster that is restarting already is left as it is.
RollingRestart(cluster) ==
    IF cluster.IsRestarting THEN cluster
    ELSE [cluster EXCEPT !.IsRestarting = TRUE, !.Generation = @ + 1]

restartCluster(c) ==
    /\ clusters[c].assigned
    /\ clusters[c].IsRestarting \/ clusters[c].Generation < MaxRestarts
    /\ clusters' = [clusters EXCEPT ![c] = RollingRestart(@)]
    /\ UNCHANGED nodes
    /\ PersistInRequest("restartCluster")
    /\ UNCHANGED <<enabled, nextUuid, ring, crashes, mesosVars>>

removeCluster(c) ==
    /\ clusters[c].assigned
    /\ nodes' = [i \in Id |-> IF i \in NodesOf(nodes, c) THEN KillNext(nodes[i]) ELSE nodes[i]]
    /\ clusters' = [clusters EXCEPT ![c].IsKilled = TRUE]
    /\ PersistInRequest("removeCluster")
    /\ UNCHANGED <<enabled, nextUuid, ring, crashes, mesosVars>>

\* Mutant of removeNode: the request is not persisted.
removeNodeUnsaved(i) ==
    /\ clusters[i[1]].assigned
    /\ i \in NodesOf(nodes, i[1])
    /\ nodes' = [nodes EXCEPT ![i] = KillNext(@)]
    /\ UNCHANGED <<clusters, stored, unsaved, enabled, nextUuid, ring, crashes, mesosVars>>

removeNode(i) ==
    /\ clusters[i[1]].assigned
    /\ i \in NodesOf(nodes, i[1])
    /\ nodes' = [nodes EXCEPT ![i] = KillNext(@)]
    /\ UNCHANGED clusters
    /\ PersistInRequest("removeNode")
    /\ UNCHANGED <<enabled, nextUuid, ring, crashes, mesosVars>>

\* Mutant of GetNextSimpleId: buried nodes are not counted.
GetNextLiveId(c) == Cardinality(NodesOf(nodes, c)) + 1

GetNextSimpleId(c) ==
    Cardinality(NodesOf(nodes, c)) + Cardinality(GraveyardOf(nodes, c)) + 1

createNode(c) ==
    /\ clusters[c].assigned
    /\ GetNextSimpleId(c) <= MaxNodes
    /\ nextUuid <= MaxUuid
    /\ nodes' = [nodes EXCEPT ![<<c, GetNextSimpleId(c)>>] =
                    NewFrameworkRiakNode(clusters[c].Generation, nextUuid)]
    /\ nextUuid' = nextUuid + 1
    /\ UNCHANGED clusters
    /\ PersistInRequest("createNode")
    /\ UNCHANGED <<enabled, ring, crashes, mesosVars>>

\* setConfig and setAdvancedConfig: the text they set is not modelled, but their
\* write carries the whole state, or fails.
setConfig(c) ==
    /\ clusters[c].assigned
    /\ UNCHANGED <<clusters, nodes>>
    /\ PersistInRequest("setConfig")
    /\ UNCHANGED <<enabled, nextUuid, ring, crashes, mesosVars>>

-----------------------------------------------------------------------------
(* Mesos callbacks: scheduler/scheduler.go *)

Registered ==
    /\ ~enabled
    /\ enabled' = TRUE
    /\ UNCHANGED <<clusters, nodes>>
    /\ Persist
    /\ UNCHANGED <<nextUuid, ring, crashes, mesosVars>>

\* Reregistered does not persist.
Reregistered ==
    /\ ~enabled
    /\ enabled' = TRUE
    /\ UNCHANGED <<clusters, nodes, stored, unsaved, nextUuid, ring, crashes, mesosVars>>

(***************************************************************************)
(* ApplyOffer on every cluster, for an offer of one agent that contains    *)
(* the volumes vs. Resource arithmetic is reduced to its outcome: launch   *)
(* and reserve are the nodes for which the offer was (still) large enough. *)
(* Every volume comes with the reservation of one node, so no more nodes   *)
(* than volumes can be launched from it.                                   *)
(***************************************************************************)
Schedulable == {i \in AllNodes(nodes) : CanBeScheduled(nodes[i])}

\* HasRequestedReservation, and the offer has the node's volume.
Matching(vs) == {i \in Schedulable : HasRequestedReservation(nodes[i]) /\ nodes[i].UUID \in vs}

\* HasRequestedReservation, the volume is not there, but the agent or host is
\* the one of the reservation.
SameSlave(slave, vs) ==
    {i \in Schedulable : /\ HasRequestedReservation(nodes[i])
                         /\ nodes[i].UUID \notin vs
                         /\ nodes[i].SlaveID = slave \/ nodes[i].Hostname = slave}

New == {i \in Schedulable : ~HasRequestedReservation(nodes[i])}

\* The choices of nodes to launch from the offer.
Launchable(slave, vs) ==
    IF CompatibilityMode THEN SUBSET Schedulable
    ELSE {L \in SUBSET (Matching(vs) \union SameSlave(slave, vs)) : Cardinality(L) <= Cardinality(vs)}

Reservable == IF CompatibilityMode THEN {{}} ELSE SUBSET New

\* Nodes whose reservation is given up, the apply having failed.
Unreserved(slave, vs, launch) ==
    IF CompatibilityMode THEN {} ELSE SameSlave(slave, vs) \ launch

\* Mutant of NeedsReconciliation: an offer too small for the node it belongs to
\* is not kept.
NeedsReconciliationOnly(vs, launch) == \E i \in AllNodes(nodes) : NeedsToBeReconciled(nodes[i])

\* The value ApplyOffer returns, for some cluster.
NeedsReconciliation(vs, launch) ==
    \/ \E i \in AllNodes(nodes) : NeedsToBeReconciled(nodes[i])
    \/ ~CompatibilityMode /\ Matching(vs) \ launch # {}

\* Mutant of MaybeUnreserve: without its early return.
UnreserveAlways(vs, launch) == IF NeedsReconciliation(vs, launch) THEN {} ELSE vs

\* MaybeUnreserve: what is destroyed and unreserved.
MaybeUnreserve(vs, launch) ==
    IF NeedsReconciliation(vs, launch) \/ launch # {} THEN {} ELSE vs

\* createOperationsForOffers for one offer, then a goroutine to accept it.
\* An offer that changes nothing and gets no operation is declined: left out.
ResourceOffers(slave, vs, launch, reserve) ==
    LET unreserve == Unreserved(slave, vs, launch)
        changed   == launch \union reserve \union unreserve
        destroy   == MaybeUnreserve(vs, launch)
    IN  /\ enabled
        /\ launch \in Launchable(slave, vs)
        /\ reserve \in Reservable
        /\ changed # {} \/ destroy # {}
        /\ \A i \in launch : nodes[i].Generation < MaxGeneration
        /\ Cardinality(accepts) < MaxAccepts
        /\ nodes' = [i \in Id |->
              IF i \in launch THEN ApplyReservedOffer(nodes[i], slave)
              ELSE IF i \in reserve THEN ApplyUnreservedOffer(nodes[i], slave)
              ELSE IF i \in unreserve THEN Unreserve(nodes[i])
              ELSE nodes[i]]
        /\ UNCHANGED clusters
        /\ IF changed # {} THEN Persist ELSE UNCHANGED <<stored, unsaved>>
        /\ accepts' = accepts \union
              {[slave   |-> slave,
                launch  |-> {[id |-> i, executor |-> Executor(nodes'[i])] : i \in launch},
                reserve |-> {nodes[i].UUID : i \in reserve},
                destroy |-> destroy,
                vols    |-> vs]}
        /\ UNCHANGED <<enabled, nextUuid, ring, crashes, tasks, executors, answers, vols>>

-----------------------------------------------------------------------------
(* Status updates: StatusUpdate and Cluster.HandleNodeStatusUpdate *)

\* The node after an update; n is the node before it, already marked with the
\* status (reconciled, TaskStatus, SlaveID).
Handle(n, state) ==
    CASE state \in {"STAGING", "STARTING"}       -> Start(n)
      [] state = "RUNNING"                       -> Run(n)
      [] state \in {"FINISHED", "KILLED"}        -> Finish(n)
      [] state \in {"FAILED", "LOST", "ERROR"}   -> Error(n)

Marked(n, slave) == [n EXCEPT !.reconciled = TRUE, !.TaskStatus = TRUE, !.SlaveID = slave]

\* Cluster.Join and doJoin: the new node is joined to any running node that
\* Riak Explorer reports success for, and to none when all attempts fail.
Join(i) ==
    LET others == {j \in NodesOf(nodes, i[1]) : CanBeJoined(nodes[j])}
    IN  IF ~CanJoinCluster(nodes[i]) \/ Cardinality(NodesOf(nodes, i[1])) = 1
        THEN {ring}
        ELSE {ring} \union {ring \union {i, j} : j \in others \ {i}}

\* Cluster.Leave and doLeave, likewise.
Leave(i) ==
    LET others == {j \in NodesOf(nodes, i[1]) : CanBeLeft(nodes[j]) /\ j # i}
    IN  IF others = {} THEN {ring} ELSE {ring, ring \ {i}}

\* The rings an update may leave behind. Only a node that finished without a
\* restart, or was killed, leaves; the Leave after a failure is commented out.
RingAfter(i, state) ==
    CASE state = "RUNNING" -> Join(i)
      [] state = "FINISHED" /\ ~IsRestarting(Finish(nodes[i]), clusters[i[1]].Generation) -> Leave(i)
      [] state = "KILLED" -> Leave(i)
      [] OTHER -> {ring}

\* An update for a buried node is ignored, though the state is written; one for a
\* node of a buried cluster finds no node at all.
StatusUpdate(i, state, slave) ==
    /\ enabled
    /\ IF nodes[i].place = "nodes"
       THEN /\ nodes' = [nodes EXCEPT ![i] = Handle(Marked(@, slave), state)]
            /\ ring' \in RingAfter(i, state)
       ELSE UNCHANGED <<nodes, ring>>
    /\ UNCHANGED clusters
    /\ IF nodes[i].place # "absent" THEN Persist ELSE UNCHANGED <<stored, unsaved>>
    /\ UNCHANGED <<enabled, nextUuid, crashes>>

\* The agent's oldest unacknowledged update. When the acknowledgement is lost
\* the agent sends it again. Updates pass through the master, after the
\* answers it has already sent.
AgentUpdate(i) ==
    /\ tasks[i].queue # <<>>
    /\ answers[i] = <<>>
    /\ StatusUpdate(i, Head(tasks[i].queue), tasks[i].slave)
    /\ \/ tasks' = [tasks EXCEPT ![i] = Acknowledged(@)]
       \/ UNCHANGED tasks
    /\ UNCHANGED <<accepts, executors, answers, vols>>

\* An update made up by the master: it is sent once.
MasterUpdate(i) ==
    /\ answers[i] # <<>>
    /\ StatusUpdate(i, Head(answers[i]).state, Head(answers[i]).slave)
    /\ answers' = [answers EXCEPT ![i] = Tail(@)]
    /\ UNCHANGED <<accepts, tasks, executors, vols>>

-----------------------------------------------------------------------------
(* The reconciliation loop: scheduler/reconcilation.go *)

\* Nodes of which GetNodeTasksToReconcile asks the state once 5 seconds have
\* passed since it last did. A node never asked about is asked at once.
Unreconciled == {i \in AllNodes(nodes) : HasTaskStatus(nodes[i]) /\ ~nodes[i].reconciled}
NeverAsked == {i \in Unreconciled : ~nodes[i].asked}

\* The master answers each question, unless question or answer is lost; a full
\* channel (MaxAnswers) loses it.
reconcileTasks(ask) ==
    /\ enabled
    /\ ask \subseteq Unreconciled /\ NeverAsked \subseteq ask /\ ask # {}
    /\ nodes' = [i \in Id |-> IF i \in ask THEN [nodes[i] EXCEPT !.asked = TRUE] ELSE nodes[i]]
    /\ answers' = [i \in Id |-> IF i \in ask /\ Len(answers[i]) < MaxAnswers
                               THEN Append(answers[i], Reconciled(tasks[i])) ELSE answers[i]]
    /\ UNCHANGED <<clusters, stored, unsaved, enabled, nextUuid, ring, crashes, accepts, tasks, executors, vols>>

\* GetNodesToKillOrRemove. A node that is still Starting is in both.
NodesToKill == {i \in AllNodes(nodes) : CanBeKilled(nodes[i])}
NodesToRemove == {i \in AllNodes(nodes) : CanBeRemoved(nodes[i])}

\* The nodes after RemoveNode, and the clusters whose last node went.
Remaining == [i \in Id |-> IF i \in NodesToRemove THEN Bury(nodes[i]) ELSE nodes[i]]

\* Mutant of ClustersToRemove: a cluster goes with its last node, killed or not.
EmptyClusters == {c \in Names : clusters[c].assigned /\ NodesOf(Remaining, c) = {}}

ClustersToRemove ==
    {c \in Names : clusters[c].assigned /\ clusters[c].IsKilled /\ NodesOf(Remaining, c) = {}}

\* GetNodesToRestart walks Remaining in the random order of a Go map and stops
\* at the first node that has not restarted yet: any of these.
NotRestarted(c) == {i \in NodesOf(Remaining, c) : ~HasRestarted(Remaining[i], clusters[c].Generation)}
RestartDone(c) == clusters[c].IsRestarting /\ NotRestarted(c) = {}
FirstNotRestarted ==
    LET open == {c \in Names : clusters[c].IsRestarting /\ NotRestarted(c) # {}}
    IN  {{f[c] : c \in open} : f \in {g \in [open -> Id] : \A c \in open : g[c] \in NotRestarted(c)}}
NodesToRestart(first) == {i \in first : ~IsRestarting(Remaining[i], clusters[i[1]].Generation)}

\* finishRiakNode, or killRiakNode when the message could not be sent. A
\* "finish" names an executor and an agent, a kill only the task id; a message
\* that finds no task is lost, and a later one replaces an earlier one.
Reaches(i, kind) ==
    /\ Live(tasks[i])
    /\ kind = "finish" => tasks[i].executor = Executor(nodes[i]) /\ tasks[i].slave = nodes[i].SlaveID
Send(stop, killed) ==
    tasks' = [i \in Id |->
        IF i \in killed /\ Reaches(i, "kill") THEN [tasks[i] EXCEPT !.message = "kill"]
        ELSE IF i \in stop \ killed /\ Reaches(i, "finish") THEN [tasks[i] EXCEPT !.message = "finish"]
        ELSE tasks[i]]

\* killTasks, the other half of a tick: only when nothing was asked.
killTasks(first, killed) ==
    LET restart == NodesToRestart(first)
        stop    == NodesToKill \union restart
        dirty   == \/ NodesToRemove # {} \/ ClustersToRemove # {} \/ restart # {}
                   \/ \E c \in Names : RestartDone(c)
    IN  /\ enabled
        /\ NeverAsked = {}
        /\ first \in FirstNotRestarted
        /\ killed \subseteq stop
        /\ dirty \/ stop # {}
        /\ nodes' = [i \in Id |->
              IF i[1] \in ClustersToRemove THEN NoNode
              ELSE IF i \in restart THEN Restart(Remaining[i], clusters[i[1]].Generation)
              ELSE Remaining[i]]
        /\ clusters' = [c \in Names |->
              IF c \in ClustersToRemove THEN NoCluster
              ELSE IF RestartDone(c) THEN [clusters[c] EXCEPT !.IsRestarting = FALSE]
              ELSE clusters[c]]
        /\ Send(stop, killed)
        /\ IF dirty THEN Persist ELSE UNCHANGED <<stored, unsaved>>
        /\ UNCHANGED <<enabled, nextUuid, ring, crashes, accepts, executors, answers, vols>>

-----------------------------------------------------------------------------
(* Crash of the scheduler process and restart from ZooKeeper *)

\* DeserializeSchedulerState: goroutines die with the process, and so do the
\* master's answers on their way to it.
Reloaded ==
    /\ crashes < MaxCrashes
    /\ crashes' = crashes + 1
    /\ clusters' = stored.clusters
    /\ nodes' = stored.nodes
    /\ unsaved' = FALSE
    /\ enabled' = FALSE
    /\ accepts' = {}
    /\ answers' = [i \in Id |-> <<>>]
    /\ UNCHANGED <<stored, nextUuid, executors, vols>>

Failover == Reloaded /\ UNCHANGED <<ring, tasks>>

\* A crash inside killTasks: messages sent, nothing persisted.
CrashInKillTasks(stop, killed) ==
    /\ enabled
    /\ NeverAsked = {}
    /\ Reloaded
    /\ stop # {} /\ killed \subseteq stop
    /\ \E first \in FirstNotRestarted : stop \subseteq NodesToKill \union NodesToRestart(first)
    /\ Send(stop, killed)
    /\ UNCHANGED ring

\* A crash inside StatusUpdate, after Join or Leave: the ring has changed, and
\* the update was neither persisted nor acknowledged.
CrashInStatusUpdate(i) ==
    /\ enabled
    /\ tasks[i].queue # <<>>
    /\ nodes[i].place = "nodes"
    /\ Reloaded
    /\ ring' \in RingAfter(i, Head(tasks[i].queue)) \ {ring}
    /\ UNCHANGED tasks

-----------------------------------------------------------------------------
Api ==
    \/ \E c \in Names : createCluster(c) \/ restartCluster(c) \/ removeCluster(c)
    \/ \E c \in Names : createNode(c) \/ setConfig(c)
    \/ \E i \in Id : removeNode(i)

Callback ==
    \/ Registered \/ Reregistered
    \/ \E slave \in Slaves : \E vs \in SUBSET Free(slave) :
          \E launch \in SUBSET AllNodes(nodes), reserve \in SUBSET AllNodes(nodes) :
             ResourceOffers(slave, vs, launch, reserve)
    \/ \E i \in Id : AgentUpdate(i) \/ MasterUpdate(i)

reconcile ==
    \/ \E ask \in SUBSET AllNodes(nodes) : reconcileTasks(ask)
    \/ \E first, killed \in SUBSET AllNodes(nodes) : killTasks(first, killed)

Crash ==
    \/ Failover
    \/ \E stop, killed \in SUBSET AllNodes(nodes) : CrashInKillTasks(stop, killed)
    \/ \E i \in Id : CrashInStatusUpdate(i)

Environment ==
    /\ \/ \E a \in accepts : AcceptOffer(a) \/ OfferRescinded(a)
       \/ \E i \in Id : TaskStarting(i) \/ TaskRunning(i) \/ TaskFails(i)
       \/ \E i \in Id : DeliverMessage(i) \/ LoseMessage(i) \/ LoseAnswer(i)
    /\ UNCHANGED schedulerVars

Next == Api \/ Callback \/ reconcile \/ Crash \/ Environment

Spec == Init /\ [][Next]_vars

(***************************************************************************)
(* The loop ticks forever (time.Tick), updates are retransmitted by agents *)
(* until acknowledged, and a tick asks and sends again what it asked and   *)
(* sent before: if it keeps doing so, one of the answers and one of the    *)
(* messages gets through. Nothing is assumed of users, offers or crashes.  *)
(***************************************************************************)
Fairness ==
    /\ WF_vars(Registered \/ Reregistered)
    /\ WF_vars(\E ask \in SUBSET AllNodes(nodes) : reconcileTasks(ask))
    /\ WF_vars(\E first \in SUBSET AllNodes(nodes) : killTasks(first, {}))
    /\ \A i \in Id :
          /\ SF_vars(AgentUpdate(i))
          /\ SF_vars(MasterUpdate(i))
          /\ SF_vars(DeliverMessage(i) /\ UNCHANGED schedulerVars)
          /\ WF_vars(TaskStarting(i) /\ UNCHANGED schedulerVars)
          /\ WF_vars(TaskRunning(i) /\ UNCHANGED schedulerVars)

FairSpec == Spec /\ Fairness

-----------------------------------------------------------------------------
(* Safety *)

\* ExecutorCore.LaunchTask dies with "Task being started, twice" when one
\* executor gets two tasks. No launch on its way to the master names an
\* executor that was started before or that another launch on its way names,
\* whatever crashes there were: ApplyOffer persists the new Generation before
\* the goroutine that accepts the offer is started.
ExecutorStartedOnce ==
    \A a \in accepts : \A l \in a.launch :
        /\ l.executor \notin executors
        /\ \A b \in accepts : \A m \in b.launch : m.executor = l.executor => b = a /\ m = l

\* A crash, at any point of any handler, takes back nothing but what a request
\* changed whose Persist panicked, so that its user got no answer, and only as long
\* as no other write has gone through: what an offer, an update, a tick or an
\* answered request changed is in ZooKeeper, and the next Persist of any handler
\* makes up for the one that failed. (reconciled and lastAskedToReconcile are
\* forgotten: they are not exported.)
CrashLosesNothing ==
    [][/\ crashes' # crashes /\ ~unsaved => Serialize(clusters', nodes') = Serialize(clusters, nodes)
       /\ unsaved' /\ Serialize(clusters', nodes') # Serialize(clusters, nodes) => Api]_vars

\* ApplyOffer and MaybeUnreserve never give up the volume of a node that is
\* waiting to be launched from it, even if the offer is too small to launch
\* it, nor any volume at all while some node still has to be reconciled.
KeepsVolumesInNeed ==
    [][\A a \in accepts' \ accepts : a.destroy # {} =>
          \A i \in AllNodes(nodes) :
             /\ ~NeedsToBeReconciled(nodes[i])
             /\ nodes[i].UUID \in a.destroy /\ CanBeScheduled(nodes[i]) => nodes[i].CurrentState = Unknown]_vars

\* With reservations: a live task has its volume, on its agent. LAUNCH comes
\* before DESTROY in one answer to an offer, and the volumes of a task are in no
\* offer: a volume is never destroyed under the node that runs on it.
RunningTaskKeepsVolume ==
    ~CompatibilityMode => \A i \in Id :
        Live(tasks[i]) => [uuid |-> tasks[i].executor[1], slave |-> tasks[i].slave] \in vols

-----------------------------------------------------------------------------
(* Liveness, under FairSpec *)

\* A node whose state is not known, after a failover or because its launch never
\* reached the master, is asked about until an answer settles its state.
EventuallyReconciled ==
    \A i \in Id : NeedsToBeReconciled(nodes[i]) ~> ~NeedsToBeReconciled(nodes[i])

\* The task the scheduler would address a message for the node to.
Addressable(i) ==
    Live(tasks[i]) => tasks[i].executor = Executor(nodes[i]) /\ tasks[i].slave = nodes[i].SlaveID

\* A node that is to be shut down is buried sooner or later, or an update, or a
\* crash after a failed Persist, turns its DestinationState back.
RemovalEnds(i) ==
    nodes[i].place = "nodes" /\ nodes[i].DestinationState = Shutdown
        ~> nodes[i].place # "nodes" \/ nodes[i].DestinationState # Shutdown

\* The loop sends "finish" at every tick until the node has stopped: removal
\* ends for a node whose task is, from some point on, the one of the last
\* launch that the scheduler remembers.
AddressableRemovalEnds == \A i \in Id : <>[]Addressable(i) => RemovalEnds(i)

-----------------------------------------------------------------------------
(* The register that the state in memory and in ZooKeeper implements *)

View(cs, ns) ==
    [existing |-> {c \in Names : cs[c].assigned},
     killed   |-> {c \in Names : cs[c].IsKilled},
     owner    |-> [i \in Id |-> ns[i].UUID],
     alive    |-> {i \in Id : ns[i].place = "nodes"}]

Registry == INSTANCE ClusterRegistry WITH
    registry <- View(clusters, nodes),
    saved    <- View(stored.clusters, stored.nodes),
    issued   <- 1..(nextUuid - 1)

\* The scheduler is a ClusterRegistry: ids and UUIDs are never reused while their
\* cluster exists, although SimpleIds are made by counting, buried nodes stay
\* buried, a cluster disappears only once it was killed and its nodes are
\* buried, and a crash goes back to a state that lacks at most requests whose
\* write failed.
ImplementsRegistry == Registry!Spec
=============================================================================
