--------------------------- MODULE SchedulerProofs ---------------------------
(***************************************************************************)
(* Proofs about Scheduler, for every value of its constants: its types;    *)
(* what a crash can take back, from the invariant that ZooKeeper is behind *)
(* memory only after a request whose write failed; and that memory and     *)
(* ZooKeeper together implement ClusterRegistry. The heart of the last is  *)
(* that counting the nodes of a cluster, buried ones included, finds the   *)
(* first id that the cluster has not used: the ids in use are always 1..m  *)
(* for some m, in memory and in what a crash goes back to.                 *)
(***************************************************************************)
EXTENDS Scheduler, SequenceTheorems, FiniteSetTheorems, TLAPS

USE NodeAssumption, MesosAssumption, SchedulerAssumption

-----------------------------------------------------------------------------
(* Types of the operators on nodes *)

\* An empty slot is a node.
LEMMA NoNodeType == NoNode \in Node
  BY DEF Node, NoNode, Started, Unknown

\* NewFrameworkRiakNode makes a node.
LEMMA NewNodeType ==
    ASSUME NEW g \in 0..MaxRestarts, NEW u \in 0..MaxUuid
    PROVE  NewFrameworkRiakNode(g, u) \in Node
  <1>1. ASSUME NEW n \in Node
        PROVE  [n EXCEPT !.place = "nodes", !.RestartGeneration = g, !.UUID = u] \in Node
    BY DEF Node
  <1>. QED
    BY <1>1, NoNodeType DEF NewFrameworkRiakNode

\* RemoveNode leaves a node in the graveyard.
LEMMA BuryType ==
    ASSUME NEW n \in Node
    PROVE  Bury(n) \in Node
  <1>1. ASSUME NEW m \in Node, NEW u \in 0..MaxUuid
        PROVE  [m EXCEPT !.place = "graveyard", !.UUID = u] \in Node
    BY DEF Node
  <1>2. n.UUID \in 0..MaxUuid
    BY DEF Node
  <1>. QED
    BY <1>1, <1>2, NoNodeType DEF Bury

\* The setters of scheduler/node.go that take only the node.
LEMMA SetterTypes ==
    ASSUME NEW n \in Node
    PROVE  /\ Unreserve(n) \in Node
           /\ KillNext(n) \in Node
           /\ Start(n) \in Node
           /\ Run(n) \in Node
           /\ Finish(n) \in Node
           /\ Error(n) \in Node
           /\ Serialized(n) \in Node
           /\ [n EXCEPT !.asked = TRUE] \in Node
  <1>1. Unreserve(n) \in Node
    BY DEF Node, Unreserve, Unknown
  <1>2. KillNext(n) \in Node
    BY DEF Node, KillNext, Shutdown
  <1>3. Start(n) \in Node
    BY DEF Node, Start, Starting, Started
  <1>4. Run(n) \in Node
    BY DEF Node, Run, Started
  <1>5. Finish(n) \in Node
    BY DEF Node, Finish, Shutdown
  <1>6. Error(n) \in Node
    BY DEF Node, Error, Failed
  <1>7. Serialized(n) \in Node
    BY DEF Node, Serialized
  <1>8. [n EXCEPT !.asked = TRUE] \in Node
    BY DEF Node
  <1>. QED
    BY <1>1, <1>2, <1>3, <1>4, <1>5, <1>6, <1>7, <1>8

\* Restart takes the generation of the cluster.
LEMMA RestartType ==
    ASSUME NEW n \in Node, NEW g \in 0..MaxRestarts
    PROVE  Restart(n, g) \in Node
  BY DEF Node, Restart, Restarting

\* The node after an offer of an agent was applied to it.
LEMMA AppliedType ==
    ASSUME NEW n \in Node, NEW s \in Slaves
    PROVE  /\ ApplyUnreservedOffer(n, s) \in Node
           /\ n.Generation < MaxGeneration => ApplyReservedOffer(n, s) \in Node
  <1>1. Placed(n, s) \in Node /\ Placed(n, s).Generation = n.Generation
    BY DEF Node, Placed
  <1>2. ApplyUnreservedOffer(n, s) \in Node
    BY <1>1 DEF Node, ApplyUnreservedOffer, Reserved
  <1>3. ASSUME NEW m \in Node, NEW g \in 0..MaxGeneration
        PROVE  [m EXCEPT !.Generation = g, !.TaskStatus = FALSE, !.CurrentState = Starting] \in Node
    BY DEF Node, Starting
  <1>4. n.Generation < MaxGeneration => Placed(n, s).Generation + 1 \in 0..MaxGeneration
    BY <1>1 DEF Node
  <1>. QED
    BY <1>1, <1>2, <1>3, <1>4 DEF ApplyReservedOffer

\* A status update takes a node to a node.
LEMMA HandledNodes ==
    ASSUME NEW n \in Node, NEW state \in TaskState, NEW s \in Slaves \union {NoSlave}
    PROVE  Handle(Marked(n, s), state) \in Node
  <1>1. Marked(n, s) \in Node
    BY DEF Node, Marked
  <1>. QED
    BY <1>1, SetterTypes DEF Handle, TaskState

\* What is written to ZooKeeper has the type of the state.
LEMMA SerializedState ==
    ASSUME NEW cs \in [Names -> Cluster], NEW ns \in [Id -> Node]
    PROVE  Serialize(cs, ns) \in State
  BY SetterTypes DEF Serialize, State

\* What a handler does with ZooKeeper when it is done with memory.
Stores == Persist \/ PersistFails \/ UNCHANGED <<stored, unsaved>>

\* Whether the write succeeds, fails or is not made, the types stay.
LEMMA StoresType ==
    ASSUME TypeOK, clusters' \in [Names -> Cluster], nodes' \in [Id -> Node], Stores
    PROVE  stored' \in State /\ unsaved' \in BOOLEAN
  BY SerializedState DEF Stores, Persist, PersistFails, TypeOK

-----------------------------------------------------------------------------
(* Types of what the Mesos side does *)

\* The states and answers that an agent or the master reports are well typed.
LEMMA ReportedType ==
    ASSUME NEW t \in Task
    PROVE  /\ t.queue # <<>> => Head(t.queue) \in TaskState /\ Acknowledged(t) \in Task
           /\ Reconciled(t) \in Answer
  <1>1. t.queue \in Seq(TaskState) /\ t.slave \in Slaves \union {NoSlave}
    BY DEF Task
  <1>2. t.queue # <<>> => Head(t.queue) \in TaskState /\ Tail(t.queue) \in Seq(TaskState)
    BY <1>1, HeadTailProperties
  <1>3. NoTask \in Task
    BY <1>1, EmptySeq DEF NoTask, Task, ExecutorID
  <1>4. t.queue # <<>> => Acknowledged(t) \in Task
    BY <1>2, <1>3 DEF Acknowledged, Task
  <1>5. Reported(t) \in TaskState
    BY <1>2 DEF Reported, TaskState
  <1>6. Reconciled(t) \in Answer
    BY <1>1, <1>5 DEF Reconciled, Answer, TaskState
  <1>. QED
    BY <1>2, <1>4, <1>6

\* A task that moves on or gets a message is a task.
LEMMA TaskSteps ==
    ASSUME NEW t \in Task
    PROVE  /\ \A phase \in {"starting", "running", "dead"}, state \in TaskState :
                 Moved(t, phase, state) \in Task
           /\ \A m \in {"none", "finish", "kill"} : [t EXCEPT !.message = m] \in Task
  <1>1. ASSUME NEW state \in TaskState
        PROVE  Append(t.queue, state) \in Seq(TaskState)
    BY AppendProperties DEF Task
  <1>. QED
    BY <1>1 DEF Task, Moved

\* Volumes that an offer can contain are named by UUIDs.
LEMMA FreeType ==
    ASSUME TypeOK, NEW slave \in Slaves
    PROVE  Free(slave) \subseteq 0..MaxUuid
  BY DEF Free, TypeOK, MesosTypeOK, Volume

\* Answers to launches are well typed.
LEMMA AnswerType ==
    ASSUME TypeOK, NEW ls, NEW state \in TaskState, AnswerLaunches(ls, state)
    PROVE  answers' \in [Id -> Seq(Answer)]
  <1>1. [state |-> state, slave |-> NoSlave] \in Answer
    BY DEF Answer
  <1>2. \A i \in Id : Append(answers[i], [state |-> state, slave |-> NoSlave]) \in Seq(Answer)
    BY <1>1, AppendProperties DEF TypeOK, MesosTypeOK
  <1>. QED
    BY <1>2 DEF AnswerLaunches, TypeOK, MesosTypeOK

\* The steps of the environment keep the types.
LEMMA EnvironmentType ==
    ASSUME TypeOK, Environment
    PROVE  TypeOK'
  <1>. USE DEF TypeOK, MesosTypeOK
  <1>0. SUFFICES MesosTypeOK'
    BY DEF Environment, schedulerVars
  <1>1. ASSUME NEW a \in accepts, AcceptOffer(a)
        PROVE  MesosTypeOK'
    <2>. DEFINE valid == {l \in a.launch : Valid(a, l)}
    <2>1. a \in Accept
      OBVIOUS
    <2>2. \A l \in valid : l \in Launch /\ l.id \in Id /\ l.executor \in ExecutorID
      BY <2>1 DEF Accept, Launch
    <2>3. \A l \in valid : Staged(a, l) \in Task
      BY <2>1, <2>2, EmptySeq DEF Staged, Task, Accept
    <2>4. tasks' \in [Id -> Task]
      BY <1>1, <2>3 DEF AcceptOffer
    <2>5. executors' \subseteq ExecutorID
      BY <1>1, <2>2 DEF AcceptOffer
    <2>6. answers' \in [Id -> Seq(Answer)]
      BY <1>1, AnswerType DEF AcceptOffer, TaskState
    <2>7. vols' \subseteq Volume
      BY <1>1, <2>1 DEF AcceptOffer, Accept, Volume
    <2>8. accepts' \subseteq Accept
      BY <1>1 DEF AcceptOffer
    <2>. QED
      BY <2>4, <2>5, <2>6, <2>7, <2>8
  <1>2. ASSUME NEW a \in accepts, OfferRescinded(a)
        PROVE  MesosTypeOK'
    BY <1>2, AnswerType DEF OfferRescinded, TaskState
  <1>3. ASSUME NEW i \in Id, NEW phase \in {"starting", "running", "dead"}, NEW state \in TaskState,
               Becomes(i, phase, state)
        PROVE  MesosTypeOK'
    BY <1>3, TaskSteps DEF Becomes
  <1>4. ASSUME NEW i \in Id, TaskStarting(i) \/ TaskRunning(i) \/ TaskFails(i) \/ DeliverMessage(i)
        PROVE  MesosTypeOK'
    <2>. DEFINE final == IF tasks[i].message = "kill" THEN "KILLED"
                         ELSE IF tasks[i].phase = "running" THEN "FINISHED" ELSE "FAILED"
    <2>1. final \in TaskState /\ "STARTING" \in TaskState /\ "RUNNING" \in TaskState /\ "FAILED" \in TaskState
      BY DEF TaskState
    <2>2. \/ Becomes(i, "starting", "STARTING") \/ Becomes(i, "running", "RUNNING")
          \/ Becomes(i, "dead", "FAILED") \/ Becomes(i, "dead", final)
      BY <1>4 DEF TaskStarting, TaskRunning, TaskFails, DeliverMessage
    <2>. HIDE DEF final
    <2>. QED
      BY <1>3, <2>1, <2>2
  <1>5. ASSUME NEW i \in Id, LoseMessage(i)
        PROVE  MesosTypeOK'
    BY <1>5, TaskSteps DEF LoseMessage
  <1>6. ASSUME NEW i \in Id, LoseAnswer(i)
        PROVE  MesosTypeOK'
    <2>1. Tail(answers[i]) \in Seq(Answer)
      BY <1>6, HeadTailProperties DEF LoseAnswer
    <2>. QED
      BY <1>6, <2>1 DEF LoseAnswer
  <1>. QED
    BY <1>1, <1>2, <1>4, <1>5, <1>6 DEF Environment

-----------------------------------------------------------------------------
(* Types of what the scheduler does *)

\* Requests of users keep the types.
LEMMA ApiType ==
    ASSUME TypeOK, Api
    PROVE  TypeOK'
  <1>. USE DEF TypeOK
  <1>0. ASSUME mesosVars' = mesosVars
        PROVE  MesosTypeOK'
    BY <1>0 DEF MesosTypeOK, mesosVars
  <1>1. ASSUME NEW c \in Names, createCluster(c)
        PROVE  TypeOK'
    <2>1. NoCluster \in Cluster
      BY DEF NoCluster, Cluster
    <2>2. NewFrameworkRiakCluster \in Cluster
      BY <2>1 DEF NewFrameworkRiakCluster, Cluster
    <2>3. clusters' \in [Names -> Cluster]
      BY <1>1, <2>2 DEF createCluster
    <2>. QED
      BY <1>0, <1>1, <2>3, StoresType DEF createCluster, Stores, PersistInRequest
  <1>2. ASSUME NEW c \in Names, restartCluster(c)
        PROVE  TypeOK'
    <2>1. /\ clusters[c] \in Cluster
          /\ clusters[c].IsRestarting \/ clusters[c].Generation + 1 \in 0..MaxRestarts
      BY <1>2 DEF restartCluster, Cluster
    <2>2. RollingRestart(clusters[c]) \in Cluster
      BY <2>1 DEF RollingRestart, Cluster
    <2>4. clusters' \in [Names -> Cluster]
      BY <1>2, <2>2 DEF restartCluster
    <2>. QED
      BY <1>0, <1>2, <2>4, StoresType DEF restartCluster, Stores, PersistInRequest
  <1>3. ASSUME NEW c \in Names, removeCluster(c)
        PROVE  TypeOK'
    <2>1. clusters' \in [Names -> Cluster]
      BY <1>3 DEF removeCluster, Cluster
    <2>2. nodes' \in [Id -> Node]
      BY <1>3, SetterTypes DEF removeCluster
    <2>. QED
      BY <1>0, <1>3, <2>1, <2>2, StoresType DEF removeCluster, Stores, PersistInRequest
  <1>4. ASSUME NEW c \in Names, createNode(c)
        PROVE  TypeOK'
    <2>1. clusters[c].Generation \in 0..MaxRestarts /\ nextUuid \in 0..MaxUuid
      BY <1>4 DEF createNode, Cluster
    <2>2. nodes' \in [Id -> Node]
      BY <1>4, <2>1, NewNodeType DEF createNode
    <2>3. nextUuid' \in 1..(MaxUuid + 1)
      BY <1>4 DEF createNode
    <2>. QED
      BY <1>0, <1>4, <2>2, <2>3, StoresType DEF createNode, Stores, PersistInRequest
  <1>5. ASSUME NEW i \in Id, removeNode(i)
        PROVE  TypeOK'
    <2>1. nodes' \in [Id -> Node]
      BY <1>5, SetterTypes DEF removeNode
    <2>. QED
      BY <1>0, <1>5, <2>1, StoresType DEF removeNode, Stores, PersistInRequest
  <1>6. ASSUME NEW c \in Names, setConfig(c)
        PROVE  TypeOK'
    BY <1>0, <1>6, StoresType DEF setConfig, Stores, PersistInRequest
  <1>. QED
    BY <1>1, <1>2, <1>3, <1>4, <1>5, <1>6 DEF Api

\* Joining and leaving keep the members of the ring among the nodes.
LEMMA RingType ==
    ASSUME TypeOK, NEW i \in Id, NEW state
    PROVE  RingAfter(i, state) \subseteq SUBSET Id
  <1>1. ring \subseteq Id /\ NodesOf(nodes, i[1]) \subseteq Id
    BY DEF TypeOK, NodesOf
  <1>2. Join(i) \subseteq SUBSET Id
    BY <1>1 DEF Join
  <1>3. Leave(i) \subseteq SUBSET Id
    BY <1>1 DEF Leave
  <1>. QED
    BY <1>1, <1>2, <1>3 DEF RingAfter

\* A status update keeps the types of what the scheduler keeps.
LEMMA StatusUpdateType ==
    ASSUME TypeOK, NEW i \in Id, NEW state \in TaskState, NEW slave \in Slaves \union {NoSlave},
           StatusUpdate(i, state, slave)
    PROVE  /\ nodes' \in [Id -> Node]
           /\ clusters' = clusters
           /\ stored' \in State /\ unsaved' \in BOOLEAN
           /\ ring' \subseteq Id
           /\ enabled' = enabled /\ nextUuid' = nextUuid /\ crashes' = crashes
  <1>. USE DEF TypeOK
  <1>1. nodes' \in [Id -> Node]
    BY HandledNodes DEF StatusUpdate
  <1>2. RingAfter(i, state) \subseteq SUBSET Id
    BY RingType
  <1>3. ring' \subseteq Id
    BY <1>2 DEF StatusUpdate
  <1>4. clusters' = clusters /\ Stores
    BY DEF StatusUpdate, Stores
  <1>5. stored' \in State /\ unsaved' \in BOOLEAN
    BY <1>1, <1>4, StoresType
  <1>. QED
    BY <1>1, <1>3, <1>4, <1>5 DEF StatusUpdate

\* Callbacks keep the types.
LEMMA CallbackType ==
    ASSUME TypeOK, Callback
    PROVE  TypeOK'
  <1>. USE DEF TypeOK, MesosTypeOK
  <1>1. CASE Registered \/ Reregistered
    BY <1>1, StoresType DEF Registered, Reregistered, Stores, mesosVars
  <1>2. ASSUME NEW slave \in Slaves, NEW vs \in SUBSET Free(slave),
               NEW launch \in SUBSET AllNodes(nodes), NEW reserve \in SUBSET AllNodes(nodes),
               ResourceOffers(slave, vs, launch, reserve)
        PROVE  TypeOK'
    <2>1. launch \subseteq Id /\ reserve \subseteq Id
      BY DEF AllNodes
    <2>2. nodes' \in [Id -> Node]
      BY <1>2, AppliedType, SetterTypes DEF ResourceOffers
    <2>3. clusters' = clusters
      BY <1>2 DEF ResourceOffers
    <2>4. stored' \in State /\ unsaved' \in BOOLEAN
      <3>1. Stores
        BY <1>2 DEF ResourceOffers, Stores
      <3>. QED
        BY <2>2, <2>3, <3>1, StoresType
    <2>5. /\ \A i \in Id : Executor(nodes'[i]) \in ExecutorID
          /\ \A i \in Id : nodes[i].UUID \in 0..MaxUuid
      BY <2>2 DEF Executor, ExecutorID, Node
    <2>6. MaybeUnreserve(vs, launch) \subseteq vs
      BY DEF MaybeUnreserve
    <2>7. vs \subseteq 0..MaxUuid
      BY FreeType
    <2>. DEFINE a == [slave   |-> slave,
                      launch  |-> {[id |-> i, executor |-> Executor(nodes'[i])] : i \in launch},
                      reserve |-> {nodes[i].UUID : i \in reserve},
                      destroy |-> MaybeUnreserve(vs, launch),
                      vols    |-> vs]
    <2>8. a \in Accept
      <3>1. {[id |-> i, executor |-> Executor(nodes'[i])] : i \in launch} \subseteq Launch
        BY <2>1, <2>5 DEF Launch
      <3>2. {nodes[i].UUID : i \in reserve} \subseteq 0..MaxUuid
        BY <2>1, <2>5
      <3>. QED
        BY <2>6, <2>7, <3>1, <3>2 DEF Accept
    <2>9. accepts' = accepts \union {a}
      BY <1>2 DEF ResourceOffers
    <2>. HIDE DEF a
    <2>. QED
      BY <1>2, <2>2, <2>3, <2>4, <2>8, <2>9 DEF ResourceOffers
  <1>3. ASSUME NEW i \in Id, AgentUpdate(i)
        PROVE  TypeOK'
    <2>1. tasks[i] \in Task /\ tasks[i].queue # <<>>
      BY <1>3 DEF AgentUpdate
    <2>2. /\ Head(tasks[i].queue) \in TaskState
          /\ Acknowledged(tasks[i]) \in Task
          /\ tasks[i].slave \in Slaves \union {NoSlave}
      BY <2>1, ReportedType DEF Task
    <2>3. tasks' \in [Id -> Task]
      BY <1>3, <2>2 DEF AgentUpdate
    <2>4. StatusUpdate(i, Head(tasks[i].queue), tasks[i].slave)
      BY <1>3 DEF AgentUpdate
    <2>. QED
      BY <1>3, <2>2, <2>3, <2>4, StatusUpdateType DEF AgentUpdate
  <1>4. ASSUME NEW i \in Id, MasterUpdate(i)
        PROVE  TypeOK'
    <2>1. answers[i] \in Seq(Answer) /\ answers[i] # <<>>
      BY <1>4 DEF MasterUpdate
    <2>2. Head(answers[i]) \in Answer /\ Tail(answers[i]) \in Seq(Answer)
      BY <2>1, HeadTailProperties
    <2>3. Head(answers[i]).state \in TaskState /\ Head(answers[i]).slave \in Slaves \union {NoSlave}
      BY <2>2 DEF Answer
    <2>4. answers' \in [Id -> Seq(Answer)]
      BY <1>4, <2>2 DEF MasterUpdate
    <2>5. StatusUpdate(i, Head(answers[i]).state, Head(answers[i]).slave)
      BY <1>4 DEF MasterUpdate
    <2>. QED
      BY <1>4, <2>3, <2>4, <2>5, StatusUpdateType DEF MasterUpdate
  <1>. QED
    BY <1>1, <1>2, <1>3, <1>4 DEF Callback

\* Messages to executors keep the type of tasks.
LEMMA SendType ==
    ASSUME TypeOK, NEW stop, NEW killed, Send(stop, killed)
    PROVE  tasks' \in [Id -> Task]
  <1>1. \A i \in Id : /\ [tasks[i] EXCEPT !.message = "kill"] \in Task
                      /\ [tasks[i] EXCEPT !.message = "finish"] \in Task
    BY TaskSteps DEF TypeOK, MesosTypeOK
  <1>. QED
    BY <1>1 DEF Send, TypeOK, MesosTypeOK

\* A tick of the reconciliation loop keeps the types.
LEMMA ReconcileType ==
    ASSUME TypeOK, reconcile
    PROVE  TypeOK'
  <1>. USE DEF TypeOK, MesosTypeOK
  <1>1. ASSUME NEW ask \in SUBSET AllNodes(nodes), reconcileTasks(ask)
        PROVE  TypeOK'
    <2>1. nodes' \in [Id -> Node]
      BY <1>1, SetterTypes DEF reconcileTasks
    <2>2. \A i \in Id : Append(answers[i], Reconciled(tasks[i])) \in Seq(Answer)
      BY ReportedType, AppendProperties
    <2>3. answers' \in [Id -> Seq(Answer)]
      BY <1>1, <2>2 DEF reconcileTasks
    <2>. QED
      BY <1>1, <2>1, <2>3 DEF reconcileTasks
  <1>2. ASSUME NEW first \in SUBSET AllNodes(nodes), NEW killed \in SUBSET AllNodes(nodes),
               killTasks(first, killed)
        PROVE  TypeOK'
    <2>1. Remaining \in [Id -> Node]
      BY BuryType DEF Remaining
    <2>2. \A i \in Id : clusters[i[1]].Generation \in 0..MaxRestarts
      BY DEF Id, Cluster
    <2>3. nodes' \in [Id -> Node]
      BY <1>2, <2>1, <2>2, NoNodeType, RestartType DEF killTasks
    <2>4. /\ NoCluster \in Cluster
          /\ \A c \in Names : [clusters[c] EXCEPT !.IsRestarting = FALSE] \in Cluster
      <3>1. NoCluster \in Cluster
        BY DEF NoCluster, Cluster
      <3>2. ASSUME NEW c \in Names
            PROVE  [clusters[c] EXCEPT !.IsRestarting = FALSE] \in Cluster
        BY DEF Cluster
      <3>. QED
        BY <3>1, <3>2
    <2>5. clusters' \in [Names -> Cluster]
      BY <1>2, <2>4 DEF killTasks
    <2>6. stored' \in State /\ unsaved' \in BOOLEAN
      <3>1. Stores
        BY <1>2 DEF killTasks, Stores
      <3>. QED
        BY <2>3, <2>5, <3>1, StoresType
    <2>7. tasks' \in [Id -> Task]
      BY <1>2, SendType DEF killTasks
    <2>. QED
      BY <1>2, <2>3, <2>5, <2>6, <2>7 DEF killTasks
  <1>. QED
    BY <1>1, <1>2 DEF reconcile

\* A crash, and the restart from what is stored, keep the types.
LEMMA CrashType ==
    ASSUME TypeOK, Crash
    PROVE  TypeOK'
  <1>. USE DEF TypeOK, MesosTypeOK
  <1>1. ASSUME Reloaded, tasks' \in [Id -> Task], ring' \subseteq Id
        PROVE  TypeOK'
    <2>1. stored.clusters \in [Names -> Cluster] /\ stored.nodes \in [Id -> Node]
      BY DEF State
    <2>2. crashes' \in 0..MaxCrashes
      BY <1>1 DEF Reloaded
    <2>3. answers' \in [Id -> Seq(Answer)]
      BY <1>1, EmptySeq DEF Reloaded
    <2>. QED
      BY <1>1, <2>1, <2>2, <2>3 DEF Reloaded
  <1>2. CASE Failover
    BY <1>1, <1>2 DEF Failover
  <1>3. ASSUME NEW stop, NEW killed, CrashInKillTasks(stop, killed)
        PROVE  TypeOK'
    BY <1>1, <1>3, SendType DEF CrashInKillTasks
  <1>4. ASSUME NEW i \in Id, CrashInStatusUpdate(i)
        PROVE  TypeOK'
    BY <1>1, <1>4, RingType DEF CrashInStatusUpdate
  <1>. QED
    BY <1>2, <1>3, <1>4 DEF Crash

-----------------------------------------------------------------------------
(* Type correctness *)

\* Every state of the scheduler and of the Mesos side is well typed, whatever
\* the number of clusters, nodes, agents, crashes and messages.
THEOREM TypeCorrect == Spec => []TypeOK
  <1>1. Init => TypeOK
    <2>. SUFFICES ASSUME Init PROVE TypeOK
      OBVIOUS
    <2>1. MesosTypeOK
      BY EmptySeq DEF Init, MesosInit, MesosTypeOK, NoTask, Task, ExecutorID
    <2>2. clusters \in [Names -> Cluster] /\ nodes \in [Id -> Node]
      BY NoNodeType DEF Init, NoCluster, Cluster
    <2>3. stored \in State
      BY <2>2, SerializedState DEF Init
    <2>4. enabled \in BOOLEAN /\ unsaved \in BOOLEAN /\ ring \subseteq Id
      BY DEF Init
    <2>5. nextUuid \in 1..(MaxUuid + 1) /\ crashes \in 0..MaxCrashes
      BY DEF Init
    <2>. QED
      BY <2>1, <2>2, <2>3, <2>4, <2>5 DEF TypeOK
  <1>2. TypeOK /\ [Next]_vars => TypeOK'
    <2>. SUFFICES ASSUME TypeOK, [Next]_vars PROVE TypeOK'
      OBVIOUS
    <2>1. CASE Next
      BY <2>1, ApiType, CallbackType, ReconcileType, CrashType, EnvironmentType DEF Next
    <2>2. CASE UNCHANGED vars
      BY <2>2 DEF vars, schedulerVars, mesosVars, TypeOK, MesosTypeOK
    <2>. QED
      BY <2>1, <2>2
  <1>. QED
    BY <1>1, <1>2, PTL DEF Spec

-----------------------------------------------------------------------------
(* What a crash takes back *)

\* At the end of every handler ZooKeeper holds what memory holds, but for the
\* two fields that are not exported (SchedulerState.Persist) - unless the write
\* of a request failed and none has succeeded since.
StoredIsCurrent == unsaved \/ stored = Serialize(clusters, nodes)

\* What ZooKeeper holds was written by serialize, at some time.
StoredIsWritten == stored = Serialize(stored.clusters, stored.nodes)

StoredInv == StoredIsCurrent /\ StoredIsWritten

-----------------------------------------------------------------------------
(* What serialize forgets *)

\* A node that was read back and is written again is the same.
LEMMA SerializedNode ==
    ASSUME NEW n \in Node
    PROVE  /\ Serialized(Serialized(n)) = Serialized(n)
           /\ Serialized([n EXCEPT !.asked = TRUE]) = Serialized(n)
  BY DEF Node, Serialized

\* The same for the whole state.
LEMMA SerializeIdempotent ==
    ASSUME NEW cs, NEW ns \in [Id -> Node]
    PROVE  Serialize(cs, Serialize(cs, ns).nodes) = Serialize(cs, ns)
  BY SerializedNode DEF Serialize

-----------------------------------------------------------------------------
(* The handlers *)

\* A handler writes, or has not changed what it would write.
WritesChanges ==
    \/ Persist
    \/ UNCHANGED <<stored, unsaved>> /\ Serialize(clusters', nodes') = Serialize(clusters, nodes)

\* Whatever becomes of the write: a handler that does not write has not changed
\* what would be written.
LEMMA StoresKeep ==
    ASSUME StoredInv, clusters' \in [Names -> Cluster], nodes' \in [Id -> Node],
           WritesChanges \/ PersistFails
    PROVE  StoredInv'
  <1>1. CASE stored' = stored /\ unsaved' = TRUE
    BY <1>1 DEF StoredInv, StoredIsCurrent, StoredIsWritten
  <1>2. CASE Persist
    <2>1. stored' = Serialize(clusters', nodes') /\ unsaved' = FALSE
      BY <1>2 DEF Persist
    <2>2. stored'.clusters = clusters' /\ stored'.nodes = Serialize(clusters', nodes').nodes
      BY <2>1 DEF Serialize
    <2>3. Serialize(stored'.clusters, stored'.nodes) = Serialize(clusters', nodes')
      BY <2>2, SerializeIdempotent
    <2>. QED
      BY <2>1, <2>3 DEF StoredInv, StoredIsCurrent, StoredIsWritten
  <1>3. CASE UNCHANGED <<stored, unsaved>> /\ Serialize(clusters', nodes') = Serialize(clusters, nodes)
    BY <1>3 DEF StoredInv, StoredIsCurrent, StoredIsWritten
  <1>. QED
    BY <1>1, <1>2, <1>3 DEF PersistFails, WritesChanges

\* Requests write, or fail to.
LEMMA ApiStores ==
    ASSUME TypeOK', StoredInv, Api
    PROVE  StoredInv' /\ crashes' = crashes
  <1>1. (Persist \/ PersistFails) /\ crashes' = crashes
    BY DEF Api, PersistInRequest, createCluster, restartCluster, removeCluster, createNode, removeNode, setConfig
  <1>. QED
    BY <1>1, StoresKeep DEF TypeOK, WritesChanges

\* ResourceOffers persists when an offer changed a node; so does an update of a
\* node there is.
LEMMA CallbackStores ==
    ASSUME TypeOK, Callback
    PROVE  WritesChanges /\ crashes' = crashes
  <1>. USE DEF TypeOK
  <1>1. CASE Registered \/ Reregistered
    BY <1>1 DEF Registered, Reregistered, WritesChanges
  <1>2. ASSUME NEW slave, NEW vs, NEW launch, NEW reserve,
               ResourceOffers(slave, vs, launch, reserve)
        PROVE  WritesChanges /\ crashes' = crashes
    <2>. DEFINE unreserve == Unreserved(slave, vs, launch)
                changed   == launch \union reserve \union unreserve
    <2>1. CASE changed # {}
      BY <1>2, <2>1 DEF ResourceOffers, WritesChanges
    <2>2. CASE changed = {}
      <3>1. nodes' = nodes /\ clusters' = clusters /\ UNCHANGED <<stored, unsaved>>
        BY <1>2, <2>2 DEF ResourceOffers, WritesChanges
      <3>. QED
        BY <1>2, <3>1 DEF ResourceOffers, WritesChanges
    <2>. QED
      BY <2>1, <2>2
  <1>3. ASSUME NEW i, NEW state, NEW slave, StatusUpdate(i, state, slave)
        PROVE  WritesChanges /\ crashes' = crashes
    <2>1. CASE nodes[i].place # "absent"
      BY <1>3, <2>1 DEF StatusUpdate, WritesChanges
    <2>2. CASE nodes[i].place = "absent"
      <3>1. nodes' = nodes /\ clusters' = clusters /\ UNCHANGED <<stored, unsaved>>
        BY <1>3, <2>2 DEF StatusUpdate, WritesChanges
      <3>. QED
        BY <1>3, <3>1 DEF StatusUpdate, WritesChanges
    <2>. QED
      BY <2>1, <2>2
  <1>. QED
    BY <1>1, <1>2, <1>3 DEF Callback, AgentUpdate, MasterUpdate

\* A tick that buries, restarts and removes nothing changes nothing.
IdleTick(first) ==
    /\ NodesToRemove = {} /\ ClustersToRemove = {} /\ NodesToRestart(first) = {}
    /\ \A c \in Names : ~RestartDone(c)

\* killTasks writes exactly when the tick was not idle.
LEMMA KillTasksStores ==
    ASSUME TypeOK, NEW first, NEW killed, killTasks(first, killed)
    PROVE  /\ ~IdleTick(first) => Persist
           /\ IdleTick(first) => UNCHANGED <<clusters, nodes, stored, unsaved>>
  <1>1. ~IdleTick(first) => Persist
    BY DEF killTasks, IdleTick
  <1>2. ASSUME IdleTick(first)
        PROVE  UNCHANGED <<clusters, nodes, stored, unsaved>>
    <2>1. Remaining = nodes
      BY <1>2 DEF Remaining, TypeOK, IdleTick
    <2>2. nodes' = nodes
      BY <1>2, <2>1 DEF killTasks, TypeOK, IdleTick
    <2>3. clusters' = clusters
      BY <1>2 DEF killTasks, TypeOK, IdleTick
    <2>4. UNCHANGED <<stored, unsaved>>
      BY <1>2 DEF killTasks, IdleTick
    <2>. QED
      BY <2>2, <2>3, <2>4
  <1>. QED
    BY <1>1, <1>2

\* reconcileTasks only notes when it asked; killTasks persists unless all it did
\* was to send messages.
LEMMA ReconcileStores ==
    ASSUME TypeOK, reconcile
    PROVE  WritesChanges /\ crashes' = crashes
  <1>1. ASSUME NEW ask, reconcileTasks(ask)
        PROVE  WritesChanges /\ crashes' = crashes
    <2>1. \A i \in Id : Serialized(nodes'[i]) = Serialized(nodes[i])
      BY <1>1, SerializedNode DEF reconcileTasks, TypeOK
    <2>2. Serialize(clusters, nodes') = Serialize(clusters, nodes)
      BY <2>1 DEF Serialize
    <2>. QED
      BY <1>1, <2>2 DEF reconcileTasks, WritesChanges
  <1>2. ASSUME NEW first, NEW killed, killTasks(first, killed)
        PROVE  WritesChanges /\ crashes' = crashes
    <2>1. WritesChanges
      BY <1>2, KillTasksStores DEF WritesChanges
    <2>. QED
      BY <1>2, <2>1 DEF killTasks
  <1>. QED
    BY <1>1, <1>2 DEF reconcile

\* Whatever the handler that crashes, memory is what was stored before it.
LEMMA CrashStores ==
    ASSUME StoredInv, Crash
    PROVE  StoredInv' /\ Serialize(clusters', nodes') = stored
  <1>1. Reloaded
    BY DEF Crash, Failover, CrashInKillTasks, CrashInStatusUpdate
  <1>2. clusters' = stored.clusters /\ nodes' = stored.nodes /\ stored' = stored
    BY <1>1 DEF Reloaded
  <1>. QED
    BY <1>2 DEF StoredInv, StoredIsCurrent, StoredIsWritten

\* Every step keeps ZooKeeper up to date, but for the request whose write
\* fails, and only a crash counts as one.
LEMMA StepStores ==
    ASSUME TypeOK, TypeOK', StoredInv, [Next]_vars
    PROVE  /\ StoredInv'
           /\ crashes' # crashes => Serialize(clusters', nodes') = stored
           /\ unsaved' /\ Serialize(clusters', nodes') # Serialize(clusters, nodes) => Api
  <1>1. CASE Api
    BY <1>1, ApiStores
  <1>2. CASE Callback \/ reconcile
    <2>1. WritesChanges /\ crashes' = crashes
      BY <1>2, CallbackStores, ReconcileStores
    <2>2. StoredInv'
      BY <2>1, StoresKeep DEF TypeOK
    <2>3. unsaved' => Serialize(clusters', nodes') = Serialize(clusters, nodes)
      BY <2>1 DEF WritesChanges, Persist
    <2>. QED
      BY <2>1, <2>2, <2>3
  <1>3. CASE Crash
    <2>1. unsaved' = FALSE
      BY <1>3 DEF Crash, Failover, CrashInKillTasks, CrashInStatusUpdate, Reloaded
    <2>. QED
      BY <1>3, <2>1, CrashStores
  <1>4. CASE Environment \/ UNCHANGED vars
    BY <1>4 DEF Environment, vars, schedulerVars, StoredInv, StoredIsCurrent, StoredIsWritten
  <1>. QED
    BY <1>1, <1>2, <1>3, <1>4 DEF Next

-----------------------------------------------------------------------------
(* The theorems *)

\* ZooKeeper is behind memory only between a request whose write failed and the
\* next write that succeeds, of whatever handler.
THEOREM NeverBehind == Spec => []StoredInv
  <1>1. ASSUME Init
        PROVE  StoredInv
    <2>1. nodes \in [Id -> Node]
      BY <1>1, NoNodeType DEF Init
    <2>2. stored = Serialize(clusters, nodes)
      BY <1>1 DEF Init
    <2>3. stored.clusters = clusters /\ stored.nodes = Serialize(clusters, nodes).nodes
      BY <2>2 DEF Serialize
    <2>4. Serialize(stored.clusters, stored.nodes) = stored
      BY <2>1, <2>2, <2>3, SerializeIdempotent
    <2>. QED
      BY <2>2, <2>4 DEF StoredInv, StoredIsCurrent, StoredIsWritten
  <1>2. TypeOK /\ TypeOK' /\ StoredInv /\ [Next]_vars => StoredInv'
    BY StepStores
  <1>. QED
    BY <1>1, <1>2, TypeCorrect, PTL DEF Spec

\* No crash, at any point of any handler, takes back what an offer, an update, a
\* tick or an answered request has changed: a crash loses nothing unless a write
\* failed and none has gone through since, and only requests change something then
\* without a write that goes through.
THEOREM NothingIsLost == Spec => CrashLosesNothing
  <1>1. TypeOK /\ TypeOK' /\ StoredInv /\ [Next]_vars
          => [/\ crashes' # crashes /\ ~unsaved => Serialize(clusters', nodes') = Serialize(clusters, nodes)
              /\ unsaved' /\ Serialize(clusters', nodes') # Serialize(clusters, nodes) => Api]_vars
    BY StepStores DEF StoredInv, StoredIsCurrent
  <1>. QED
    BY <1>1, TypeCorrect, NeverBehind, PTL DEF Spec, CrashLosesNothing

-----------------------------------------------------------------------------
(* The register of clusters and nodes *)

\* A slot is empty exactly when it has no UUID.
UuidsMark(ns) == \A i \in Id : ns[i].place = "absent" <=> ns[i].UUID = 0

\* The ids a cluster has given out, to live and to buried nodes, have no gap.
IdsDense(ns) ==
    \A c \in Names : \E m \in 0..MaxNodes : \A n \in 1..MaxNodes : ns[<<c, n>>].UUID # 0 <=> n <= m

\* Nobody has asked to remove a cluster that does not exist.
KilledExist(cs) == \A c \in Names : cs[c].IsKilled => cs[c].assigned

Consistent(cs, ns) == UuidsMark(ns) /\ IdsDense(ns) /\ KilledExist(cs)

\* Memory is consistent, and so is what a crash goes back to.
RegistryInv == Consistent(clusters, nodes) /\ Consistent(stored.clusters, stored.nodes)

-----------------------------------------------------------------------------
(* Steps that the registry does not show *)

\* m is the same node as n, alive or buried as before.
Stays(m, n) == m.place = n.place /\ m.UUID = n.UUID

\* Most of what happens to a node leaves it where it is.
LEMMA SettersStay ==
    ASSUME NEW n \in Node
    PROVE  /\ Stays(KillNext(n), n)
           /\ Stays(Unreserve(n), n)
           /\ Stays(Serialized(n), n)
           /\ Stays([n EXCEPT !.asked = TRUE], n)
           /\ \A s : Stays(ApplyUnreservedOffer(n, s), n)
           /\ \A s : Stays(ApplyReservedOffer(n, s), n)
           /\ \A g : Stays(Restart(n, g), n)
  <1>. USE DEF Stays, Node
  <1>1. Stays(KillNext(n), n)
    BY DEF KillNext
  <1>2. Stays(Unreserve(n), n)
    BY DEF Unreserve
  <1>3. Stays(Serialized(n), n)
    BY DEF Serialized
  <1>4. Stays([n EXCEPT !.asked = TRUE], n)
    OBVIOUS
  <1>5. \A s : Stays(ApplyUnreservedOffer(n, s), n)
    BY DEF ApplyUnreservedOffer, Placed
  <1>6. \A s : Stays(ApplyReservedOffer(n, s), n)
    BY DEF ApplyReservedOffer, Placed
  <1>7. \A g : Stays(Restart(n, g), n)
    BY DEF Restart
  <1>. QED
    BY <1>1, <1>2, <1>3, <1>4, <1>5, <1>6, <1>7

\* So does a status update.
LEMMA HandledStays ==
    ASSUME NEW n \in Node, NEW state \in TaskState, NEW s \in Slaves \union {NoSlave}
    PROVE  Stays(Handle(Marked(n, s), state), n)
  <1>1. Marked(n, s) \in Node /\ Marked(n, s).place = n.place /\ Marked(n, s).UUID = n.UUID
    BY DEF Node, Marked
  <1>2. ASSUME NEW m \in Node, m.place = n.place, m.UUID = n.UUID
        PROVE  Stays(Start(m), n) /\ Stays(Run(m), n) /\ Stays(Finish(m), n) /\ Stays(Error(m), n)
    BY <1>2 DEF Stays, Node, Start, Run, Finish, Error
  <1>. QED
    BY <1>1, <1>2 DEF Handle, TaskState

\* Two copies with the same nodes, alive or buried, and the same clusters, killed
\* or not, look the same.
LEMMA SameView ==
    ASSUME NEW cs, NEW ns, NEW ds, NEW ms,
           \A i \in Id : Stays(ms[i], ns[i]),
           \A c \in Names : ds[c].assigned = cs[c].assigned /\ ds[c].IsKilled = cs[c].IsKilled
    PROVE  /\ View(ds, ms) = View(cs, ns)
           /\ Consistent(cs, ns) => Consistent(ds, ms)
  <1>1. View(ds, ms) = View(cs, ns)
    BY DEF View, Stays
  <1>2. \A c \in Names, n \in 1..MaxNodes : ms[<<c, n>>].UUID = ns[<<c, n>>].UUID
    BY DEF Id, Stays
  <1>3. IdsDense(ns) => IdsDense(ms)
    BY <1>2 DEF IdsDense
  <1>4. UuidsMark(ns) /\ KilledExist(cs) => UuidsMark(ms) /\ KilledExist(ds)
    BY DEF UuidsMark, KilledExist, Stays
  <1>. QED
    BY <1>1, <1>3, <1>4 DEF Consistent

\* What is written looks like memory.
LEMMA Written ==
    ASSUME NEW cs, NEW ns \in [Id -> Node], NEW st, st = Serialize(cs, ns)
    PROVE  /\ View(st.clusters, st.nodes) = View(cs, ns)
           /\ Consistent(cs, ns) => Consistent(st.clusters, st.nodes)
  <1>1. st.clusters = cs /\ \A i \in Id : Stays(st.nodes[i], ns[i])
    BY SettersStay DEF Serialize
  <1>. QED
    BY <1>1, SameView

\* Persist saves the registry.
LEMMA PersistSaves ==
    ASSUME TypeOK', Persist, Consistent(clusters', nodes')
    PROVE  Registry!Save /\ RegistryInv'
  <1>1. /\ View(stored'.clusters, stored'.nodes) = View(clusters', nodes')
        /\ Consistent(stored'.clusters, stored'.nodes)
    BY Written DEF TypeOK, Persist
  <1>. QED
    BY <1>1 DEF Registry!Save, Persist, RegistryInv

\* The write of a request saves it, or leaves the saved copy behind.
LEMMA RequestSaves ==
    ASSUME TypeOK', RegistryInv, Persist \/ PersistFails, Consistent(clusters', nodes')
    PROVE  Registry!SaveRequest /\ RegistryInv'
  <1>1. CASE Persist
    BY <1>1, PersistSaves DEF Registry!SaveRequest
  <1>2. CASE PersistFails
    BY <1>2 DEF Registry!SaveRequest, RegistryInv, PersistFails
  <1>. QED
    BY <1>1, <1>2

\* The registry shows a step that creates, kills or buries nothing at most as an
\* occasion to save.
LEMMA Invisible ==
    ASSUME TypeOK', RegistryInv, Stores, nextUuid' = nextUuid,
           \A i \in Id : Stays(nodes'[i], nodes[i]),
           \A c \in Names : /\ clusters'[c].assigned = clusters[c].assigned
                            /\ clusters'[c].IsKilled = clusters[c].IsKilled
    PROVE  RegistryInv' /\ [Registry!Next]_(Registry!registryVars)
  <1>1. View(clusters', nodes') = View(clusters, nodes) /\ Consistent(clusters', nodes')
    BY SameView DEF RegistryInv
  <1>2. CASE Persist \/ PersistFails
    <2>1. Registry!SaveRequest /\ RegistryInv'
      BY <1>1, <1>2, RequestSaves
    <2>2. Registry!Other
      BY <1>1, <2>1 DEF Registry!Other
    <2>. QED
      BY <2>1, <2>2 DEF Registry!Next
  <1>3. CASE UNCHANGED <<stored, unsaved>>
    BY <1>1, <1>3 DEF Registry!registryVars, RegistryInv
  <1>. QED
    BY <1>2, <1>3 DEF Stores

\* The same when the step leaves clusters and UUIDs alone.
LEMMA OnlyNodes ==
    ASSUME TypeOK', RegistryInv, Stores,
           nextUuid' = nextUuid, clusters' = clusters,
           \A i \in Id : Stays(nodes'[i], nodes[i])
    PROVE  RegistryInv' /\ [Registry!Next]_(Registry!registryVars)
  BY Invisible

-----------------------------------------------------------------------------
(* Counting *)

\* GetNextSimpleId is the first id that the cluster has not given out.
LEMMA NextId ==
    ASSUME TypeOK, Consistent(clusters, nodes), NEW c \in Names
    PROVE  \E m \in 0..MaxNodes :
              /\ GetNextSimpleId(c) = m + 1
              /\ \A n \in 1..MaxNodes : nodes[<<c, n>>].UUID # 0 <=> n <= m
  <1>1. PICK m \in 0..MaxNodes : \A n \in 1..MaxNodes : nodes[<<c, n>>].UUID # 0 <=> n <= m
    BY DEF Consistent, IdsDense
  <1>. DEFINE live   == NodesOf(nodes, c)
              buried == GraveyardOf(nodes, c)
              used   == {c} \X (1..m)
  <1>2. live \union buried = used
    <2>1. \A i \in Id : nodes[i] \in Node
      BY DEF TypeOK
    <2>2. \A i \in Id : i[1] = c => (i \in live \union buried <=> nodes[i].UUID # 0)
      BY <2>1 DEF Consistent, UuidsMark, NodesOf, GraveyardOf, Node
    <2>3. \A i \in live \union buried : i \in Id /\ i[1] = c
      BY DEF NodesOf, GraveyardOf
    <2>4. \A i \in Id : i[1] = c => i = <<c, i[2]>> /\ i[2] \in 1..MaxNodes
      BY DEF Id
    <2>5. ASSUME NEW i \in live \union buried
          PROVE  i \in used
      BY <1>1, <2>2, <2>3, <2>4
    <2>6. ASSUME NEW n \in 1..m
          PROVE  <<c, n>> \in live \union buried
      <3>1. n \in 1..MaxNodes /\ n <= m
        OBVIOUS
      <3>2. <<c, n>> \in Id /\ <<c, n>>[1] = c
        BY <3>1 DEF Id
      <3>. QED
        BY <1>1, <2>2, <3>1, <3>2
    <2>. QED
      BY <2>5, <2>6
  <1>3. live \intersect buried = {}
    BY DEF NodesOf, GraveyardOf
  <1>4. IsFiniteSet(used) /\ Cardinality(used) = m
    <2>1. IsFiniteSet(1..m) /\ Cardinality(1..m) = m
      BY FS_Interval
    <2>2. [n \in 1..m |-> <<c, n>>] \in Bijection(1..m, used)
      <3>. DEFINE f == [n \in 1..m |-> <<c, n>>]
      <3>1. f \in [1..m -> used]
        OBVIOUS
      <3>2. \A a, b \in 1..m : f[a] = f[b] => a = b
        OBVIOUS
      <3>3. \A t \in used : \E n \in 1..m : f[n] = t
        OBVIOUS
      <3>. QED
        BY <3>1, <3>2, <3>3 DEF Bijection, Injection, IsInjective, Surjection
    <2>. QED
      BY <2>1, <2>2, FS_Bijection DEF ExistsBijection
  <1>. HIDE DEF live, buried, used
  <1>5. IsFiniteSet(live) /\ IsFiniteSet(buried)
    BY <1>2, <1>4, FS_Subset
  <1>6. Cardinality(live) \in Nat /\ Cardinality(buried) \in Nat
    BY <1>5, FS_CardinalityType
  <1>7. Cardinality(live \union buried) = Cardinality(live) + Cardinality(buried) - Cardinality(live \intersect buried)
    BY <1>5, FS_Union
  <1>8. Cardinality(live) + Cardinality(buried) = m
    <2>1. Cardinality(live \intersect buried) = 0
      BY <1>3, FS_EmptySet
    <2>2. Cardinality(live \union buried) = m
      BY <1>2, <1>4, Zenon
    <2>. QED
      BY <1>6, <1>7, <2>1, <2>2
  <1>9. GetNextSimpleId(c) = m + 1
    BY <1>8 DEF GetNextSimpleId, live, buried
  <1>. QED
    BY <1>1, <1>9

-----------------------------------------------------------------------------
(* The steps that the registry shows *)

\* createCluster is CreateCluster.
LEMMA CreateClusterShown ==
    ASSUME TypeOK, TypeOK', RegistryInv, NEW c \in Names, createCluster(c)
    PROVE  RegistryInv' /\ Registry!CreateCluster(c)
  <1>1. nodes' = nodes /\ nextUuid' = nextUuid
    BY DEF createCluster
  <1>2. /\ ~clusters[c].assigned /\ clusters'[c].assigned /\ ~clusters'[c].IsKilled
        /\ \A d \in Names : d # c => clusters'[d] = clusters[d]
    BY DEF createCluster, NewFrameworkRiakCluster, NoCluster, TypeOK
  <1>3. ~clusters[c].IsKilled
    BY <1>2 DEF RegistryInv, Consistent, KilledExist
  <1>4. Consistent(clusters', nodes')
    BY <1>1, <1>2 DEF RegistryInv, Consistent, KilledExist
  <1>5. RegistryInv' /\ Registry!SaveRequest
    BY <1>4, RequestSaves DEF createCluster, PersistInRequest
  <1>6. /\ {d \in Names : clusters'[d].assigned} = {d \in Names : clusters[d].assigned} \union {c}
        /\ {d \in Names : clusters'[d].IsKilled} = {d \in Names : clusters[d].IsKilled}
    BY <1>2, <1>3
  <1>7. View(clusters', nodes') = Registry!Contents(
           View(clusters, nodes).existing \union {c}, View(clusters, nodes).killed,
           View(clusters, nodes).owner, View(clusters, nodes).alive)
    BY <1>1, <1>6 DEF View, Registry!Contents
  <1>8. c \notin View(clusters, nodes).existing
    BY <1>2 DEF View
  <1>. QED
    BY <1>1, <1>5, <1>7, <1>8 DEF Registry!CreateCluster

\* removeCluster is KillCluster.
LEMMA KillClusterShown ==
    ASSUME TypeOK, TypeOK', RegistryInv, NEW c \in Names, removeCluster(c)
    PROVE  RegistryInv' /\ Registry!KillCluster(c)
  <1>1. \A i \in Id : Stays(nodes'[i], nodes[i])
    <2>1. \A i \in Id : nodes[i] \in Node /\ nodes'[i] \in {nodes[i], KillNext(nodes[i])}
      BY DEF removeCluster, TypeOK
    <2>. QED
      BY <2>1, SettersStay DEF Stays
  <1>2. /\ clusters[c].assigned /\ clusters'[c].assigned /\ clusters'[c].IsKilled
        /\ \A d \in Names : d # c => clusters'[d] = clusters[d]
    BY DEF removeCluster, TypeOK, Cluster
  <1>3. View(clusters, nodes') = View(clusters, nodes) /\ Consistent(clusters, nodes')
    BY <1>1, SameView DEF RegistryInv
  <1>4. Consistent(clusters', nodes')
    BY <1>2, <1>3 DEF Consistent, KilledExist
  <1>5. RegistryInv' /\ Registry!SaveRequest
    BY <1>4, RequestSaves DEF removeCluster, PersistInRequest
  <1>6. /\ {d \in Names : clusters'[d].assigned} = {d \in Names : clusters[d].assigned}
        /\ {d \in Names : clusters'[d].IsKilled} = {d \in Names : clusters[d].IsKilled} \union {c}
    BY <1>2
  <1>7. View(clusters', nodes') = Registry!Contents(
           View(clusters, nodes').existing, View(clusters, nodes').killed \union {c},
           View(clusters, nodes').owner, View(clusters, nodes').alive)
    BY <1>6 DEF View, Registry!Contents
  <1>8. c \in View(clusters, nodes).existing
    BY <1>2 DEF View
  <1>9. nextUuid' = nextUuid
    BY DEF removeCluster
  <1>. QED
    BY <1>3, <1>5, <1>7, <1>8, <1>9 DEF Registry!KillCluster

\* createNode is AddNode, with the first free id and the next UUID.
LEMMA AddNodeShown ==
    ASSUME TypeOK, TypeOK', RegistryInv, NEW c \in Names, createNode(c)
    PROVE  RegistryInv' /\ \E n \in 1..MaxNodes, uuid \in 1..MaxUuid : Registry!AddNode(c, n, uuid)
  <1>2. PICK m \in 0..MaxNodes : /\ GetNextSimpleId(c) = m + 1
                                 /\ \A n \in 1..MaxNodes : nodes[<<c, n>>].UUID # 0 <=> n <= m
    BY NextId DEF RegistryInv
  <1>. DEFINE k   == <<c, m + 1>>
              new == NewFrameworkRiakNode(clusters[c].Generation, nextUuid)
  <1>3. m + 1 \in 1..MaxNodes /\ k \in Id
    BY <1>2 DEF createNode, Id
  <1>4. nextUuid \in 1..MaxUuid /\ nextUuid' = nextUuid + 1 /\ clusters' = clusters /\ clusters[c].assigned
    BY DEF createNode, TypeOK
  <1>5. nodes' = [nodes EXCEPT ![k] = new]
    BY <1>2 DEF createNode
  <1>6. new.place = "nodes" /\ new.UUID = nextUuid
    BY DEF NewFrameworkRiakNode, NoNode
  <1>7. nodes'[k] = new /\ \A i \in Id : i # k => nodes'[i] = nodes[i]
    BY <1>3, <1>5 DEF TypeOK
  <1>. HIDE DEF new
  <1>8. Consistent(clusters', nodes')
    <2>0. Consistent(clusters, nodes)
      BY DEF RegistryInv
    <2>1. UuidsMark(nodes') /\ KilledExist(clusters')
      BY <1>4, <1>6, <1>7, <2>0 DEF Consistent, UuidsMark, KilledExist
    <2>2. ASSUME NEW d \in Names
          PROVE  \E l \in 0..MaxNodes : \A n \in 1..MaxNodes : nodes'[<<d, n>>].UUID # 0 <=> n <= l
      <3>1. \A n \in 1..MaxNodes : <<d, n>> \in Id /\ (<<d, n>> = k <=> d = c /\ n = m + 1)
        BY DEF Id
      <3>2. CASE d = c
        <4>1. \A n \in 1..MaxNodes : nodes'[<<d, n>>].UUID # 0 <=> n <= m + 1
          BY <1>2, <1>4, <1>6, <1>7, <3>1, <3>2
        <4>2. m + 1 \in 0..MaxNodes
          BY <1>3
        <4>. QED
          BY <4>1, <4>2
      <3>3. CASE d # c
        <4>1. \A n \in 1..MaxNodes : nodes'[<<d, n>>] = nodes[<<d, n>>]
          BY <1>7, <3>1, <3>3
        <4>. QED
          BY <2>0, <4>1 DEF Consistent, IdsDense
      <3>. QED
        BY <3>2, <3>3
    <2>3. IdsDense(nodes')
      BY <2>2 DEF IdsDense
    <2>. QED
      BY <2>1, <2>3 DEF Consistent
  <1>9. RegistryInv' /\ Registry!SaveRequest
    BY <1>8, RequestSaves DEF createNode, PersistInRequest
  <1>10. PICK u \in 1..MaxUuid : u = nextUuid
    BY <1>4
  <1>11. Registry!AddNode(c, m + 1, u)
    <2>. DEFINE old == View(clusters, nodes)
    <2>1. c \in old.existing
      BY <1>4 DEF View
    <2>2. \A i \in Id : old.owner[i] = nodes[i].UUID
      BY DEF View
    <2>3. \A n \in 1..MaxNodes : <<c, n>> \in Id
      BY DEF Id
    <2>4. old.owner[<<c, m + 1>>] = 0
      BY <1>2, <1>3, <2>2, <2>3
    <2>5. \A n \in 1..((m + 1) - 1) : old.owner[<<c, n>>] # 0
      <3>1. ASSUME NEW n \in 1..((m + 1) - 1)
            PROVE  n \in 1..MaxNodes /\ n <= m
        BY <1>3
      <3>. QED
        BY <1>2, <2>2, <2>3, <3>1
    <2>6. u \notin 1..(nextUuid - 1) /\ 1..(nextUuid' - 1) = (1..(nextUuid - 1)) \union {u}
      BY <1>4, <1>10
    <2>7. [i \in Id |-> nodes'[i].UUID] = [[i \in Id |-> nodes[i].UUID] EXCEPT ![k] = u]
      <3>1. \A i \in Id : nodes'[i].UUID = IF i = k THEN u ELSE nodes[i].UUID
        BY <1>6, <1>7, <1>10
      <3>. QED
        BY <3>1
    <2>8. {i \in Id : nodes'[i].place = "nodes"} = {i \in Id : nodes[i].place = "nodes"} \union {k}
      BY <1>3, <1>6, <1>7
    <2>9. View(clusters', nodes') = Registry!Contents(
             old.existing, old.killed, [old.owner EXCEPT ![k] = u], old.alive \union {k})
      BY <1>4, <2>7, <2>8 DEF View, Registry!Contents
    <2>. HIDE DEF old
    <2>. QED
      BY <1>9, <2>1, <2>4, <2>5, <2>6, <2>9 DEF Registry!AddNode, old
  <1>. QED
    BY <1>3, <1>9, <1>11

\* killTasks is Retire, or nothing.
LEMMA RetireShown ==
    ASSUME TypeOK, TypeOK', RegistryInv, NEW first, NEW killed, killTasks(first, killed), ~IdleTick(first)
    PROVE  RegistryInv' /\ Registry!Retire(NodesToRemove, ClustersToRemove)
  <1>1. Consistent(clusters, nodes)
    BY DEF RegistryInv
  <1>2. \A i \in Id : nodes[i] \in Node
    BY DEF TypeOK
  <1>3. ASSUME NEW i \in Id
        PROVE  /\ Remaining[i] \in Node
               /\ Remaining[i].UUID = nodes[i].UUID
               /\ Remaining[i].place = IF i \in NodesToRemove THEN "graveyard" ELSE nodes[i].place
    <2>1. Bury(nodes[i]).UUID = nodes[i].UUID /\ Bury(nodes[i]).place = "graveyard"
      BY <1>2 DEF Bury, NoNode, Node
    <2>. QED
      BY <1>2, <2>1, BuryType DEF Remaining
  <1>4. ASSUME NEW i \in Id
        PROVE  /\ i[1] \in ClustersToRemove => nodes'[i].UUID = 0 /\ nodes'[i].place = "absent"
               /\ i[1] \notin ClustersToRemove => Stays(nodes'[i], Remaining[i])
    <2>1. NoNode.UUID = 0 /\ NoNode.place = "absent"
      BY DEF NoNode
    <2>2. nodes'[i] = IF i[1] \in ClustersToRemove THEN NoNode
                      ELSE IF i \in NodesToRestart(first) THEN Restart(Remaining[i], clusters[i[1]].Generation)
                      ELSE Remaining[i]
      BY DEF killTasks
    <2>3. Stays(Restart(Remaining[i], clusters[i[1]].Generation), Remaining[i]) /\ Stays(Remaining[i], Remaining[i])
      BY <1>3, SettersStay DEF Stays
    <2>. QED
      BY <2>1, <2>2, <2>3
  <1>5. ASSUME NEW c \in Names
        PROVE  /\ c \in ClustersToRemove => ~clusters'[c].assigned /\ ~clusters'[c].IsKilled
               /\ c \notin ClustersToRemove => /\ clusters'[c].assigned = clusters[c].assigned
                                               /\ clusters'[c].IsKilled = clusters[c].IsKilled
    <2>1. ~NoCluster.assigned /\ ~NoCluster.IsKilled
      BY DEF NoCluster
    <2>2. /\ [clusters[c] EXCEPT !.IsRestarting = FALSE].assigned = clusters[c].assigned
          /\ [clusters[c] EXCEPT !.IsRestarting = FALSE].IsKilled = clusters[c].IsKilled
      BY DEF TypeOK, Cluster
    <2>. QED
      BY <2>1, <2>2 DEF killTasks
  <1>6. \A i \in Id : i[1] \in ClustersToRemove /\ nodes[i].place = "nodes" => i \in NodesToRemove
    BY <1>3 DEF ClustersToRemove, NodesOf
  <1>7. /\ NodesToRemove \subseteq {i \in Id : nodes[i].place = "nodes"}
        /\ ClustersToRemove \subseteq {c \in Names : clusters[c].IsKilled}
        /\ NodesToRemove \subseteq Id /\ ClustersToRemove \subseteq Names
    BY DEF NodesToRemove, AllNodes, ClustersToRemove
  <1>8. Consistent(clusters', nodes')
    <2>1. UuidsMark(nodes')
      <3>1. ASSUME NEW i \in Id
            PROVE  nodes'[i].place = "absent" <=> nodes'[i].UUID = 0
        <4>1. nodes[i].place = "absent" <=> nodes[i].UUID = 0
          BY <1>1 DEF Consistent, UuidsMark
        <4>2. i \in NodesToRemove => nodes[i].place = "nodes"
          BY <1>7
        <4>. QED
          BY <1>3, <1>4, <4>1, <4>2 DEF Stays
      <3>. QED
        BY <3>1 DEF UuidsMark
    <2>2. KilledExist(clusters')
      BY <1>1, <1>5 DEF Consistent, KilledExist
    <2>3. ASSUME NEW c \in Names
          PROVE  \E m \in 0..MaxNodes : \A n \in 1..MaxNodes : nodes'[<<c, n>>].UUID # 0 <=> n <= m
      <3>1. \A n \in 1..MaxNodes : <<c, n>> \in Id /\ <<c, n>>[1] = c
        BY DEF Id
      <3>2. CASE c \in ClustersToRemove
        <4>1. \A n \in 1..MaxNodes : nodes'[<<c, n>>].UUID # 0 <=> n <= 0
          BY <1>4, <3>1, <3>2
        <4>2. 0 \in 0..MaxNodes
          OBVIOUS
        <4>. QED
          BY <4>1, <4>2
      <3>3. CASE c \notin ClustersToRemove
        <4>1. \A n \in 1..MaxNodes : nodes'[<<c, n>>].UUID = nodes[<<c, n>>].UUID
          BY <1>3, <1>4, <3>1, <3>3 DEF Stays
        <4>. QED
          BY <1>1, <4>1 DEF Consistent, IdsDense
      <3>. QED
        BY <3>2, <3>3
    <2>4. IdsDense(nodes')
      BY <2>3 DEF IdsDense
    <2>. QED
      BY <2>1, <2>2, <2>4 DEF Consistent
  <1>9. RegistryInv' /\ Registry!Save
    BY <1>8, KillTasksStores, PersistSaves
  <1>10. Registry!Retire(NodesToRemove, ClustersToRemove)
    <2>. DEFINE old == View(clusters, nodes)
    <2>1. /\ old.alive = {i \in Id : nodes[i].place = "nodes"}
          /\ old.killed = {c \in Names : clusters[c].IsKilled}
          /\ old.existing = {c \in Names : clusters[c].assigned}
          /\ old.owner = [i \in Id |-> nodes[i].UUID]
      BY DEF View
    <2>. HIDE DEF old
    <2>2. NodesToRemove \subseteq old.alive /\ ClustersToRemove \subseteq old.killed
      BY <1>7, <2>1
    <2>3. \A i \in old.alive \ NodesToRemove : i[1] \notin ClustersToRemove
      BY <1>6, <2>1
    <2>4. {i \in Id : nodes'[i].place = "nodes"} = old.alive \ NodesToRemove
      <3>1. ASSUME NEW i \in Id
            PROVE  nodes'[i].place = "nodes" <=> nodes[i].place = "nodes" /\ i \notin NodesToRemove
        BY <1>3, <1>4, <1>6 DEF Stays
      <3>. QED
        BY <2>1, <3>1
    <2>5. /\ {c \in Names : clusters'[c].assigned} = old.existing \ ClustersToRemove
          /\ {c \in Names : clusters'[c].IsKilled} = old.killed \ ClustersToRemove
      BY <1>5, <2>1
    <2>6. \A i \in Id : nodes'[i].UUID = IF i[1] \in ClustersToRemove THEN 0 ELSE nodes[i].UUID
      BY <1>3, <1>4 DEF Stays
    <2>7. [i \in Id |-> nodes'[i].UUID] = [i \in Id |-> IF i[1] \in ClustersToRemove THEN 0 ELSE old.owner[i]]
      BY <2>1, <2>6
    <2>8. View(clusters', nodes')
             = Registry!Contents(old.existing \ ClustersToRemove, old.killed \ ClustersToRemove,
                                 [i \in Registry!Ids |-> IF i[1] \in ClustersToRemove THEN 0 ELSE old.owner[i]],
                                 old.alive \ NodesToRemove)
      BY <2>4, <2>5, <2>7 DEF View, Registry!Contents, Registry!Ids, Id
    <2>9. nextUuid' = nextUuid
      BY DEF killTasks
    <2>. QED
      BY <1>9, <2>2, <2>3, <2>8, <2>9 DEF Registry!Retire, old
  <1>. QED
    BY <1>9, <1>10

-----------------------------------------------------------------------------
(* All steps *)

\* Every step of the scheduler is a step of the registry, or none.
LEMMA StepRegistry ==
    ASSUME TypeOK, TypeOK', RegistryInv, [Next]_vars
    PROVE  RegistryInv' /\ [Registry!Next]_(Registry!registryVars)
  <1>0. \A i \in Id : nodes[i] \in Node /\ Stays(nodes[i], nodes[i])
    BY DEF TypeOK, Stays
  <1>1. ASSUME NEW c \in Names, createCluster(c)
        PROVE  RegistryInv' /\ Registry!Next
    BY <1>1, CreateClusterShown DEF Registry!Next
  <1>2. ASSUME NEW c \in Names, removeCluster(c)
        PROVE  RegistryInv' /\ Registry!Next
    BY <1>2, KillClusterShown DEF Registry!Next
  <1>3. ASSUME NEW c \in Names, createNode(c)
        PROVE  RegistryInv' /\ Registry!Next
    BY <1>3, AddNodeShown DEF Registry!Next
  <1>4. ASSUME NEW c \in Names, restartCluster(c)
        PROVE  RegistryInv' /\ [Registry!Next]_(Registry!registryVars)
    <2>1. \A d \in Names : /\ clusters'[d].assigned = clusters[d].assigned
                           /\ clusters'[d].IsKilled = clusters[d].IsKilled
      BY <1>4 DEF restartCluster, RollingRestart, TypeOK, Cluster
    <2>. QED
      BY <1>0, <1>4, <2>1, Invisible DEF restartCluster, Stores, PersistInRequest
  <1>5. ASSUME NEW i \in Id, removeNode(i)
        PROVE  RegistryInv' /\ [Registry!Next]_(Registry!registryVars)
    <2>1. \A j \in Id : nodes'[j] \in {nodes[j], KillNext(nodes[j])}
      BY <1>5 DEF removeNode, TypeOK
    <2>2. \A j \in Id : Stays(nodes'[j], nodes[j])
      BY <1>0, <2>1, SettersStay
    <2>. QED
      BY <1>5, <2>2, OnlyNodes DEF removeNode, Stores, PersistInRequest
  <1>6. CASE Registered \/ Reregistered \/ \E c \in Names : setConfig(c)
    BY <1>0, <1>6, OnlyNodes DEF Registered, Reregistered, setConfig, Stores, PersistInRequest
  <1>7. ASSUME NEW slave, NEW vs, NEW launch, NEW reserve, ResourceOffers(slave, vs, launch, reserve)
        PROVE  RegistryInv' /\ [Registry!Next]_(Registry!registryVars)
    <2>1. \A j \in Id : nodes'[j] \in {nodes[j], Unreserve(nodes[j]), ApplyUnreservedOffer(nodes[j], slave),
                                       ApplyReservedOffer(nodes[j], slave)}
      BY <1>7 DEF ResourceOffers
    <2>2. \A j \in Id : Stays(nodes'[j], nodes[j])
      BY <1>0, <2>1, SettersStay
    <2>. QED
      BY <1>7, <2>2, OnlyNodes DEF ResourceOffers, Stores
  <1>8. ASSUME NEW i \in Id, NEW state \in TaskState, NEW slave \in Slaves \union {NoSlave},
               StatusUpdate(i, state, slave)
        PROVE  RegistryInv' /\ [Registry!Next]_(Registry!registryVars)
    <2>1. \A j \in Id : nodes'[j] \in {nodes[j], Handle(Marked(nodes[j], slave), state)}
      BY <1>8 DEF StatusUpdate, TypeOK
    <2>2. \A j \in Id : Stays(nodes'[j], nodes[j])
      BY <1>0, <2>1, HandledStays
    <2>. QED
      BY <1>8, <2>2, OnlyNodes DEF StatusUpdate, Stores
  <1>9. ASSUME NEW i \in Id, AgentUpdate(i) \/ MasterUpdate(i)
        PROVE  RegistryInv' /\ [Registry!Next]_(Registry!registryVars)
    <2>1. CASE AgentUpdate(i)
      <3>1. tasks[i] \in Task /\ tasks[i].queue # <<>>
        BY <2>1 DEF AgentUpdate, TypeOK, MesosTypeOK
      <3>2. Head(tasks[i].queue) \in TaskState /\ tasks[i].slave \in Slaves \union {NoSlave}
        BY <3>1, ReportedType DEF Task
      <3>. QED
        BY <1>8, <2>1, <3>2 DEF AgentUpdate
    <2>2. CASE MasterUpdate(i)
      <3>1. answers[i] \in Seq(Answer) /\ answers[i] # <<>>
        BY <2>2 DEF MasterUpdate, TypeOK, MesosTypeOK
      <3>2. Head(answers[i]) \in Answer
        BY <3>1, HeadTailProperties
      <3>3. Head(answers[i]).state \in TaskState /\ Head(answers[i]).slave \in Slaves \union {NoSlave}
        BY <3>2 DEF Answer
      <3>. QED
        BY <1>8, <2>2, <3>3 DEF MasterUpdate
    <2>. QED
      BY <1>9, <2>1, <2>2
  <1>10. ASSUME NEW ask, reconcileTasks(ask)
         PROVE  RegistryInv' /\ [Registry!Next]_(Registry!registryVars)
    <2>1. \A j \in Id : nodes'[j] \in {nodes[j], [nodes[j] EXCEPT !.asked = TRUE]}
      BY <1>10 DEF reconcileTasks
    <2>2. \A j \in Id : Stays(nodes'[j], nodes[j])
      BY <1>0, <2>1, SettersStay
    <2>. QED
      BY <1>10, <2>2, OnlyNodes DEF reconcileTasks, Stores
  <1>11. ASSUME NEW first, NEW killed, killTasks(first, killed)
         PROVE  RegistryInv' /\ [Registry!Next]_(Registry!registryVars)
    <2>1. CASE IdleTick(first)
      <3>1. UNCHANGED <<clusters, nodes, stored, unsaved, nextUuid>>
        BY <1>11, <2>1, KillTasksStores DEF killTasks
      <3>. QED
        BY <1>0, <3>1, OnlyNodes DEF Stores
    <2>2. CASE ~IdleTick(first)
      <3>1. RegistryInv' /\ Registry!Retire(NodesToRemove, ClustersToRemove)
        BY <1>11, <2>2, RetireShown
      <3>2. PICK buried \in SUBSET Id, gone \in SUBSET Names : buried = NodesToRemove /\ gone = ClustersToRemove
        BY DEF NodesToRemove, AllNodes, ClustersToRemove
      <3>3. Registry!Retire(buried, gone)
        BY <3>1, <3>2 DEF Registry!Retire
      <3>. QED
        BY <3>1, <3>3 DEF Registry!Next, Registry!Ids, Id
    <2>. QED
      BY <2>1, <2>2
  <1>12. CASE Crash
    <2>1. Reloaded
      BY <1>12 DEF Crash, Failover, CrashInKillTasks, CrashInStatusUpdate
    <2>2. /\ clusters' = stored.clusters /\ nodes' = stored.nodes
          /\ stored' = stored /\ unsaved' = FALSE /\ nextUuid' = nextUuid
      BY <2>1 DEF Reloaded
    <2>3. RegistryInv' /\ Registry!Crash
      BY <2>2 DEF RegistryInv, Registry!Crash, Registry!Save
    <2>. QED
      BY <2>3 DEF Registry!Next
  <1>13. CASE Environment \/ UNCHANGED vars
    <2>1. UNCHANGED <<clusters, nodes, stored, unsaved, nextUuid>>
      BY <1>13 DEF Environment, vars, schedulerVars
    <2>. QED
      BY <1>0, <2>1, OnlyNodes DEF Stores
  <1>14. CASE Api
    BY <1>1, <1>2, <1>3, <1>4, <1>5, <1>6, <1>14 DEF Api
  <1>15. CASE Callback
    BY <1>6, <1>7, <1>9, <1>15 DEF Callback
  <1>16. CASE reconcile
    BY <1>10, <1>11, <1>16 DEF reconcile
  <1>. QED
    BY <1>12, <1>13, <1>14, <1>15, <1>16 DEF Next

-----------------------------------------------------------------------------
(* The theorems *)

\* The inductive invariant: ids are dense, UUIDs mark nodes.
THEOREM IdsStayDense == Spec => []RegistryInv
  <1>1. ASSUME Init
        PROVE  RegistryInv
    <2>1. \A i \in Id : nodes[i].UUID = 0 /\ nodes[i].place = "absent"
      BY <1>1 DEF Init, NoNode
    <2>2. \A c \in Names, n \in 1..MaxNodes : nodes[<<c, n>>].UUID # 0 <=> n <= 0
      BY <2>1 DEF Id
    <2>3. 0 \in 0..MaxNodes
      OBVIOUS
    <2>4. IdsDense(nodes)
      BY <2>2, <2>3 DEF IdsDense
    <2>5. KilledExist(clusters)
      BY <1>1 DEF Init, NoCluster, KilledExist
    <2>6. Consistent(clusters, nodes)
      BY <2>1, <2>4, <2>5 DEF Consistent, UuidsMark
    <2>7. nodes \in [Id -> Node] /\ stored = Serialize(clusters, nodes)
      BY <1>1, NoNodeType DEF Init
    <2>. QED
      BY <2>6, <2>7, Written DEF RegistryInv
  <1>2. TypeOK /\ TypeOK' /\ RegistryInv /\ [Next]_vars
        => RegistryInv'
    BY StepRegistry
  <1>. QED
    BY <1>1, <1>2, TypeCorrect, PTL DEF Spec

\* What users see of clusters and nodes is a register with a saved copy: ids and
\* UUIDs are not reused, burials are final, messages are invisible, and a crash
\* forgets only requests that got no answer.
THEOREM SchedulerImplementsRegistry == Spec => ImplementsRegistry
  <1>1. ASSUME Init
        PROVE  Registry!Init
    <2>1. nodes \in [Id -> Node] /\ stored = Serialize(clusters, nodes)
      BY <1>1, NoNodeType DEF Init
    <2>2. View(stored.clusters, stored.nodes) = View(clusters, nodes)
      BY <2>1, Written
    <2>3. \A i \in Id : nodes[i].UUID = 0 /\ nodes[i].place = "absent"
      BY <1>1 DEF Init, NoNode
    <2>4. \A c \in Names : ~clusters[c].assigned /\ ~clusters[c].IsKilled
      BY <1>1 DEF Init, NoCluster
    <2>5. View(clusters, nodes) = Registry!Empty
      BY <2>3, <2>4 DEF View, Registry!Empty, Registry!Contents, Registry!Ids, Id
    <2>6. 1..(nextUuid - 1) = {} /\ unsaved = FALSE
      BY <1>1 DEF Init
    <2>. QED
      BY <2>2, <2>5, <2>6 DEF Registry!Init
  <1>2. TypeOK /\ TypeOK' /\ RegistryInv /\ [Next]_vars
        => [Registry!Next]_(Registry!registryVars)
    BY StepRegistry
  <1>. QED
    BY <1>1, <1>2, TypeCorrect, IdsStayDense, PTL DEF Spec, ImplementsRegistry, Registry!Spec
=============================================================================
