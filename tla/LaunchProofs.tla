---------------------------- MODULE LaunchProofs -----------------------------
(***************************************************************************)
(* Launches, for every value of the constants: no executor is ever given a *)
(* second task, and no answer to an offer destroys the volume a task runs  *)
(* on, or one that a node waits for.                                       *)
(*                                                                         *)
(* ExecutorStartedOnce alone is not inductive: it says nothing of the node *)
(* that the next launch will be made for. The invariant adds that UUIDs    *)
(* identify nodes, and that a node remembers a Generation at least as high *)
(* as that of every launch ever made for it - in memory and in ZooKeeper,  *)
(* which may be behind memory when a crash comes. The invariant for        *)
(* volumes is about the offers that are being answered: what is in one of  *)
(* them exists, is in no other one and is used by no task.                 *)
(***************************************************************************)
EXTENDS SchedulerProofs

-----------------------------------------------------------------------------
(* Executors *)

\* The executors that were started or that a launch on its way names.
Issued == executors \union {l.executor : l \in UNION {a.launch : a \in accepts}}

\* NewFrameworkRiakNode gives every node a UUID of its own, below the next one.
UuidsIdentify(ns, next) ==
    \A i \in Id :
        /\ ns[i].UUID < next
        /\ ns[i].place = "nodes" => ns[i].UUID # 0
        /\ \A j \in Id : ns[i].UUID = ns[j].UUID /\ ns[i].UUID # 0 => i = j

\* No launch is ahead of the Generation of its node.
GenerationsCover(ns, next, es) ==
    \A e \in es :
        /\ e[1] < next
        /\ \A i \in Id : ns[i].place = "nodes" /\ ns[i].UUID = e[1] => e[2] <= ns[i].Generation

Covers(ns, next, es) == UuidsIdentify(ns, next) /\ GenerationsCover(ns, next, es)

\* Memory covers what was issued, and so does what a crash goes back to.
ExecutorInv ==
    /\ Covers(nodes, nextUuid, Issued)
    /\ Covers(stored.nodes, nextUuid, Issued)
    /\ ExecutorStartedOnce

-----------------------------------------------------------------------------
(* Nodes keep their identity *)

\* m is what became of node n: UUID and Generation stay, unless it is gone.
Follows(m, n) ==
    /\ m.UUID \in {n.UUID, 0}
    /\ m.place = "nodes" => n.place = "nodes" /\ m.UUID = n.UUID /\ n.Generation <= m.Generation

\* Nothing the scheduler does to a node changes its identity.
LEMMA SettersFollow ==
    ASSUME NEW n \in Node
    PROVE  /\ Follows(n, n)
           /\ Follows(NoNode, n)
           /\ Follows(Bury(n), n)
           /\ Follows(KillNext(n), n)
           /\ Follows(Unreserve(n), n)
           /\ Follows(Serialized(n), n)
           /\ Follows([n EXCEPT !.asked = TRUE], n)
           /\ \A s : Follows(ApplyUnreservedOffer(n, s), n)
           /\ \A g : Follows(Restart(n, g), n)
  <1>. USE DEF Follows, Node
  <1>1. Follows(n, n)
    OBVIOUS
  <1>2. Follows(NoNode, n)
    BY DEF NoNode
  <1>3. Follows(Bury(n), n)
    BY DEF Bury, NoNode
  <1>4. Follows(KillNext(n), n)
    BY DEF KillNext
  <1>5. Follows(Unreserve(n), n)
    BY DEF Unreserve
  <1>6. Follows(Serialized(n), n)
    BY DEF Serialized
  <1>7. Follows([n EXCEPT !.asked = TRUE], n)
    OBVIOUS
  <1>8. \A s : Follows(ApplyUnreservedOffer(n, s), n)
    BY DEF ApplyUnreservedOffer, Placed
  <1>9. \A g : Follows(Restart(n, g), n)
    BY DEF Restart
  <1>. QED
    BY <1>1, <1>2, <1>3, <1>4, <1>5, <1>6, <1>7, <1>8, <1>9

\* Neither does a status update.
LEMMA HandledFollows ==
    ASSUME NEW n \in Node, NEW state \in TaskState, NEW s \in Slaves \union {NoSlave}
    PROVE  Follows(Handle(Marked(n, s), state), n)
  <1>1. /\ Marked(n, s) \in Node
        /\ Marked(n, s).place = n.place /\ Marked(n, s).UUID = n.UUID
        /\ Marked(n, s).Generation = n.Generation
    BY DEF Node, Marked
  <1>2. ASSUME NEW m \in Node, m.place = n.place, m.UUID = n.UUID, m.Generation = n.Generation
        PROVE  Follows(Start(m), n) /\ Follows(Run(m), n) /\ Follows(Finish(m), n) /\ Follows(Error(m), n)
    BY <1>2 DEF Follows, Node, Start, Run, Finish, Error
  <1>. QED
    BY <1>1, <1>2 DEF Handle, TaskState

\* A launch counts the Generation up.
LEMMA LaunchFollows ==
    ASSUME NEW n \in Node, NEW s
    PROVE  /\ Follows(ApplyReservedOffer(n, s), n)
           /\ ApplyReservedOffer(n, s).UUID = n.UUID
           /\ ApplyReservedOffer(n, s).Generation = n.Generation + 1
  <1>1. /\ Placed(n, s).place = n.place /\ Placed(n, s).UUID = n.UUID
        /\ Placed(n, s).Generation = n.Generation
    BY DEF Node, Placed
  <1>2. /\ ApplyReservedOffer(n, s).place = n.place /\ ApplyReservedOffer(n, s).UUID = n.UUID
        /\ ApplyReservedOffer(n, s).Generation = n.Generation + 1
    BY <1>1 DEF ApplyReservedOffer, Placed, Node
  <1>. QED
    BY <1>2 DEF Follows, Node

-----------------------------------------------------------------------------
(* The invariant, step by step *)

\* What was issued is well typed.
LEMMA IssuedType ==
    ASSUME TypeOK
    PROVE  \A e \in Issued : e[1] \in Int /\ e[2] \in Int
  BY DEF Issued, TypeOK, MesosTypeOK, Accept, Launch, ExecutorID

\* Nodes that follow others cover what those covered.
LEMMA FollowersCover ==
    ASSUME NEW ns \in [Id -> Node], NEW ms \in [Id -> Node], NEW next \in Int, NEW later \in Int,
           NEW es, NEW fs, 1 <= next, next <= later, fs \subseteq es,
           \A e \in es : e[1] \in Int /\ e[2] \in Int,
           \A i \in Id : Follows(ms[i], ns[i]),
           Covers(ns, next, es)
    PROVE  Covers(ms, later, fs)
  <1>1. \A i \in Id : /\ ns[i].UUID \in Int /\ ns[i].Generation \in Int
                      /\ ms[i].UUID \in Int /\ ms[i].Generation \in Int
    BY DEF Node
  <1>2. UuidsIdentify(ms, later)
    BY <1>1 DEF Covers, UuidsIdentify, Follows
  <1>3. GenerationsCover(ms, later, fs)
    BY <1>1 DEF Covers, GenerationsCover, Follows
  <1>. QED
    BY <1>2, <1>3 DEF Covers

\* What a handler leaves in ZooKeeper covers what was issued: it is what memory
\* holds, or it is left alone and nothing is issued.
LEMMA StoredCovers ==
    ASSUME TypeOK, TypeOK', ExecutorInv, Covers(nodes', nextUuid', Issued'),
           nextUuid <= nextUuid',
           \/ Persist
           \/ stored' = stored /\ Issued' \subseteq Issued
    PROVE  Covers(stored'.nodes, nextUuid', Issued')
  <1>0. /\ nextUuid \in Int /\ nextUuid' \in Int /\ 1 <= nextUuid /\ 1 <= nextUuid'
        /\ nodes' \in [Id -> Node] /\ stored.nodes \in [Id -> Node] /\ stored'.nodes \in [Id -> Node]
    BY DEF TypeOK, State
  <1>1. CASE Persist
    <2>1. \A i \in Id : Follows(stored'.nodes[i], nodes'[i])
      <3>1. \A i \in Id : stored'.nodes[i] = Serialized(nodes'[i])
        BY <1>1 DEF Persist, Serialize
      <3>. QED
        BY <1>0, <3>1, SettersFollow
    <2>2. \A e \in Issued' : e[1] \in Int /\ e[2] \in Int
      BY DEF Issued, TypeOK, MesosTypeOK, Accept, Launch, ExecutorID
    <2>. DEFINE ms == stored'.nodes
                next == nextUuid'
                es == Issued'
    <2>3. Covers(nodes', next, es) /\ next <= next /\ es \subseteq es
      BY <1>0
    <2>. HIDE DEF ms, next, es
    <2>4. Covers(ms, next, es)
      BY <1>0, <2>1, <2>2, <2>3, FollowersCover DEF ms, next, es
    <2>. QED
      BY <2>4 DEF ms, next, es
  <1>2. CASE stored' = stored /\ Issued' \subseteq Issued
    <2>1. \A i \in Id : Follows(stored.nodes[i], stored.nodes[i])
      BY <1>0, SettersFollow
    <2>2. Covers(stored.nodes, nextUuid', Issued')
      BY <1>0, <1>2, <2>1, IssuedType, FollowersCover DEF ExecutorInv
    <2>. QED
      BY <1>2, <2>2
  <1>. QED
    BY <1>1, <1>2

\* A step that issues no executor and creates no node keeps the first two parts.
LEMMA QuietStep ==
    ASSUME TypeOK, TypeOK', ExecutorInv, Stores,
           \A i \in Id : Follows(nodes'[i], nodes[i]),
           nextUuid' = nextUuid, Issued' \subseteq Issued
    PROVE  Covers(nodes', nextUuid', Issued') /\ Covers(stored'.nodes, nextUuid', Issued')
  <1>1. nextUuid >= 1 /\ nextUuid \in Int /\ nextUuid' = nextUuid
    BY DEF TypeOK
  <1>2. nodes \in [Id -> Node] /\ nodes' \in [Id -> Node]
    BY DEF TypeOK
  <1>3. Covers(nodes', nextUuid', Issued')
    BY <1>1, <1>2, IssuedType, FollowersCover DEF ExecutorInv
  <1>4. Persist \/ stored' = stored
    BY DEF Stores, PersistFails
  <1>. QED
    BY <1>1, <1>3, <1>4, StoredCovers

\* Most steps leave launches and executors alone.
LEMMA IssueNothing ==
    ASSUME TypeOK, TypeOK', ExecutorInv, Stores,
           \A i \in Id : Follows(nodes'[i], nodes[i]),
           nextUuid' = nextUuid, accepts' = accepts, executors' = executors
    PROVE  ExecutorInv'
  <1>1. Issued' = Issued
    BY DEF Issued
  <1>2. Covers(nodes', nextUuid', Issued') /\ Covers(stored'.nodes, nextUuid', Issued')
    BY <1>1, QuietStep
  <1>3. ExecutorStartedOnce'
    BY DEF ExecutorInv, ExecutorStartedOnce
  <1>. QED
    BY <1>2, <1>3 DEF ExecutorInv

\* Requests: only createNode adds a node, with a UUID nothing was issued for.
LEMMA ApiExecutors ==
    ASSUME TypeOK, TypeOK', ExecutorInv, Api
    PROVE  ExecutorInv'
  <1>0. \A i \in Id : nodes[i] \in Node
    BY DEF TypeOK
  <1>1. ASSUME NEW c \in Names, createCluster(c) \/ restartCluster(c) \/ setConfig(c)
        PROVE  ExecutorInv'
    <2>1. Stores /\ UNCHANGED <<nodes, nextUuid, accepts, executors>>
      BY <1>1 DEF createCluster, restartCluster, setConfig, mesosVars, Stores, PersistInRequest
    <2>. QED
      BY <1>0, <2>1, SettersFollow, IssueNothing
  <1>2. ASSUME NEW c \in Names, removeCluster(c)
        PROVE  ExecutorInv'
    <2>1. \A i \in Id : Follows(nodes'[i], nodes[i])
      BY <1>0, <1>2, SettersFollow DEF removeCluster
    <2>. QED
      BY <1>2, <2>1, IssueNothing DEF removeCluster, mesosVars, Stores, PersistInRequest
  <1>3. ASSUME NEW j \in Id, removeNode(j)
        PROVE  ExecutorInv'
    <2>1. \A i \in Id : Follows(nodes'[i], nodes[i])
      BY <1>0, <1>3, SettersFollow DEF removeNode, TypeOK
    <2>. QED
      BY <1>3, <2>1, IssueNothing DEF removeNode, mesosVars, Stores, PersistInRequest
  <1>4. ASSUME NEW c \in Names, createNode(c)
        PROVE  ExecutorInv'
    <2>. DEFINE k == <<c, GetNextSimpleId(c)>>
                n == NewFrameworkRiakNode(clusters[c].Generation, nextUuid)
    <2>1. n.UUID = nextUuid
      BY DEF NewFrameworkRiakNode, NoNode
    <2>2. \A i \in Id : nodes'[i] = IF i = k THEN n ELSE nodes[i]
      BY <1>4 DEF createNode, TypeOK
    <2>3. nextUuid' = nextUuid + 1 /\ nextUuid \in Nat /\ nextUuid # 0
      BY <1>4 DEF createNode, TypeOK
    <2>4. \A i \in Id : nodes[i].UUID \in Int
      BY <1>0 DEF Node
    <2>. HIDE DEF k, n
    <2>5. UuidsIdentify(nodes', nextUuid')
      BY <2>1, <2>2, <2>3, <2>4 DEF ExecutorInv, Covers, UuidsIdentify
    <2>6. Issued' = Issued
      BY <1>4 DEF createNode, mesosVars, Issued
    <2>7. \A e \in Issued : e[1] \in Int
      BY IssuedType
    <2>8. GenerationsCover(nodes', nextUuid', Issued')
      BY <2>1, <2>2, <2>3, <2>6, <2>7 DEF ExecutorInv, Covers, GenerationsCover
    <2>9. Persist \/ stored' = stored
      BY <1>4 DEF createNode, PersistInRequest, PersistFails
    <2>10. Covers(nodes', nextUuid', Issued')
      BY <2>5, <2>8 DEF Covers
    <2>11. Covers(stored'.nodes, nextUuid', Issued')
      BY <2>3, <2>6, <2>9, <2>10, StoredCovers
    <2>12. ExecutorStartedOnce'
      BY <1>4 DEF createNode, mesosVars, ExecutorInv, ExecutorStartedOnce
    <2>. QED
      BY <2>10, <2>11, <2>12 DEF ExecutorInv
  <1>. QED
    BY <1>1, <1>2, <1>3, <1>4 DEF Api

\* ResourceOffers issues executors of a Generation that none was issued for.
LEMMA OfferExecutors ==
    ASSUME TypeOK, TypeOK', ExecutorInv,
           NEW slave, NEW vs, NEW launch \in SUBSET AllNodes(nodes), NEW reserve,
           ResourceOffers(slave, vs, launch, reserve)
    PROVE  ExecutorInv'
  <1>0. \A i \in Id : nodes[i] \in Node
    BY DEF TypeOK
  <1>1. launch \subseteq Id /\ \A i \in launch : nodes[i].place = "nodes"
    BY DEF AllNodes
  <1>2. \A i \in Id : Follows(nodes'[i], nodes[i])
    BY <1>0, SettersFollow, LaunchFollows DEF ResourceOffers
  <1>3. \A i \in launch : nodes'[i] = ApplyReservedOffer(nodes[i], slave)
    BY <1>1 DEF ResourceOffers
  <1>4. \A i \in launch : /\ Executor(nodes'[i])[1] = nodes[i].UUID
                          /\ Executor(nodes'[i])[2] = nodes[i].Generation + 1
                          /\ nodes'[i].UUID = nodes[i].UUID /\ nodes'[i].Generation = nodes[i].Generation + 1
    BY <1>0, <1>1, <1>3, LaunchFollows DEF Executor
  <1>. DEFINE a == [slave   |-> slave,
                    launch  |-> {[id |-> i, executor |-> Executor(nodes'[i])] : i \in launch},
                    reserve |-> {nodes[i].UUID : i \in reserve},
                    destroy |-> MaybeUnreserve(vs, launch),
                    vols    |-> vs]
  <1>5. /\ accepts' = accepts \union {a}
        /\ a.launch = {[id |-> i, executor |-> Executor(nodes'[i])] : i \in launch}
    BY DEF ResourceOffers
  <1>. HIDE DEF a
  <1>6. executors' = executors /\ nextUuid' = nextUuid
    BY DEF ResourceOffers
  <1>7. \A i \in Id : nodes[i].UUID \in Int /\ nodes[i].Generation \in Int /\ nodes'[i].Generation \in Int
    BY DEF TypeOK, Node
  <1>8. \A e \in Issued : e[1] \in Int /\ e[2] \in Int
    BY IssuedType
  <1>9. \A i \in launch : Executor(nodes'[i]) \notin Issued
    BY <1>1, <1>4, <1>7, <1>8 DEF ExecutorInv, Covers, GenerationsCover
  <1>10. \A i, j \in launch : Executor(nodes'[i]) = Executor(nodes'[j]) => i = j
    BY <1>1, <1>4 DEF ExecutorInv, Covers, UuidsIdentify
  <1>11. Issued' = Issued \union {Executor(nodes'[i]) : i \in launch}
    <2>1. {l.executor : l \in a.launch} = {Executor(nodes'[i]) : i \in launch}
      <3>1. ASSUME NEW l \in a.launch
            PROVE  l.executor \in {Executor(nodes'[i]) : i \in launch}
        BY <1>5
      <3>2. ASSUME NEW i \in launch
            PROVE  \E l \in a.launch : l.executor = Executor(nodes'[i])
        <4>1. [id |-> i, executor |-> Executor(nodes'[i])] \in a.launch
          BY <1>5
        <4>. QED
          BY <4>1
      <3>. QED
        BY <3>1, <3>2
    <2>2. UNION {b.launch : b \in accepts'} = a.launch \union UNION {b.launch : b \in accepts}
      BY <1>5
    <2>. QED
      BY <1>6, <2>1, <2>2 DEF Issued
  <1>12. UuidsIdentify(nodes', nextUuid')
    <2>1. nextUuid >= 1 /\ nextUuid \in Int
      BY DEF TypeOK
    <2>. QED
      BY <1>2, <1>6, <1>7, <2>1 DEF ExecutorInv, Covers, UuidsIdentify, Follows
  <1>13. GenerationsCover(nodes', nextUuid', Issued')
    <2>1. ASSUME NEW e \in Issued
          PROVE  /\ e[1] < nextUuid
                 /\ \A i \in Id : nodes'[i].place = "nodes" /\ nodes'[i].UUID = e[1]
                                     => e[2] <= nodes'[i].Generation
      BY <1>2, <1>7, <1>8 DEF ExecutorInv, Covers, GenerationsCover, Follows
    <2>2. ASSUME NEW k \in launch
          PROVE  /\ Executor(nodes'[k])[1] < nextUuid
                 /\ \A i \in Id : nodes'[i].place = "nodes" /\ nodes'[i].UUID = Executor(nodes'[k])[1]
                                     => Executor(nodes'[k])[2] <= nodes'[i].Generation
      <3>1. nodes[k].UUID < nextUuid /\ nodes[k].UUID # 0
        BY <1>1 DEF ExecutorInv, Covers, UuidsIdentify
      <3>2. ASSUME NEW i \in Id, nodes'[i].UUID = nodes'[k].UUID
            PROVE  i = k
        BY <1>1, <1>4, <1>12, <3>1, <3>2 DEF UuidsIdentify
      <3>. QED
        BY <1>1, <1>4, <1>7, <3>1, <3>2
    <2>. QED
      BY <1>6, <1>11, <2>1, <2>2 DEF GenerationsCover
  <1>14. ExecutorStartedOnce'
    <2>1. \A b \in accepts : \A m \in b.launch : m.executor \in Issued
      BY DEF Issued
    <2>2. \A m \in a.launch : m.executor \notin Issued
      BY <1>5, <1>9
    <2>3. \A l, m \in a.launch : l.executor = m.executor => l = m
      BY <1>5, <1>10
    <2>4. executors \subseteq Issued
      BY DEF Issued
    <2>. QED
      BY <1>5, <1>6, <2>1, <2>2, <2>3, <2>4 DEF ExecutorInv, ExecutorStartedOnce
  <1>15. Covers(nodes', nextUuid', Issued')
    BY <1>12, <1>13 DEF Covers
  <1>16. Persist \/ (stored' = stored /\ launch = {})
    BY DEF ResourceOffers
  <1>17. Persist \/ (stored' = stored /\ Issued' \subseteq Issued)
    BY <1>11, <1>16
  <1>18. nextUuid <= nextUuid'
    BY <1>6 DEF TypeOK
  <1>19. Covers(stored'.nodes, nextUuid', Issued')
    BY <1>15, <1>17, <1>18, StoredCovers
  <1>. QED
    BY <1>14, <1>15, <1>19 DEF ExecutorInv

\* The callbacks.
LEMMA CallbackExecutors ==
    ASSUME TypeOK, TypeOK', ExecutorInv, Callback
    PROVE  ExecutorInv'
  <1>0. \A i \in Id : nodes[i] \in Node
    BY DEF TypeOK
  <1>1. CASE Registered \/ Reregistered
    <2>1. Stores /\ UNCHANGED <<nodes, nextUuid, accepts, executors>>
      BY <1>1 DEF Registered, Reregistered, mesosVars, Stores
    <2>. QED
      BY <1>0, <2>1, SettersFollow, IssueNothing
  <1>2. ASSUME NEW i \in Id, NEW state \in TaskState, NEW slave \in Slaves \union {NoSlave},
               StatusUpdate(i, state, slave), accepts' = accepts, executors' = executors
        PROVE  ExecutorInv'
    <2>1. \A j \in Id : nodes'[j] \in {nodes[j], Handle(Marked(nodes[j], slave), state)}
      BY <1>2 DEF StatusUpdate, TypeOK
    <2>2. \A j \in Id : Follows(nodes'[j], nodes[j])
      BY <1>0, <2>1, SettersFollow, HandledFollows
    <2>. QED
      BY <1>2, <2>2, IssueNothing DEF StatusUpdate, Stores
  <1>3. ASSUME NEW i \in Id, AgentUpdate(i)
        PROVE  ExecutorInv'
    <2>1. tasks[i] \in Task /\ tasks[i].queue # <<>>
      BY <1>3 DEF AgentUpdate, TypeOK, MesosTypeOK
    <2>2. Head(tasks[i].queue) \in TaskState /\ tasks[i].slave \in Slaves \union {NoSlave}
      BY <2>1, ReportedType DEF Task
    <2>. QED
      BY <1>2, <1>3, <2>2 DEF AgentUpdate
  <1>4. ASSUME NEW i \in Id, MasterUpdate(i)
        PROVE  ExecutorInv'
    <2>1. answers[i] \in Seq(Answer) /\ answers[i] # <<>>
      BY <1>4 DEF MasterUpdate, TypeOK, MesosTypeOK
    <2>2. Head(answers[i]) \in Answer
      BY <2>1, HeadTailProperties
    <2>3. Head(answers[i]).state \in TaskState /\ Head(answers[i]).slave \in Slaves \union {NoSlave}
      BY <2>2 DEF Answer
    <2>. QED
      BY <1>2, <1>4, <2>3 DEF MasterUpdate
  <1>. QED
    BY <1>1, <1>3, <1>4, OfferExecutors DEF Callback

\* A tick of the loop.
LEMMA ReconcileExecutors ==
    ASSUME TypeOK, TypeOK', ExecutorInv, reconcile
    PROVE  ExecutorInv'
  <1>0. \A i \in Id : nodes[i] \in Node
    BY DEF TypeOK
  <1>1. ASSUME NEW ask, reconcileTasks(ask)
        PROVE  ExecutorInv'
    <2>1. \A i \in Id : Follows(nodes'[i], nodes[i])
      BY <1>0, <1>1, SettersFollow DEF reconcileTasks
    <2>. QED
      BY <1>1, <2>1, IssueNothing DEF reconcileTasks, Stores
  <1>2. ASSUME NEW first, NEW killed, killTasks(first, killed)
        PROVE  ExecutorInv'
    <2>1. \A i \in Id : Remaining[i] \in Node /\ Follows(Remaining[i], nodes[i])
      BY <1>0, SettersFollow, BuryType DEF Remaining
    <2>2. ASSUME NEW i \in Id, NEW g
          PROVE  Follows(Restart(Remaining[i], g), nodes[i])
      <3>1. /\ Restart(Remaining[i], g).UUID = Remaining[i].UUID
            /\ Restart(Remaining[i], g).place = Remaining[i].place
            /\ Restart(Remaining[i], g).Generation = Remaining[i].Generation
        BY <2>1 DEF Restart, Node
      <3>. QED
        BY <2>1, <3>1 DEF Follows
    <2>3. \A i \in Id : Follows(nodes'[i], nodes[i])
      BY <1>0, <1>2, <2>1, <2>2, SettersFollow DEF killTasks
    <2>. QED
      BY <1>2, <2>3, IssueNothing DEF killTasks, Stores
  <1>. QED
    BY <1>1, <1>2 DEF reconcile

\* A crash forgets launches on their way, but no Generation: it was stored
\* before the launch was sent. Nodes that ZooKeeper does not know were never
\* launched.
LEMMA CrashExecutors ==
    ASSUME TypeOK, TypeOK', ExecutorInv, Crash
    PROVE  ExecutorInv'
  <1>1. Reloaded
    BY DEF Crash, Failover, CrashInKillTasks, CrashInStatusUpdate
  <1>2. /\ nodes' = stored.nodes /\ stored' = stored
        /\ nextUuid' = nextUuid /\ accepts' = {} /\ executors' = executors
    BY <1>1 DEF Reloaded
  <1>3. Issued' \subseteq Issued
    BY <1>2 DEF Issued
  <1>4. nextUuid \in Int /\ 1 <= nextUuid /\ stored.nodes \in [Id -> Node]
    BY DEF TypeOK, State
  <1>5. \A i \in Id : Follows(stored.nodes[i], stored.nodes[i])
    BY <1>4, SettersFollow
  <1>6. Covers(stored.nodes, nextUuid, Issued')
    BY <1>3, <1>4, <1>5, IssuedType, FollowersCover DEF ExecutorInv
  <1>7. ExecutorStartedOnce'
    BY <1>2 DEF ExecutorStartedOnce
  <1>. QED
    BY <1>2, <1>6, <1>7 DEF ExecutorInv

\* The master launches what was sent, or refuses it.
LEMMA EnvironmentExecutors ==
    ASSUME TypeOK, TypeOK', ExecutorInv, Environment
    PROVE  ExecutorInv'
  <1>0. /\ \A i \in Id : Follows(nodes'[i], nodes[i])
        /\ nextUuid' = nextUuid
        /\ Stores
    BY SettersFollow DEF Environment, schedulerVars, TypeOK, Stores
  <1>1. ASSUME NEW a \in accepts, AcceptOffer(a)
        PROVE  ExecutorInv'
    <2>. DEFINE valid == {l \in a.launch : Valid(a, l)}
    <2>1. accepts' = accepts \ {a} /\ executors' = executors \union {l.executor : l \in valid}
      BY <1>1 DEF AcceptOffer
    <2>2. valid \subseteq a.launch
      OBVIOUS
    <2>. HIDE DEF valid
    <2>3. Issued' \subseteq Issued
      BY <2>1, <2>2 DEF Issued
    <2>4. ExecutorStartedOnce'
      BY <2>1, <2>2 DEF ExecutorInv, ExecutorStartedOnce
    <2>. QED
      BY <1>0, <2>3, <2>4, QuietStep DEF ExecutorInv
  <1>2. ASSUME NEW a \in accepts, OfferRescinded(a)
        PROVE  ExecutorInv'
    <2>1. accepts' = accepts \ {a} /\ executors' = executors
      BY <1>2 DEF OfferRescinded
    <2>2. Issued' \subseteq Issued
      BY <2>1 DEF Issued
    <2>3. ExecutorStartedOnce'
      BY <2>1 DEF ExecutorInv, ExecutorStartedOnce
    <2>. QED
      BY <1>0, <2>2, <2>3, QuietStep DEF ExecutorInv
  <1>3. ASSUME NEW i \in Id,
               \/ TaskStarting(i) \/ TaskRunning(i) \/ TaskFails(i)
               \/ DeliverMessage(i) \/ LoseMessage(i) \/ LoseAnswer(i)
        PROVE  ExecutorInv'
    <2>1. accepts' = accepts /\ executors' = executors
      BY <1>3 DEF TaskStarting, TaskRunning, TaskFails, DeliverMessage, LoseMessage, LoseAnswer, Becomes
    <2>. QED
      BY <1>0, <2>1, IssueNothing
  <1>. QED
    BY <1>1, <1>2, <1>3 DEF Environment

-----------------------------------------------------------------------------
(* The theorem *)

\* No executor gets two tasks, whatever the number of nodes, launches, offers
\* in flight and crashes.
THEOREM ExecutorsAreFresh == Spec => []ExecutorStartedOnce
  <1>1. Init => ExecutorInv
    <2>. SUFFICES ASSUME Init PROVE ExecutorInv
      OBVIOUS
    <2>1. Issued = {} /\ nextUuid = 1 /\ accepts = {}
      BY DEF Init, MesosInit, Issued
    <2>2. \A i \in Id : nodes[i].UUID = 0 /\ nodes[i].place = "absent"
      BY DEF Init, NoNode
    <2>3. \A i \in Id : stored.nodes[i].UUID = 0 /\ stored.nodes[i].place = "absent"
      BY DEF Init, Serialize, Serialized, NoNode
    <2>. QED
      BY <2>1, <2>2, <2>3 DEF ExecutorInv, Covers, UuidsIdentify, GenerationsCover, ExecutorStartedOnce
  <1>2. TypeOK /\ TypeOK' /\ ExecutorInv /\ [Next]_vars => ExecutorInv'
    <2>. SUFFICES ASSUME TypeOK, TypeOK', ExecutorInv, [Next]_vars
                  PROVE  ExecutorInv'
      OBVIOUS
    <2>1. CASE Next
      BY <2>1, ApiExecutors, CallbackExecutors, ReconcileExecutors, CrashExecutors,
         EnvironmentExecutors DEF Next
    <2>2. CASE UNCHANGED vars
      BY <2>2, SettersFollow, IssueNothing DEF vars, schedulerVars, mesosVars, TypeOK, Stores
    <2>. QED
      BY <2>1, <2>2
  <1>3. ExecutorInv => ExecutorStartedOnce
    BY DEF ExecutorInv
  <1>. QED
    BY <1>1, <1>2, <1>3, TypeCorrect, PTL DEF Spec

-----------------------------------------------------------------------------
(* Volumes *)

\* An answer destroys volumes of its offer only, and none if it launches a task
\* (OfferHelper.MaybeUnreserve returns early).
AnswersFit ==
    \A a \in accepts : a.destroy \subseteq a.vols /\ (a.launch = {} \/ a.destroy = {})

\* The volumes of an offer exist and are in no other offer.
OffersExclusive ==
    \A a \in accepts :
        /\ \A u \in a.vols : [uuid |-> u, slave |-> a.slave] \in vols
        /\ \A b \in accepts : a # b /\ a.slave = b.slave => a.vols \intersect b.vols = {}

\* The volume of a live task is in no offer.
OffersUnused ==
    \A a \in accepts, i \in Id :
        Live(tasks[i]) /\ tasks[i].slave = a.slave => tasks[i].executor[1] \notin a.vols

\* Without reservations there are no volumes.
NoVolumes == vols = {} /\ \A a \in accepts : a.reserve = {}

VolumeInv ==
    /\ AnswersFit
    /\ CompatibilityMode => NoVolumes
    /\ ~CompatibilityMode => OffersExclusive /\ OffersUnused /\ RunningTaskKeepsVolume

-----------------------------------------------------------------------------
(* Steps that answer no offer *)

\* u is what became of task t: if it lives it did before, where it was.
Survives(u, t) == Live(u) => Live(t) /\ u.executor = t.executor /\ u.slave = t.slave

\* Nothing but a launch makes a task live.
LEMMA TasksSurvive ==
    ASSUME NEW t \in Task
    PROVE  /\ Survives(t, t)
           /\ Survives(Acknowledged(t), t)
           /\ \A m : Survives([t EXCEPT !.message = m], t)
           /\ Live(t) => \A phase, state : Survives(Moved(t, phase, state), t)
  <1>. USE DEF Survives, Live, Task
  <1>1. Survives(t, t)
    OBVIOUS
  <1>2. Survives(Acknowledged(t), t)
    BY DEF Acknowledged, NoTask
  <1>3. \A m : Survives([t EXCEPT !.message = m], t)
    OBVIOUS
  <1>4. Live(t) => \A phase, state : Survives(Moved(t, phase, state), t)
    BY DEF Moved
  <1>. QED
    BY <1>1, <1>2, <1>3, <1>4

\* A step that makes no task live, adds no offer and leaves the volumes.
LEMMA QuietVolumes ==
    ASSUME VolumeInv, vols' = vols, accepts' \subseteq accepts,
           \A i \in Id : Survives(tasks'[i], tasks[i])
    PROVE  VolumeInv'
  <1>1. AnswersFit'
    BY DEF VolumeInv, AnswersFit
  <1>2. CompatibilityMode => NoVolumes'
    BY DEF VolumeInv, NoVolumes
  <1>3. ~CompatibilityMode => OffersExclusive'
    BY DEF VolumeInv, OffersExclusive
  <1>4. ~CompatibilityMode => OffersUnused'
    BY DEF VolumeInv, OffersUnused, Survives
  <1>5. RunningTaskKeepsVolume'
    BY DEF VolumeInv, RunningTaskKeepsVolume, Survives
  <1>. QED
    BY <1>1, <1>2, <1>3, <1>4, <1>5 DEF VolumeInv

\* The same when tasks are untouched.
LEMMA StillVolumes ==
    ASSUME TypeOK, VolumeInv, vols' = vols, accepts' \subseteq accepts, tasks' = tasks
    PROVE  VolumeInv'
  BY QuietVolumes, TasksSurvive DEF TypeOK, MesosTypeOK

\* Messages make no task live.
LEMMA SendSurvives ==
    ASSUME TypeOK, NEW stop, NEW killed, Send(stop, killed)
    PROVE  \A i \in Id : Survives(tasks'[i], tasks[i])
  BY TasksSurvive DEF Send, TypeOK, MesosTypeOK

-----------------------------------------------------------------------------
(* Offers *)

\* ResourceOffers for one offer of one agent.
LEMMA OfferVolumes ==
    ASSUME TypeOK, VolumeInv, NEW slave, NEW vs \in SUBSET Free(slave), NEW launch, NEW reserve,
           ResourceOffers(slave, vs, launch, reserve)
    PROVE  VolumeInv'
  <1>. DEFINE a == [slave   |-> slave,
                    launch  |-> {[id |-> i, executor |-> Executor(nodes'[i])] : i \in launch},
                    reserve |-> {nodes[i].UUID : i \in reserve},
                    destroy |-> MaybeUnreserve(vs, launch),
                    vols    |-> vs]
  <1>1. accepts' = accepts \union {a} /\ vols' = vols /\ tasks' = tasks
    BY DEF ResourceOffers
  <1>2. a.slave = slave /\ a.vols = vs /\ a.destroy \subseteq vs
    BY DEF MaybeUnreserve
  <1>3. a.launch = {} \/ a.destroy = {}
    BY DEF MaybeUnreserve
  <1>4. CompatibilityMode => a.reserve = {}
    BY DEF ResourceOffers, Reservable
  <1>. HIDE DEF a
  <1>5. AnswersFit'
    BY <1>1, <1>2, <1>3 DEF VolumeInv, AnswersFit
  <1>6. CompatibilityMode => NoVolumes'
    BY <1>1, <1>4 DEF VolumeInv, NoVolumes
  <1>7. \A u \in vs : /\ [uuid |-> u, slave |-> slave] \in vols
                      /\ \A i \in Id : ~(Live(tasks[i]) /\ tasks[i].executor[1] = u /\ tasks[i].slave = slave)
                      /\ \A b \in accepts : ~(b.slave = slave /\ u \in b.vols)
    <2>1. ASSUME NEW u \in vs
          PROVE  \E w \in vols : /\ w.uuid = u /\ w.slave = slave
                                 /\ \A i \in Id : ~(Live(tasks[i]) /\ tasks[i].executor[1] = w.uuid /\ tasks[i].slave = slave)
                                 /\ \A b \in accepts : ~(b.slave = slave /\ w.uuid \in b.vols)
      BY DEF Free
    <2>2. \A w \in vols : w = [uuid |-> w.uuid, slave |-> w.slave]
      BY DEF TypeOK, MesosTypeOK, Volume
    <2>. QED
      BY <2>1, <2>2
  <1>8. ~CompatibilityMode => OffersExclusive'
    BY <1>1, <1>2, <1>7 DEF VolumeInv, OffersExclusive
  <1>9. ~CompatibilityMode => OffersUnused'
    BY <1>1, <1>2, <1>7 DEF VolumeInv, OffersUnused
  <1>10. RunningTaskKeepsVolume'
    BY <1>1 DEF VolumeInv, RunningTaskKeepsVolume
  <1>. QED
    BY <1>5, <1>6, <1>8, <1>9, <1>10 DEF VolumeInv

\* The master applies the operations of an answer, in their order.
LEMMA AcceptVolumes ==
    ASSUME TypeOK, VolumeInv, NEW a \in accepts, AcceptOffer(a)
    PROVE  VolumeInv'
  <1>. DEFINE valid == {l \in a.launch : Valid(a, l)}
  <1>1. accepts' = accepts \ {a}
    BY DEF AcceptOffer
  <1>2. \A i \in Id : \/ tasks'[i] = tasks[i]
                      \/ \E l \in valid : tasks'[i] = Staged(a, l)
    <2>1. ASSUME NEW i \in Id, \E l \in valid : l.id = i
          PROVE  (CHOOSE l \in valid : l.id = i) \in valid
      BY <2>1
    <2>2. tasks' = [i \in Id |-> IF \E l \in valid : l.id = i
                                 THEN Staged(a, CHOOSE l \in valid : l.id = i) ELSE tasks[i]]
      BY DEF AcceptOffer
    <2>. HIDE DEF valid
    <2>. QED
      BY <2>1, <2>2
  <1>3. \A l \in valid : l \in a.launch /\ (CompatibilityMode \/ l.executor[1] \in a.vols)
    BY DEF Valid
  <1>4. vols' = (vols \ [uuid : a.destroy, slave : {a.slave}]) \union [uuid : a.reserve, slave : {a.slave}]
    BY DEF AcceptOffer
  <1>5. \A u, s : [uuid |-> u, slave |-> s] \in vols /\ ~(u \in a.destroy /\ s = a.slave)
                     => [uuid |-> u, slave |-> s] \in vols'
    BY <1>4
  <1>6. \A l : Staged(a, l).executor = l.executor /\ Staged(a, l).slave = a.slave
    BY DEF Staged
  <1>. HIDE DEF valid
  <1>7. AnswersFit'
    BY <1>1 DEF VolumeInv, AnswersFit
  <1>8. CompatibilityMode => NoVolumes'
    BY <1>1, <1>4 DEF VolumeInv, NoVolumes
  <1>9. ASSUME ~CompatibilityMode
        PROVE  OffersExclusive' /\ OffersUnused' /\ RunningTaskKeepsVolume'
    <2>1. OffersExclusive /\ OffersUnused /\ RunningTaskKeepsVolume /\ AnswersFit
      BY <1>9 DEF VolumeInv
    <2>2. \A b \in accepts : b # a /\ b.slave = a.slave => \A u \in b.vols : u \notin a.vols
      BY <2>1 DEF OffersExclusive
    <2>3. a.destroy \subseteq a.vols
      BY <2>1 DEF AnswersFit
    <2>4. OffersExclusive'
      BY <1>1, <1>5, <2>1, <2>2, <2>3 DEF OffersExclusive
    <2>5. ASSUME NEW i \in Id, NEW l \in valid, tasks'[i] = Staged(a, l)
          PROVE  /\ tasks'[i].slave = a.slave
                 /\ tasks'[i].executor[1] \in a.vols
                 /\ a.destroy = {}
      BY <1>3, <1>6, <1>9, <2>1, <2>5 DEF AnswersFit
    <2>6. OffersUnused'
      BY <1>1, <1>2, <2>1, <2>2, <2>5 DEF OffersUnused
    <2>7. ASSUME NEW i \in Id, Live(tasks'[i])
          PROVE  [uuid |-> tasks'[i].executor[1], slave |-> tasks'[i].slave] \in vols'
      <3>1. CASE tasks'[i] = tasks[i]
        <4>1. [uuid |-> tasks[i].executor[1], slave |-> tasks[i].slave] \in vols
          BY <1>9, <2>1, <2>7, <3>1 DEF RunningTaskKeepsVolume
        <4>2. tasks[i].slave = a.slave => tasks[i].executor[1] \notin a.vols
          BY <2>1, <2>7, <3>1 DEF OffersUnused
        <4>. QED
          BY <1>5, <2>3, <3>1, <4>1, <4>2
      <3>2. CASE \E l \in valid : tasks'[i] = Staged(a, l)
        <4>1. tasks'[i].slave = a.slave /\ tasks'[i].executor[1] \in a.vols /\ a.destroy = {}
          BY <2>5, <3>2
        <4>2. [uuid |-> tasks'[i].executor[1], slave |-> a.slave] \in vols
          BY <2>1, <4>1 DEF OffersExclusive
        <4>. QED
          BY <1>5, <4>1, <4>2
      <3>. QED
        BY <1>2, <3>1, <3>2
    <2>. QED
      BY <2>4, <2>6, <2>7 DEF RunningTaskKeepsVolume
  <1>10. CompatibilityMode => RunningTaskKeepsVolume'
    BY DEF RunningTaskKeepsVolume
  <1>. QED
    BY <1>7, <1>8, <1>9, <1>10 DEF VolumeInv

-----------------------------------------------------------------------------
(* All steps *)

\* Every step keeps the invariant, and only ResourceOffers answers an offer.
LEMMA StepVolumes ==
    ASSUME TypeOK, VolumeInv, [Next]_vars
    PROVE  VolumeInv'
  <1>0. \A i \in Id : tasks[i] \in Task
    BY DEF TypeOK, MesosTypeOK
  <1>1. CASE Api
    BY <1>1, StillVolumes DEF Api, createCluster, restartCluster, removeCluster, createNode, removeNode,
                              setConfig, mesosVars
  <1>2. CASE Registered \/ Reregistered
    BY <1>2, StillVolumes DEF Registered, Reregistered, mesosVars
  <1>3. ASSUME NEW i \in Id, AgentUpdate(i)
        PROVE  VolumeInv'
    <2>1. \A j \in Id : tasks'[j] \in {tasks[j], Acknowledged(tasks[j])}
      BY <1>3 DEF AgentUpdate, TypeOK, MesosTypeOK
    <2>2. \A j \in Id : Survives(tasks'[j], tasks[j])
      BY <1>0, <2>1, TasksSurvive
    <2>. QED
      BY <1>3, <2>2, QuietVolumes DEF AgentUpdate
  <1>4. ASSUME NEW i \in Id, MasterUpdate(i)
        PROVE  VolumeInv'
    BY <1>4, StillVolumes DEF MasterUpdate
  <1>5. CASE reconcile
    <2>1. ASSUME NEW ask, reconcileTasks(ask)
          PROVE  VolumeInv'
      BY <2>1, StillVolumes DEF reconcileTasks
    <2>2. ASSUME NEW first, NEW killed, killTasks(first, killed)
          PROVE  VolumeInv'
      BY <2>2, SendSurvives, QuietVolumes DEF killTasks
    <2>. QED
      BY <1>5, <2>1, <2>2 DEF reconcile
  <1>6. CASE Crash
    <2>1. Reloaded
      BY <1>6 DEF Crash, Failover, CrashInKillTasks, CrashInStatusUpdate
    <2>2. tasks' = tasks \/ \E stop, killed : Send(stop, killed)
      BY <1>6 DEF Crash, Failover, CrashInKillTasks, CrashInStatusUpdate
    <2>3. \A i \in Id : Survives(tasks'[i], tasks[i])
      BY <1>0, <2>2, TasksSurvive, SendSurvives
    <2>. QED
      BY <2>1, <2>3, QuietVolumes DEF Reloaded
  <1>7. ASSUME NEW i \in Id, TaskStarting(i) \/ TaskRunning(i) \/ TaskFails(i) \/ DeliverMessage(i)
        PROVE  VolumeInv'
    <2>1. Live(tasks[i])
      BY <1>7 DEF TaskStarting, TaskRunning, TaskFails, DeliverMessage, Live
    <2>2. PICK phase, state : Becomes(i, phase, state)
      BY <1>7 DEF TaskStarting, TaskRunning, TaskFails, DeliverMessage
    <2>3. \A j \in Id : Survives(tasks'[j], tasks[j])
      BY <1>0, <2>1, <2>2, TasksSurvive DEF Becomes, TypeOK, MesosTypeOK
    <2>. QED
      BY <2>2, <2>3, QuietVolumes DEF Becomes
  <1>8. ASSUME NEW i \in Id, LoseMessage(i)
        PROVE  VolumeInv'
    <2>1. \A j \in Id : Survives(tasks'[j], tasks[j])
      BY <1>0, <1>8, TasksSurvive DEF LoseMessage, TypeOK, MesosTypeOK
    <2>. QED
      BY <1>8, <2>1, QuietVolumes DEF LoseMessage
  <1>9. ASSUME NEW i \in Id, LoseAnswer(i)
        PROVE  VolumeInv'
    BY <1>9, StillVolumes DEF LoseAnswer
  <1>10. ASSUME NEW a \in accepts, OfferRescinded(a)
         PROVE  VolumeInv'
    BY <1>10, StillVolumes DEF OfferRescinded
  <1>11. CASE UNCHANGED vars
    BY <1>11, StillVolumes DEF vars, mesosVars
  <1>12. CASE Callback
    BY <1>2, <1>3, <1>4, <1>12, OfferVolumes DEF Callback
  <1>13. CASE Environment
    BY <1>7, <1>8, <1>9, <1>10, <1>13, AcceptVolumes DEF Environment
  <1>. QED
    BY <1>1, <1>5, <1>6, <1>11, <1>12, <1>13 DEF Next

\* A step that answers an offer is ResourceOffers.
LEMMA OnlyOffersAnswer ==
    ASSUME Next
    PROVE  \/ accepts' \subseteq accepts
           \/ \E slave \in Slaves : \E vs \in SUBSET Free(slave) :
                 \E launch, reserve : ResourceOffers(slave, vs, launch, reserve)
  <1>1. CASE Api
    BY <1>1 DEF Api, createCluster, restartCluster, removeCluster, createNode, removeNode, setConfig,
                mesosVars
  <1>2. CASE Callback
    BY <1>2 DEF Callback, Registered, Reregistered, AgentUpdate, MasterUpdate, mesosVars
  <1>3. CASE reconcile
    BY <1>3 DEF reconcile, reconcileTasks, killTasks
  <1>4. CASE Crash
    BY <1>4 DEF Crash, Failover, CrashInKillTasks, CrashInStatusUpdate, Reloaded
  <1>5. CASE Environment
    BY <1>5 DEF Environment, AcceptOffer, OfferRescinded, TaskStarting, TaskRunning, TaskFails,
                DeliverMessage, LoseMessage, LoseAnswer, Becomes
  <1>. QED
    BY <1>1, <1>2, <1>3, <1>4, <1>5 DEF Next

-----------------------------------------------------------------------------
(* The theorems *)

\* The inductive invariant of offers and volumes.
THEOREM VolumesInvariant == Spec => []VolumeInv
  <1>1. ASSUME Init
        PROVE  VolumeInv
    <2>1. accepts = {} /\ vols = {} /\ \A i \in Id : ~Live(tasks[i])
      BY <1>1 DEF Init, MesosInit, NoTask, Live
    <2>. QED
      BY <2>1 DEF VolumeInv, AnswersFit, NoVolumes, OffersExclusive, OffersUnused, RunningTaskKeepsVolume
  <1>2. TypeOK /\ VolumeInv /\ [Next]_vars => VolumeInv'
    BY StepVolumes
  <1>. QED
    BY <1>1, <1>2, TypeCorrect, PTL DEF Spec

\* No volume is destroyed under a task that runs on it.
THEOREM TasksKeepVolumes == Spec => []RunningTaskKeepsVolume
  <1>1. VolumeInv => RunningTaskKeepsVolume
    BY DEF VolumeInv, RunningTaskKeepsVolume
  <1>. QED
    BY <1>1, VolumesInvariant, PTL

\* No volume that a node is waiting for is destroyed, and none at all while the
\* state of some node is not known.
THEOREM WaitingNodesKeepVolumes == Spec => KeepsVolumesInNeed
  <1>. DEFINE A == \A a \in accepts' \ accepts : a.destroy # {} =>
                      \A i \in AllNodes(nodes) :
                         /\ ~NeedsToBeReconciled(nodes[i])
                         /\ nodes[i].UUID \in a.destroy /\ CanBeScheduled(nodes[i]) => nodes[i].CurrentState = Unknown
  <1>1. ASSUME TypeOK, VolumeInv, NEW slave, NEW vs \in SUBSET Free(slave), NEW launch, NEW reserve,
               ResourceOffers(slave, vs, launch, reserve)
        PROVE  A
    <2>1. ASSUME NEW a \in accepts' \ accepts
          PROVE  a.destroy = MaybeUnreserve(vs, launch)
      BY <1>1 DEF ResourceOffers
    <2>2. ASSUME MaybeUnreserve(vs, launch) # {}, NEW i \in AllNodes(nodes)
          PROVE  /\ ~NeedsToBeReconciled(nodes[i])
                 /\ nodes[i].UUID \in MaybeUnreserve(vs, launch) /\ CanBeScheduled(nodes[i])
                       => nodes[i].CurrentState = Unknown
      <3>1. ~NeedsReconciliation(vs, launch) /\ launch = {} /\ MaybeUnreserve(vs, launch) = vs
        BY <2>2 DEF MaybeUnreserve
      <3>2. ~CompatibilityMode
        BY <1>1, <2>2, <3>1 DEF VolumeInv, NoVolumes, Free
      <3>3. ~NeedsToBeReconciled(nodes[i]) /\ Matching(vs) = {}
        BY <3>1, <3>2 DEF NeedsReconciliation
      <3>4. ASSUME nodes[i].UUID \in vs, CanBeScheduled(nodes[i])
            PROVE  ~HasRequestedReservation(nodes[i])
        BY <3>3, <3>4 DEF Matching, Schedulable
      <3>5. nodes[i] \in Node
        BY <1>1 DEF AllNodes, TypeOK
      <3>6. ~HasRequestedReservation(nodes[i]) => nodes[i].CurrentState = Unknown
        BY <3>5 DEF HasRequestedReservation, Node, Unknown, Reserved, Starting, Started, Shutdown, Failed
      <3>. QED
        BY <3>1, <3>3, <3>4, <3>6
    <2>. QED
      BY <2>1, <2>2
  <1>2. TypeOK /\ VolumeInv /\ [Next]_vars => [A]_vars
    <2>. SUFFICES ASSUME TypeOK, VolumeInv, Next
                  PROVE  A
      OBVIOUS
    <2>1. CASE accepts' \subseteq accepts
      BY <2>1
    <2>. HIDE DEF A
    <2>. QED
      BY <1>1, <2>1, OnlyOffersAnswer
  <1>. QED
    BY <1>2, TypeCorrect, VolumesInvariant, PTL DEF Spec, KeepsVolumesInNeed
=============================================================================
