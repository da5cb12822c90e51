--------------------------- MODULE SchedulerClaims ---------------------------
(***************************************************************************)
(* What README.md and comments of the repository say of the scheduler and  *)
(* what its code does not do: each property here is violated, and its run  *)
(* shows how. The claim is quoted above each.                              *)
(***************************************************************************)
EXTENDS Scheduler

\* In addition to FairSpec: an offer large enough for every node comes again and
\* again, and offers are accepted.
OfferFairSpec ==
    /\ FairSpec
    /\ SF_vars(\E slave \in Slaves : ResourceOffers(slave, {}, Schedulable, {}))
    /\ WF_vars(\E a \in accepts : AcceptOffer(a) /\ UNCHANGED schedulerVars)

-----------------------------------------------------------------------------
\* README.md:86-89: after a status such as TASK_KILLED, "If the failure was
\* unintentional, attempt to relaunch the task". A node that is to be Started
\* and has stopped does not stay Shutdown. (CanBeScheduled refuses it.)
StoppedNodeIsRelaunched ==
    \A i \in Id :
        nodes[i].place = "nodes" /\ nodes[i].DestinationState = Started /\ nodes[i].CurrentState = Shutdown
            ~> nodes[i].place # "nodes" \/ nodes[i].CurrentState # Shutdown

\* README.md:87-88: "If the failure was intentional" ("removal of the node"),
\* "remove the node from the Riak cluster". A node that is to be shut down does
\* not stay there. (ExecutorID() is of the last launch, which may have failed.)
EveryRemovalEnds == \A i \in Id : RemovalEnds(i)

\* scheduler/cluster.go:237: "Status update is for a node that's already been
\* killed, ignoring." A node in the graveyard has no live task, or at least a
\* message that stops it is on its way.
BuriedNodeIsKilled ==
    \A i \in Id : nodes[i].place = "graveyard" => ~Live(tasks[i]) \/ tasks[i].message # "none"

\* common/offer.go:90: "An offer has persisted volumes, but no nodes can use it.
\* Destroying volumes". A volume is destroyed only when its node is to be shut
\* down, has given its reservation up, or is gone.
UnusedVolumesDestroyed ==
    [][\A a \in accepts' \ accepts : \A i \in AllNodes(nodes) :
          nodes[i].UUID \in a.destroy => nodes[i].DestinationState = Shutdown \/ nodes[i].CurrentState = Unknown]_vars

\* README.md:29: "The scheduler will attempt to spread Riak nodes across as many
\* different mesos agents as possible". No agent gets two nodes of a cluster
\* while there are as many agents as nodes. (ApplyOffer does not look.)
NodesAreSpread ==
    \A i, j \in AllNodes(nodes) :
        /\ i # j /\ i[1] = j[1]
        /\ HasRequestedReservation(nodes[i]) /\ HasRequestedReservation(nodes[j])
        /\ Cardinality(NodesOf(nodes, i[1])) <= Cardinality(Slaves)
        => nodes[i].Hostname # nodes[j].Hostname

\* README.md:87-88: after a removal, "remove the node from the Riak cluster". A
\* buried node is no longer a member of the ring while others are. (The call
\* of Leave after TASK_FAILED, TASK_LOST and TASK_ERROR is commented out.)
BuriedNodeLeftRing ==
    \A i \in ring : nodes[i].place = "graveyard" => \A j \in ring \ {i} : nodes[j].place # "nodes"

\* README.md:87-88: "Determine whether or not the task failure was intentional
\* (such as a node restart, or removal of the node)". A node whose removal was
\* requested stays one that is to be removed. (Start() and Run() set its
\* DestinationState to Started, and Restart() to Restarting.)
RemovalIsRemembered ==
    [][\A i \in Id :
          /\ nodes[i].place = "nodes" /\ nodes[i].DestinationState = Shutdown
          /\ nodes'[i].place = "nodes" /\ nodes'[i].UUID = nodes[i].UUID
          => nodes'[i].DestinationState = Shutdown]_vars
=============================================================================
