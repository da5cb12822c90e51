-------------------------- MODULE FrameworkRiakNode --------------------------
(***************************************************************************)
(* The scheduler's record of one Riak node (scheduler/node.go): the state  *)
(* it believes the node is in (CurrentState), the state it wants the node  *)
(* to be in (DestinationState), and the predicates and setters that every  *)
(* other part of the scheduler uses to decide what to do with it.          *)
(*                                                                         *)
(* Left out of the record: resource sizes, role, principal and task data   *)
(* (ports, URIs), which no decision below depends on.                      *)
(***************************************************************************)
EXTENDS Integers

CONSTANTS
    Slaves,         \* the Mesos agents; an agent id also stands for its host
    NoSlave,        \* a nil or empty SlaveID, an empty Hostname
    MaxUuid,        \* bound: nodes ever created
    MaxGeneration,  \* bound: launches of one node
    MaxRestarts     \* bound: rolling restarts of one cluster

ASSUME NodeAssumption ==
    /\ NoSlave \notin Slaves
    /\ MaxUuid \in Nat
    /\ MaxGeneration \in Nat
    /\ MaxRestarts \in Nat

(***************************************************************************)
(* process_state.ProcessState: the numbers matter, since the code compares *)
(* them ( <= Reserved, >= Reserved ).                                      *)
(***************************************************************************)
Unknown    == 0
Reserved   == 1
Starting   == 2
Started    == 3
Shutdown   == 5
Failed     == 6
Restarting == 7

Node == [place             : {"absent", "nodes", "graveyard"},
         DestinationState  : {Started, Shutdown, Restarting},
         CurrentState      : {Unknown, Reserved, Starting, Started, Shutdown, Failed},
         reconciled        : BOOLEAN,
         asked             : BOOLEAN,  \* lastAskedToReconcile is not the zero time
         TaskStatus        : BOOLEAN,  \* TaskStatus is not nil
         Generation        : 0..MaxGeneration,
         RestartGeneration : 0..MaxRestarts,
         SlaveID           : Slaves \union {NoSlave},
         Hostname          : Slaves \union {NoSlave},
         UUID              : 0..MaxUuid]

\* A slot of the node map that holds no node.
NoNode == [place             |-> "absent",
           DestinationState  |-> Started,
           CurrentState      |-> Unknown,
           reconciled        |-> FALSE,
           asked             |-> FALSE,
           TaskStatus        |-> FALSE,
           Generation        |-> 0,
           RestartGeneration |-> 0,
           SlaveID           |-> NoSlave,
           Hostname          |-> NoSlave,
           UUID              |-> 0]

NewFrameworkRiakNode(restartGeneration, uuid) ==
    [NoNode EXCEPT !.place = "nodes",
                   !.RestartGeneration = restartGeneration,
                   !.UUID = uuid]

\* Cluster.RemoveNode: from Nodes to Graveyard. Nothing reads the state of a
\* node in the graveyard, only its presence, so the rest is forgotten.
Bury(n) == [NoNode EXCEPT !.place = "graveyard", !.UUID = n.UUID]

-----------------------------------------------------------------------------
(* Getters *)

\* Mutant of HasTaskStatus: without the TASK_ERROR made up for a silent node.
HasTaskStatusIfHeard(n) == n.TaskStatus

\* GetTaskStatus() != nil: there is something to ask the master about. A node
\* that was launched and never heard of is asked about as TASK_ERROR.
HasTaskStatus(n) == n.TaskStatus \/ n.CurrentState > Reserved

HasRequestedReservation(n) == n.CurrentState >= Reserved

NeedsToBeReconciled(n) == ~n.reconciled /\ n.CurrentState \notin {Unknown, Reserved}

CanBeScheduled(n) ==
    /\ ~NeedsToBeReconciled(n)
    /\ \/ n.DestinationState = Restarting
          /\ n.CurrentState \in {Unknown, Reserved, Shutdown, Failed}
       \/ n.DestinationState = Started
          /\ n.CurrentState \in {Unknown, Reserved, Failed}

\* Mutant of CanBeKilled: only a node that is still starting.
CanBeKilledIfStarting(n) == n.DestinationState = Shutdown /\ n.CurrentState = Starting

CanBeKilled(n) == n.DestinationState = Shutdown /\ n.CurrentState \in {Starting, Started}

CanBeRemoved(n) == n.DestinationState = Shutdown /\ n.CurrentState # Started

CanJoinCluster(n) == n.CurrentState = Starting /\ n.DestinationState = Started

CanBeJoined(n) == n.CurrentState = Started /\ n.DestinationState = Started

CanBeLeft(n) == CanBeJoined(n)

HasRestarted(n, generation) ==
    /\ n.DestinationState = Started
    /\ n.CurrentState = Started
    /\ n.RestartGeneration >= generation

IsRestarting(n, generation) ==
    /\ n.DestinationState \in {Started, Restarting}
    /\ n.CurrentState # Started
    /\ n.RestartGeneration >= generation

-----------------------------------------------------------------------------
(* Setters *)

\* Mutant of Restart: counts the generation once more.
RestartNext(n, generation) ==
    [n EXCEPT !.RestartGeneration = generation + 1, !.DestinationState = Restarting]

Restart(n, generation) ==
    [n EXCEPT !.RestartGeneration = generation, !.DestinationState = Restarting]

Unreserve(n) == [n EXCEPT !.CurrentState = Unknown, !.SlaveID = NoSlave]

KillNext(n) == [n EXCEPT !.DestinationState = Shutdown]

\* Stage() is Start().
Start(n) == [n EXCEPT !.CurrentState = Starting, !.DestinationState = Started]

Run(n) == [n EXCEPT !.CurrentState = Started, !.DestinationState = Started]

\* Finish() and Kill().
Finish(n) == [n EXCEPT !.CurrentState = Shutdown]

\* Fail(), Lost() and Error().
Error(n) == [n EXCEPT !.CurrentState = Failed]

\* The node is to run on the agent of the offer.
Placed(n, slave) == [n EXCEPT !.SlaveID = slave, !.Hostname = slave]

\* ApplyUnreservedOffer, once the offer fits: ask for a reservation there.
ApplyUnreservedOffer(n, slave) == [Placed(n, slave) EXCEPT !.CurrentState = Reserved]

\* ApplyReservedOffer, once the offer fits: a task for the next generation.
\* Neither DestinationState nor reconciled is touched.
ApplyReservedOffer(n, slave) ==
    [Placed(n, slave) EXCEPT !.Generation = @ + 1, !.TaskStatus = FALSE, !.CurrentState = Starting]

\* Mutant of Serialized: Generation is not exported either.
SerializedNoGeneration(n) == [n EXCEPT !.reconciled = FALSE, !.asked = FALSE, !.Generation = 0]

\* What json leaves of a node: the two unexported fields are lost.
Serialized(n) == [n EXCEPT !.reconciled = FALSE, !.asked = FALSE]
=============================================================================
