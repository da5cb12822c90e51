------------------------------- MODULE Mesos --------------------------------
(***************************************************************************)
(* The Mesos master, its agents and the Riak executors on them, as far as  *)
(* the scheduler can observe them. Mesos itself is external: this module   *)
(* is what scheduler/ relies on (reliable, retransmitted status updates    *)
(* from agents; one-shot messages and answers from the master; offers).    *)
(* The executor's part is executor/executor.go and executor/node.go, with  *)
(* their message handlers reduced to the status update they end in.        *)
(***************************************************************************)
EXTENDS FrameworkRiakNode, FiniteSets, Sequences

CONSTANTS
    Names,              \* cluster names
    MaxNodes,           \* bound: nodes of one cluster, buried ones included
    MaxAnswers,         \* bound: answers of the master in flight per task id
    CompatibilityMode   \* no dynamic reservations, no persistent volumes

ASSUME MesosAssumption ==
    /\ MaxNodes \in Nat
    /\ MaxAnswers \in Nat
    /\ CompatibilityMode \in BOOLEAN

VARIABLES
    accepts,    \* offers being accepted, one acceptOffer goroutine each
    tasks,      \* per task id: the task the master knows by it, if any
    executors,  \* history: the executors ever started
    answers,    \* per task id: updates made up by the master itself, in order
    vols        \* persistent volumes, each with the reservation it sits in

mesosVars == <<accepts, tasks, executors, answers, vols>>

\* CurrentID(): framework name, cluster name and SimpleId; the Mesos TaskID.
Id == Names \X (1..MaxNodes)

TaskState == {"STAGING", "STARTING", "RUNNING", "FINISHED", "FAILED", "KILLED", "LOST", "ERROR"}

\* ExecutorID() is made of the UUID and the Generation.
ExecutorID == (0..MaxUuid) \X (0..MaxGeneration)

\* A task, the updates its agent has not seen acknowledged, and the message
\* from the scheduler that is on its way to it.
Task == [phase : {"none", "staging", "starting", "running", "dead"},
         executor : ExecutorID,
         slave : Slaves \union {NoSlave},
         queue : Seq(TaskState),
         message : {"none", "finish", "kill"}]

NoTask == [phase |-> "none", executor |-> <<0, 0>>, slave |-> NoSlave,
           queue |-> <<>>, message |-> "none"]

Launch == [id : Id, executor : ExecutorID]

Accept == [slave : Slaves, launch : SUBSET Launch, reserve : SUBSET (0..MaxUuid),
           destroy : SUBSET (0..MaxUuid), vols : SUBSET (0..MaxUuid)]

Answer == [state : TaskState, slave : Slaves \union {NoSlave}]

Volume == [uuid : 0..MaxUuid, slave : Slaves]

MesosTypeOK ==
    /\ accepts \subseteq Accept
    /\ tasks \in [Id -> Task]
    /\ executors \subseteq ExecutorID
    /\ answers \in [Id -> Seq(Answer)]
    /\ vols \subseteq Volume

MesosInit ==
    /\ accepts = {}
    /\ tasks = [i \in Id |-> NoTask]
    /\ executors = {}
    /\ answers = [i \in Id |-> <<>>]
    /\ vols = {}

-----------------------------------------------------------------------------
(* What the master knows *)

\* A dead task is known until its last update is acknowledged.
Known(t) == t.phase # "none"

Live(t) == t.phase \in {"staging", "starting", "running"}

\* The last state the agent forwarded for a task.
Reported(t) ==
    IF t.queue # <<>> THEN Head(t.queue)
    ELSE CASE t.phase = "staging"  -> "STAGING"
           [] t.phase = "starting" -> "STARTING"
           [] OTHER                -> "RUNNING"

\* The master's answer when it is asked to reconcile a task id.
Reconciled(t) ==
    IF Known(t) THEN [state |-> Reported(t), slave |-> t.slave]
    ELSE [state |-> "LOST", slave |-> NoSlave]

\* Volumes an offer of an agent may contain: not in use by a task, nor in an
\* offer that is being answered.
Free(slave) ==
    {v.uuid : v \in {w \in vols :
        /\ w.slave = slave
        /\ \A i \in Id : ~(Live(tasks[i]) /\ tasks[i].executor[1] = w.uuid /\ tasks[i].slave = slave)
        /\ \A a \in accepts : ~(a.slave = slave /\ w.uuid \in a.vols)}}

-----------------------------------------------------------------------------
(* Offers that come back: LAUNCH, then DESTROY, UNRESERVE, RESERVE, CREATE *)

\* A launch is refused when the master knows a task of that id, or when it
\* asks for a volume that was not in the offer.
Valid(a, l) == ~Known(tasks[l.id]) /\ (CompatibilityMode \/ l.executor[1] \in a.vols)

Staged(a, l) == [phase |-> "staging", executor |-> l.executor, slave |-> a.slave,
                 queue |-> <<>>, message |-> "none"]

\* The master's own update for launches that come to nothing.
AnswerLaunches(ls, state) ==
    /\ \A l \in ls : Len(answers[l.id]) < MaxAnswers
    /\ answers' = [i \in Id |->
          IF \E l \in ls : l.id = i
          THEN Append(answers[i], [state |-> state, slave |-> NoSlave]) ELSE answers[i]]

AcceptOffer(a) ==
    LET valid == {l \in a.launch : Valid(a, l)}
    IN  /\ tasks' = [i \in Id |-> IF \E l \in valid : l.id = i
                                  THEN Staged(a, CHOOSE l \in valid : l.id = i) ELSE tasks[i]]
        /\ executors' = executors \union {l.executor : l \in valid}
        /\ AnswerLaunches(a.launch \ valid, "ERROR")
        /\ vols' = (vols \ [uuid : a.destroy, slave : {a.slave}])
                     \union [uuid : a.reserve, slave : {a.slave}]
        /\ accepts' = accepts \ {a}

\* The offer is no longer valid when the answer to it arrives.
OfferRescinded(a) ==
    /\ AnswerLaunches(a.launch, "LOST")
    /\ accepts' = accepts \ {a}
    /\ UNCHANGED <<tasks, executors, vols>>

LoseAnswer(i) ==
    /\ answers[i] # <<>>
    /\ answers' = [answers EXCEPT ![i] = Tail(@)]
    /\ UNCHANGED <<accepts, tasks, executors, vols>>

-----------------------------------------------------------------------------
(* Tasks and their executors *)

\* The task in a new phase, with one more update; nothing reaches a dead task.
Moved(t, phase, state) ==
    [t EXCEPT !.phase = phase, !.queue = Append(@, state),
              !.message = IF phase = "dead" THEN "none" ELSE @]

Becomes(i, phase, state) ==
    /\ tasks' = [tasks EXCEPT ![i] = Moved(@, phase, state)]
    /\ UNCHANGED <<accepts, executors, answers, vols>>

\* ExecutorCore.LaunchTask announces TASK_STARTING before it starts Riak.
TaskStarting(i) == tasks[i].phase = "staging" /\ Becomes(i, "starting", "STARTING")

\* RiakNode.Run got through: TASK_RUNNING.
TaskRunning(i) == tasks[i].phase = "starting" /\ Becomes(i, "running", "RUNNING")

\* Riak does not come up, Riak dies, or the executor or its agent is lost.
TaskFails(i) == Live(tasks[i]) /\ Becomes(i, "dead", "FAILED")

\* ForceFinish ends in TASK_FINISHED, KillTask in TASK_KILLED. LaunchTask holds
\* the executor's lock until Riak is up, so neither runs in phase "starting"; a
\* task still "staging" is killed by its agent, while a "finish" finds no
\* riakNode and brings the executor down.
DeliverMessage(i) ==
    /\ tasks[i].message # "none"
    /\ tasks[i].phase \in {"staging", "running"}
    /\ Becomes(i, "dead", IF tasks[i].message = "kill" THEN "KILLED"
                          ELSE IF tasks[i].phase = "running" THEN "FINISHED" ELSE "FAILED")

LoseMessage(i) ==
    /\ tasks[i].message # "none"
    /\ tasks' = [tasks EXCEPT ![i].message = "none"]
    /\ UNCHANGED <<accepts, executors, answers, vols>>

\* The task after the agent has seen its oldest update acknowledged.
Acknowledged(t) ==
    IF t.phase = "dead" /\ Tail(t.queue) = <<>> THEN NoTask ELSE [t EXCEPT !.queue = Tail(@)]
=============================================================================
