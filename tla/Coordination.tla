---------------------------- MODULE Coordination ----------------------------
(***************************************************************************)
(* What is kept in ZooKeeper below one framework, and by whom: schedulers  *)
(* (the leader, and one that takes itself for the leader) persist their    *)
(* state; executors make the nodes they share, and one of their own for    *)
(* their task, with their ports in it, until the task ends.                *)
(***************************************************************************)
EXTENDS MetadataManager, Sequences

CONSTANTS
    Schedulers, Executors,  \* goroutines, each the only one of its process
    Teams,                  \* bound: the processes that may run at the same time
    MaxPersists             \* bound: Persists per scheduler

ASSUME CoordinationAssumption ==
    /\ Threads = Schedulers \cup Executors
    /\ Schedulers \cap Executors = {}
    /\ \A t, u \in Threads : ProcOf[t] = ProcOf[u] => t = u
    /\ Paths = {"SchedulerState", "cepmd", "coordinator", "coordinatedNodes"} \cup Executors
    /\ {"SchedulerState", "cepmd", "coordinator", "coordinatedNodes"} \cap Executors = {}
    /\ {"nil", "ports", "empty"} \subseteq Data
    /\ Teams \subseteq SUBSET Procs
    /\ MaxPersists \in Nat

VARIABLES
    step,       \* how far each goroutine is in its program
    asked       \* an observer: setbacks there had been when a scheduler last persisted

vars == <<mmVars, step, asked>>

Shared == {"cepmd", "coordinator", "coordinatedNodes"}
States == Data \ {"nil", "ports"}

\* NewCPMd, getCoordinatedChild, setCoordinatedData, and the end of runLoop.
Program(t) ==
    LET ensure(p) == [op |-> "ensure", path |-> p, data |-> "nil", ephemeral |-> FALSE]
        getChild(p) == [op |-> "get", path |-> p, data |-> "nil", ephemeral |-> FALSE]
    IN <<ensure("cepmd"), getChild("cepmd"),
         ensure("coordinator"), getChild("coordinator"),
         ensure("coordinatedNodes"), getChild("coordinatedNodes"),
         [op |-> "make", path |-> t, data |-> "nil", ephemeral |-> TRUE],
         [op |-> "set", path |-> t, data |-> "ports", ephemeral |-> FALSE],
         [op |-> "delete", path |-> t, data |-> "nil", ephemeral |-> FALSE]>>

\* The calls of metadata_manager/ are well typed and none is tried more than MaxRetries times.
TypeOK ==
    /\ MmTypeOK
    /\ step \in [Threads -> Nat] /\ asked \in [Schedulers -> Nat]
    /\ \A t \in Executors : step[t] <= Len(Program(t))
    /\ \A t \in Schedulers : step[t] <= MaxPersists

\* A framework that has run before.
Init ==
    /\ \E team \in Teams : MmInit(team)
    /\ znodes = [p \in {"SchedulerState"} |-> [data |-> "empty", version |-> 0, owner |-> Persistent]]
    /\ step = [t \in Threads |-> 0]
    /\ asked = [t \in Schedulers |-> 0]

\* What can make a SetData of the state try again: an answer that was lost, or a
\* version that somebody has written.
Setbacks == faults + znodes["SchedulerState"].version

Succeeded(t) == calls[t].result \in {"none", "ok"}

Advance(t) == step' = [step EXCEPT ![t] = @ + 1]

\* SchedulerState.Persist, of any state.
Persist(t) ==
    /\ Idle(t) /\ Succeeded(t) /\ step[t] < MaxPersists
    /\ \E s \in States : Calls(t, "set", "SchedulerState", s, FALSE)
    /\ asked' = [asked EXCEPT ![t] = Setbacks]
    /\ Advance(t)

NextCall(t) ==
    /\ Idle(t) /\ Succeeded(t) /\ step[t] < Len(Program(t))
    /\ LET c == Program(t)[step[t] + 1] IN Calls(t, c.op, c.path, c.data, c.ephemeral)
    /\ Advance(t)
    /\ UNCHANGED asked

\* An error that getNode returns: log.Panic in its caller.
CallerPanics(t) ==
    /\ Idle(t) /\ ~Succeeded(t)
    /\ Crash(ProcOf[t])
    /\ UNCHANGED <<step, asked>>

Next ==
    \/ \E t \in Threads : (Request(t) /\ UNCHANGED <<step, asked>>) \/ CallerPanics(t)
    \/ \E t \in Schedulers : Persist(t)
    \/ \E t \in Executors : NextCall(t)
    \/ \E s \in Sessions : Expire(s) /\ UNCHANGED <<step, asked>>
    \/ \E p \in Procs : Crash(p) /\ UNCHANGED <<step, asked>>

Spec == Init /\ [][Next]_vars

-----------------------------------------------------------------------------
(* Properties *)

\* Executors and schedulers make the shared nodes all at the same time, and none
\* of them gives up (createIfNotExists): losing the race, or having won it without
\* being told, costs one retry, so that it takes as many lost answers as there are
\* retries to stop one.
EnsureTolerates ==
    \A t \in Threads : calls[t].op = "ensure" /\ faults < MaxRetries => calls[t].result # "panic"

\* An executor that has come to SetData still has the znode of its own session,
\* with what it last wrote, as long as that session lasts, whatever was lost on the
\* way and whatever the others do: makeNode takes no node over, and SetData, however
\* often it sets, sets that one.
OwnNode(t) == calls[t].op \in {"make", "set"} /\ calls[t].path = t /\ calls[t].result = "ok"

MadeNodeIsOwn ==
    \A t \in Executors : OwnNode(t) /\ session[ProcOf[t]] = 0 /\ ProcOf[t] \in up =>
        There(t) /\ znodes[t] = [data |-> calls[t].data, version |-> calls[t].wrote - (IF calls[t].op = "make" THEN 1 ELSE 0),
                                 owner |-> <<ProcOf[t], 0>>]

Phase(t) ==
    CASE calls[t].op # "set" -> "idle"
      [] calls[t].op = "set" /\ calls[t].result = "ok" -> "ok"
      [] calls[t].op = "set" /\ calls[t].result # "ok" /\ (ProcOf[t] \notin up) -> "failed"
      [] OTHER -> IF calls[t].wrote = 0 THEN "asked" ELSE "applied"

State == INSTANCE Register WITH
    Writers <- Schedulers, Values <- States,
    value <- znodes["SchedulerState"].data,
    phase <- [t \in Schedulers |-> Phase(t)],
    arg <- [t \in Schedulers |-> IF calls[t].op = "set" THEN calls[t].data ELSE "empty"],
    lost <- faults

\* Two schedulers that both persist, with answers lost and retries, write the state
\* as if it were the register of Register.tla: no write is acknowledged that did not
\* take effect at that moment, none takes effect after its failure was reported, and
\* each takes effect again at most once for every lost answer (SetData).
PersistIsRegister == State!Spec

\* A scheduler gives a Persist up only after more than MaxRetries setbacks since it
\* began: answers that were lost, and writes of others, which it would have undone.
\* Its own writes whose answer was lost do not count against it twice (SetData).
PersistTolerates ==
    \A t \in Schedulers : calls[t].op = "set" /\ calls[t].result = "panic" =>
        Setbacks - asked[t] - calls[t].wrote > MaxRetries
=============================================================================
