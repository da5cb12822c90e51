----------------------------- MODULE Leadership -----------------------------
(***************************************************************************)
(* Several schedulers of one framework, one of which leads: the order in   *)
(* which NewSchedulerCore, Run and SetupFramework read the persisted state,  *)
(* take the lock of ZooKeeper, announce their URI and register with Mesos. *)
(* The lock (a queue of sessions) and the master (which gives out framework*)
(* IDs) are external.                                                      *)
(***************************************************************************)
EXTENDS MetadataManager, SequencesExt

CONSTANT Ids    \* the framework IDs that the master gives out, in order

ASSUME LeadershipAssumption ==
    /\ Threads = Procs /\ \A t \in Threads : ProcOf[t] = t
    /\ Paths = {"SchedulerState", "uri"}
    /\ Ids \in Seq(Data \ {"empty", "uri"})
    /\ {"empty", "uri"} \subseteq Data

VARIABLES
    at,         \* where each scheduler is
    memory,     \* its SchedulerState: the framework ID in it
    ticket,     \* the session with which it queued for the lock
    queue,      \* who waits for the lock, its holder first
    issued      \* how many framework IDs were given out

leVars == <<at, memory, ticket, queue, issued>>
vars == <<mmVars, leVars>>

\* The schedulers, their calls and the lock are well typed, retries within MaxRetries.
TypeOK ==
    /\ MmTypeOK
    /\ at \in [Procs -> {"open", "opened", "created", "lock", "waiting", "uri", "subscribe", "leading"}]
    /\ memory \in [Procs -> Data]
    /\ ticket \in [Procs -> Sessions]
    /\ queue \in Seq(Sessions)
    /\ issued \in 0 .. Len(Ids)

Init ==
    /\ MmInit(Procs)
    /\ znodes = [p \in {} |-> {}]
    /\ at = [t \in Procs |-> "open"]
    /\ memory = [t \in Procs |-> "empty"]
    /\ ticket = [t \in Procs |-> <<t, 0>>]
    /\ queue = <<>>
    /\ issued = 0

Current(t) == <<t, session[t]>>

Goes(t, to) == at' = [at EXCEPT ![t] = to]

-----------------------------------------------------------------------------
(* NewSchedulerCore: GetSchedulerState *)

GetSchedulerState(t) ==
    /\ Idle(t) /\ at[t] = "open"
    /\ Calls(t, "get", "SchedulerState", "empty", FALSE)
    /\ Goes(t, "opened")
    /\ UNCHANGED <<memory, ticket, queue, issued>>

\* ErrNoNode makes an empty state; for any other error, the node is nil.
Opened(t) ==
    /\ Idle(t) /\ at[t] = "opened"
    /\ \/ /\ calls[t].result = "ok"
          /\ memory' = [memory EXCEPT ![t] = calls[t].got]
          /\ Goes(t, "lock")
          /\ UNCHANGED mmVars
       \/ /\ calls[t].result = "nonode"
          /\ Calls(t, "put", "SchedulerState", "empty", FALSE)
          /\ Goes(t, "created")
          /\ UNCHANGED memory
       \/ /\ calls[t].result = "lost"
          /\ Crash(t)
          /\ UNCHANGED <<at, memory>>
    /\ UNCHANGED <<ticket, queue, issued>>

\* The state of a node that was made is the empty one, whatever is in the node.
Created(t) ==
    /\ Idle(t) /\ at[t] = "created"
    /\ IF calls[t].result = "ok"
       THEN Goes(t, "lock") /\ memory' = [memory EXCEPT ![t] = "empty"] /\ UNCHANGED mmVars
       ELSE Crash(t) /\ UNCHANGED <<at, memory>>
    /\ UNCHANGED <<ticket, queue, issued>>

-----------------------------------------------------------------------------
(* Run: SetupFramework, then the driver *)

Lock(t) ==
    /\ Idle(t) /\ at[t] = "lock"
    /\ queue' = Append(queue, Current(t))
    /\ ticket' = [ticket EXCEPT ![t] = Current(t)]
    /\ Goes(t, "waiting")
    /\ UNCHANGED <<mmVars, memory, issued>>

\* Mutant: the lock is taken for granted.
LockedAnyway(t) ==
    /\ Idle(t) /\ at[t] = "waiting"
    /\ Goes(t, "uri")
    /\ UNCHANGED <<mmVars, memory, ticket, queue, issued>>

\* Lock returns; with an error, and a panic, if the session has ended.
Locked(t) ==
    /\ Idle(t) /\ at[t] = "waiting"
    /\ \/ /\ queue # <<>> /\ Head(queue) = ticket[t]
          /\ Goes(t, "uri")
          /\ UNCHANGED mmVars
       \/ /\ ticket[t] # Current(t)
          /\ Crash(t)
          /\ UNCHANGED at
    /\ UNCHANGED <<memory, ticket, queue, issued>>

\* One Create, without a retry: any error is a panic.
SetupFramework(t) ==
    /\ Idle(t) /\ at[t] = "uri"
    /\ LET uri == [data |-> "uri", version |-> 0, owner |-> Current(t)]
           after == [p \in DOMAIN znodes \cup {"uri"} |-> IF p = "uri" THEN uri ELSE znodes[p]]
       IN \/ /\ ~There("uri")
             /\ znodes' = after
             /\ Goes(t, "subscribe")
             /\ UNCHANGED <<up, faults>>
          \/ /\ There("uri")
             /\ up' = up \ {t}
             /\ UNCHANGED <<znodes, faults, at>>
          \/ /\ faults < MaxFaults
             /\ faults' = faults + 1
             /\ znodes' \in {znodes} \cup {z \in {after} : ~There("uri")}
             /\ up' = up \ {t}
             /\ UNCHANGED at
    /\ UNCHANGED <<session, calls, memory, ticket, queue, issued>>

\* driver.Run with the ID in memory, or none; Registered stores it and persists.
Registers(t, id) ==
    /\ memory' = [memory EXCEPT ![t] = id]
    /\ Calls(t, "set", "SchedulerState", id, FALSE)
    /\ Goes(t, "leading")
    /\ UNCHANGED <<ticket, queue>>

Registered(t) ==
    /\ Idle(t) /\ at[t] = "subscribe"
    /\ IF memory[t] = "empty"
       THEN issued < Len(Ids) /\ Registers(t, Ids[issued + 1]) /\ issued' = issued + 1
       ELSE Registers(t, memory[t]) /\ UNCHANGED issued

-----------------------------------------------------------------------------
\* Marathon starts the scheduler again.
Restart(t) ==
    /\ t \notin up /\ session[t] < MaxSessions
    /\ up' = up \cup {t}
    /\ session' = [session EXCEPT ![t] = @ + 1]
    /\ calls' = [calls EXCEPT ![t] = NoCall]
    /\ Goes(t, "open")
    /\ memory' = [memory EXCEPT ![t] = "empty"]
    /\ UNCHANGED <<znodes, faults, ticket, queue, issued>>

Holds(s) == (\E p \in DOMAIN znodes : znodes[p].owner = s) \/ (\E i \in DOMAIN queue : queue[i] = s)

\* Mutant: the lock outlives its session.
ExpireKeepingLock(s) ==
    /\ Holds(s)
    /\ SessionEnds(s)
    /\ UNCHANGED leVars

\* A session is in the queue once: with Lock, or not at all.
LeavesQueue(s) ==
    \/ \E i \in DOMAIN queue : queue[i] = s /\ queue' = RemoveAt(queue, i)
    \/ (\A i \in DOMAIN queue : queue[i] # s) /\ UNCHANGED queue

ExpireAll(s) ==
    /\ Holds(s)
    /\ SessionEnds(s)
    /\ LeavesQueue(s)
    /\ UNCHANGED <<at, memory, ticket, issued>>

Starts(t) ==
    \/ GetSchedulerState(t) \/ Opened(t) \/ Created(t) \/ Lock(t) \/ Locked(t)
    \/ SetupFramework(t) \/ Registered(t)

Next ==
    \/ \E t \in Procs : Starts(t) \/ Restart(t)
    \/ \E t \in Procs : (Request(t) \/ Crash(t)) /\ UNCHANGED leVars
    \/ \E s \in Sessions : ExpireAll(s)

Spec == Init /\ [][Next]_vars

Fairness ==
    /\ \A t \in Procs : WF_vars(Starts(t)) /\ WF_vars(Request(t) /\ UNCHANGED leVars)
    /\ \A s \in Sessions : WF_vars(Abandoned(s) /\ ExpireAll(s))

FairSpec == Spec /\ Fairness

-----------------------------------------------------------------------------
(* Properties *)

Leads(t) == at[t] \in {"subscribe", "leading"} /\ t \in up

\* However leaders die, are cut off or are replaced, before, in or after
\* SetupFramework, a scheduler that waits for the lock does not wait for a lock, or
\* a URI, that nobody will ever release.
StandbyTakesOver ==
    (\E t \in Procs : t \in up /\ at[t] = "waiting") ~>
        ((\E t \in Procs : Leads(t)) \/ \A t \in Procs : ~(t \in up /\ at[t] = "waiting"))

\* A scheduler that leads, and whose session is still the one it locked with, holds the
\* lock and owns the URI that clients read: no other scheduler has taken either from it
\* while that session lasted (SetupFramework). Not the converse: a session that expires
\* between Lock and Create leaves a URI whose owner does not hold the lock.
LeaderOwnsUri ==
    \A t \in Procs : at[t] = "leading" /\ ticket[t] = Current(t) /\ t \in up =>
        /\ queue # <<>> /\ Head(queue) = ticket[t]
        /\ There("uri") /\ znodes["uri"].owner = ticket[t]

\* README.md:57, "If it has, attempt to reregister the same Framework ID": no new
\* ID is asked for while one is persisted.
SameFrameworkId ==
    [][\A t \in Procs : at[t] = "subscribe" /\ at'[t] = "leading" /\ memory[t] = "empty"
           => znodes["SchedulerState"].data = "empty"]_vars
=============================================================================
