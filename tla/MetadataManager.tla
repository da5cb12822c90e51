-------------------------- MODULE MetadataManager --------------------------
(***************************************************************************)
(* metadata_manager/manager.go: the operations on znodes that schedulers,  *)
(* executors and cepmd are written with, request by request, with their    *)
(* retries. ZooKeeper itself is external: requests take effect one by one, *)
(* ephemeral znodes go with their session, and the answer to a request may *)
(* be lost, whether or not the request was performed. Every znode here is  *)
(* a leaf whose parents exist.                                             *)
(***************************************************************************)
EXTENDS Integers, Functions

CONSTANTS
    Procs,      \* Unix processes with a MetadataManager
    Threads,    \* their goroutines
    ProcOf,     \* the process of each goroutine
    Paths, Data,
    MaxRetries, \* 10 in the code
    MaxFaults,  \* bound: requests whose answer is lost
    MaxSessions \* bound: ZooKeeper sessions per process

ASSUME MetadataAssumption ==
    /\ ProcOf \in [Threads -> Procs] /\ "persistent" \notin Procs
    /\ MaxRetries \in Nat /\ MaxFaults \in Nat /\ MaxSessions \in Nat

VARIABLES
    znodes,     \* the znodes that exist: data, version, session or Persistent
    session,    \* the current session of each process
    up,         \* the processes that run
    faults,     \* answers lost so far
    calls       \* what each goroutine is doing, or did last

mmVars == <<znodes, session, up, faults, calls>>

Persistent == <<"persistent", 0>>
Sessions == Procs \X (0 .. MaxSessions)
Znode == [data : Data, version : Nat, owner : Sessions \cup {Persistent}]

NoStat == -1
NoCall == [op |-> "none", path |-> "none", data |-> "none", ephemeral |-> FALSE, pc |-> "idle", try |-> 0,
           stat |-> NoStat, wrote |-> 0, got |-> "none", result |-> "none"]

Result == {"none", "ok", "nonode", "lost", "panic"}
Call == [op : {"none", "set", "ensure", "make", "put", "get", "delete"},
         path : Paths \cup {"none"}, data : Data \cup {"none"}, ephemeral : BOOLEAN,
         pc : {"idle", "exists", "get", "set", "create", "fetch", "delete"},
         try : 0 .. MaxRetries, stat : Nat \cup {NoStat}, wrote : Nat,
         got : Data \cup {"none"}, result : Result]

MmTypeOK ==
    /\ DOMAIN znodes \subseteq Paths /\ \A p \in DOMAIN znodes : znodes[p] \in Znode
    /\ session \in [Procs -> 0 .. MaxSessions]
    /\ up \subseteq Procs
    /\ faults \in 0 .. MaxFaults
    /\ calls \in [Threads -> Call]

MmInit(running) ==
    /\ session = [p \in Procs |-> 0]
    /\ up = running
    /\ faults = 0
    /\ calls = [t \in Threads |-> NoCall]

-----------------------------------------------------------------------------
(* Calls, requests and retries *)

Idle(t) == ProcOf[t] \in up /\ calls[t].pc = "idle"

FirstRequest == [set |-> "get", ensure |-> "exists", make |-> "create", put |-> "exists",
                 get |-> "fetch", delete |-> "delete"]

\* SetData is only ever called on a node that was read, and Get and Set of the zk
\* library return a Stat with their errors too: its stat is never nil.
Calls(t, op, path, data, ephemeral) ==
    /\ calls' = [calls EXCEPT ![t] =
           [NoCall EXCEPT !.op = op, !.path = path, !.data = data, !.ephemeral = ephemeral, !.pc = FirstRequest[op]]]
    /\ UNCHANGED <<znodes, session, up, faults>>

Done(call, result) == [call EXCEPT !.pc = "idle", !.result = result]

\* Mutant: one retry too many.
AgainOnceMore(call, pc) ==
    IF call.try > MaxRetries THEN Done(call, "panic")
    ELSE [call EXCEPT !.pc = pc, !.try = @ + 1]

\* The end of every ...WithRetry: log.Panic, or once more.
Again(call, pc) ==
    IF call.try >= MaxRetries THEN Done(call, "panic")
    ELSE [call EXCEPT !.pc = pc, !.try = @ + 1]

\* getNode counts its own retries, and returns its last error.
Fetching(call) == [call EXCEPT !.pc = "fetch", !.try = 0]

FetchAgain(call, error) ==
    IF call.try >= MaxRetries THEN Done(call, error) ELSE [call EXCEPT !.try = @ + 1]

\* A goroutine that panics takes its process with it. (Not so in a request to the
\* HTTP server, which recovers: PersistInRequest of Scheduler.tla has that case.)
Becomes(t, call) ==
    /\ calls' = [calls EXCEPT ![t] = call]
    /\ up' = IF call.result = "panic" THEN up \ {ProcOf[t]} ELSE up

\* CreateConnection, after a lost answer: it keeps a connection that is being
\* reestablished, and replaces one that is down. The old session is left to expire.
CreateConnection(p) ==
    \/ UNCHANGED session
    \/ session[p] < MaxSessions /\ session' = [session EXCEPT ![p] = @ + 1]

Reconnects(call) == call.op \notin {"ensure", "delete"}

Answered == UNCHANGED <<faults, session>>

Lost(t) ==
    /\ faults < MaxFaults
    /\ faults' = faults + 1
    /\ IF Reconnects(calls[t]) THEN CreateConnection(ProcOf[t]) ELSE UNCHANGED session

Requests(t, pc) == ProcOf[t] \in up /\ calls[t].pc = pc

\* A request that changes nothing.
Read(t, good, bad) ==
    /\ \/ Answered /\ Becomes(t, good)
       \/ Lost(t) /\ Becomes(t, bad)
    /\ UNCHANGED znodes

Wrote(call) == [call EXCEPT !.wrote = @ + 1]

\* A request that is refused unless it is `possible`: it is performed and answered,
\* performed and its answer lost, refused, or lost on the way.
Write(t, possible, after, good, late, bad) ==
    \/ possible /\ znodes' = after /\ Answered /\ Becomes(t, good)
    \/ possible /\ znodes' = after /\ Lost(t) /\ Becomes(t, late)
    \/ ~possible /\ Answered /\ Becomes(t, bad) /\ UNCHANGED znodes
    \/ Lost(t) /\ Becomes(t, bad) /\ UNCHANGED znodes

-----------------------------------------------------------------------------
(* The requests *)

There(p) == p \in DOMAIN znodes

\* createIfNotExists, makeNodeWithData.
Exists(t) ==
    /\ Requests(t, "exists")
    /\ LET call == calls[t] IN
       Read(t, IF ~There(call.path) THEN [call EXCEPT !.pc = "create"]
               ELSE IF call.op = "ensure" THEN Done(call, "ok") ELSE [call EXCEPT !.pc = "get"],
            Again(call, "exists"))

\* Mutant: the last error is not reported.
SetFailsQuietly(call) ==
    IF call.op = "set" THEN IF call.try >= MaxRetries THEN Done(call, "ok") ELSE Again(call, "get")
    ELSE Fetching(call)

\* Mutant: SetData does without the last of its retries.
SetFailsEarly(call) ==
    IF call.op = "set" THEN IF call.try + 1 >= MaxRetries THEN Done(call, "panic") ELSE Again(call, "get")
    ELSE Fetching(call)

\* SetData starts again: it reads the version again, so it sets again, whatever has
\* been written since. In makeNodeWithData the error is that of a variable of the
\* inner block.
SetFails(call) == IF call.op = "set" THEN Again(call, "get") ELSE Fetching(call)

Get(t) ==
    /\ Requests(t, "get")
    /\ LET call == calls[t] IN
       Read(t, IF There(call.path) THEN [call EXCEPT !.pc = "set", !.stat = znodes[call.path].version]
               ELSE SetFails(call),
            SetFails(call))

SetSucceeds(call) == IF call.op = "set" THEN Done(call, "ok") ELSE Fetching(call)

Set(t) ==
    /\ Requests(t, "set")
    /\ LET call == calls[t] IN
       Write(t, There(call.path) /\ znodes[call.path].version = call.stat,
             [znodes EXCEPT ![call.path].data = call.data, ![call.path].version = @ + 1],
             SetSucceeds(Wrote(call)), SetFails(Wrote(call)), SetFails(call))

CreateSucceeds(call) == IF call.op = "ensure" THEN Done(call, "ok") ELSE Fetching(call)

\* Mutant: the retry does not look again.
CreateFailsBlindly(call) == Again(call, "create")

CreateFails(call) == Again(call, FirstRequest[call.op])

\* Mutant: the flag is lost on the way.
OwnerDropped(t) == Persistent

\* zk.FlagEphemeral.
Owner(t) == IF calls[t].ephemeral THEN <<ProcOf[t], session[ProcOf[t]]>> ELSE Persistent

Create(t) ==
    /\ Requests(t, "create")
    /\ LET call == calls[t]
           new == [data |-> call.data, version |-> 0, owner |-> Owner(t)]
       IN Write(t, ~There(call.path),
                [p \in DOMAIN znodes \cup {call.path} |-> IF p = call.path THEN new ELSE znodes[p]],
                CreateSucceeds(Wrote(call)), CreateFails(Wrote(call)), CreateFails(call))

\* getNode.
Fetch(t) ==
    /\ Requests(t, "fetch")
    /\ LET call == calls[t] IN
       Read(t, IF There(call.path) THEN Done([call EXCEPT !.got = znodes[call.path].data], "ok")
               ELSE FetchAgain(call, "nonode"),
            FetchAgain(call, "lost"))

\* DeleteChildren of a leaf.
DeleteSucceeds(call) == Done(call, "ok")

\* Mutant: the error is ignored.
DeleteFailsQuietly(call) == Done(call, "ok")

DeleteFails(call) == Again(call, "delete")

Delete(t) ==
    /\ Requests(t, "delete")
    /\ LET call == calls[t] IN
       Write(t, There(call.path), Restrict(znodes, DOMAIN znodes \ {call.path}),
             DeleteSucceeds(Wrote(call)), DeleteFails(Wrote(call)), DeleteFails(call))

Request(t) == Exists(t) \/ Get(t) \/ Set(t) \/ Create(t) \/ Fetch(t) \/ Delete(t)

-----------------------------------------------------------------------------
(* Processes and sessions *)

\* A session ends: of a dead process, a replaced one, or the current one of a
\* process that was cut off, which is given a new one.
SessionEnds(s) ==
    /\ s[2] <= session[s[1]]
    /\ znodes' = Restrict(znodes, {p \in DOMAIN znodes : znodes[p].owner # s})
    /\ IF s[1] \in up /\ s[2] = session[s[1]]
       THEN s[2] < MaxSessions /\ session' = [session EXCEPT ![s[1]] = @ + 1]
       ELSE UNCHANGED session
    /\ UNCHANGED <<up, faults, calls>>

Expire(s) ==
    /\ \E p \in DOMAIN znodes : znodes[p].owner = s
    /\ SessionEnds(s)

Crash(p) ==
    /\ p \in up
    /\ up' = up \ {p}
    /\ UNCHANGED <<znodes, session, faults, calls>>

\* Sessions of processes that are gone do expire.
Abandoned(s) == s[1] \notin up \/ s[2] < session[s[1]]
=============================================================================
