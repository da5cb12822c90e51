------------------------- MODULE CoordinationProofs --------------------------
(***************************************************************************)
(* Schedulers and executors that share znodes, for any number of them, any *)
(* number of retries and any number of lost answers: nobody is stopped by  *)
(* a race for a shared node, an executor keeps the node it has made, and   *)
(* Persist is a write to a register, given up only for cause.              *)
(***************************************************************************)
EXTENDS Coordination, MetadataProofs

\* A goroutine is where its program is.
ProgramInv(t) ==
    /\ t \in Schedulers /\ calls[t].op # "none" =>
          calls[t].op = "set" /\ calls[t].path = "SchedulerState" /\ calls[t].data \in States /\ ~calls[t].ephemeral
    /\ t \in Executors =>
          /\ step[t] \in 0 .. 9
          /\ step[t] = 0 => calls[t].op = "none"
          /\ step[t] \in 1 .. 6 => calls[t].op \in {"ensure", "get"} /\ calls[t].path \in Shared /\ ~calls[t].ephemeral
          /\ step[t] = 7 => calls[t].op = "make" /\ calls[t].path = t /\ calls[t].data = "nil" /\ calls[t].ephemeral
          /\ step[t] = 8 => calls[t].op = "set" /\ calls[t].path = t /\ calls[t].data = "ports" /\ ~calls[t].ephemeral
          /\ step[t] = 9 => calls[t].op = "delete" /\ calls[t].path = t

\* Shared nodes outlive those who made them.
SharedInv ==
    /\ There("SchedulerState")
    /\ \A p \in Shared \cup {"SchedulerState"} : There(p) => znodes[p].owner = Persistent

\* A createIfNotExists has been tried once for every lost answer, and once more at
\* most, when the node turned out to be there.
EnsureInv(t) ==
    calls[t].op = "ensure" =>
        /\ calls[t].pc = "create" => calls[t].try <= faults
        /\ calls[t].pc = "exists" => calls[t].try <= faults + (IF There(calls[t].path) THEN 1 ELSE 0)
        /\ calls[t].result = "panic" => faults >= MaxRetries

Own(t, data, version) ==
    There(t) /\ znodes[t] = [data |-> data, version |-> version, owner |-> <<ProcOf[t], 0>>]

\* An executor's node is there from when it was created, whoever was told, until it
\* is deleted or its first session ends, with all that SetData has written.
OwnInv(t) ==
    ProcOf[t] \in up /\ session[ProcOf[t]] = 0 =>
        /\ step[t] < 7 => ~There(t)
        /\ step[t] = 7 =>
              \/ calls[t].wrote = 0 /\ ~There(t) /\ calls[t].pc = "create"
              \/ calls[t].wrote = 1 /\ Own(t, "nil", 0) /\ calls[t].pc \in {"create", "fetch", "idle"}
        /\ step[t] = 8 =>
              /\ Own(t, IF calls[t].wrote = 0 THEN "nil" ELSE "ports", calls[t].wrote)
              /\ calls[t].pc = "idle" => calls[t].wrote # 0

Version == znodes["SchedulerState"].version

\* A Persist has been tried again once for every setback since it began, at most:
\* at Set, for those there were when it read the version. Its own lost answers have
\* not made the version a setback too.
PersistInv(t) ==
    calls[t].op = "set" =>
        /\ calls[t].pc = "get" => calls[t].try <= Setbacks - asked[t] - calls[t].wrote
        /\ calls[t].pc = "set" =>
              calls[t].stat <= Version /\ calls[t].try <= faults + calls[t].stat - asked[t] - calls[t].wrote
        /\ calls[t].result = "panic" => Setbacks - asked[t] - calls[t].wrote > MaxRetries

Inv ==
    /\ MmInv
    /\ step \in [Threads -> Nat] /\ asked \in [Schedulers -> Nat]
    /\ \A t \in Schedulers : step[t] <= MaxPersists
    /\ \A t \in Threads : ProgramInv(t) /\ EnsureInv(t)
    /\ SharedInv
    /\ \A t \in Executors : OwnInv(t)
    /\ \A t \in Schedulers : PersistInv(t)

-----------------------------------------------------------------------------
(* Who touches what *)

\* The program of an executor, call by call.
LEMMA Programs ==
    ASSUME NEW t \in Executors
    PROVE  /\ Len(Program(t)) = 9
           /\ \A i \in 1 .. 6 : /\ Program(t)[i].op \in {"ensure", "get"} /\ Program(t)[i].path \in Shared
                                /\ Program(t)[i].data = "nil" /\ Program(t)[i].ephemeral = FALSE
           /\ Program(t)[7] = [op |-> "make", path |-> t, data |-> "nil", ephemeral |-> TRUE]
           /\ Program(t)[8] = [op |-> "set", path |-> t, data |-> "ports", ephemeral |-> FALSE]
           /\ Program(t)[9] = [op |-> "delete", path |-> t, data |-> "nil", ephemeral |-> FALSE]
  <1>1. Len(Program(t)) = 9
    BY DEF Program
  <1>2. /\ Program(t)[7] = [op |-> "make", path |-> t, data |-> "nil", ephemeral |-> TRUE]
        /\ Program(t)[8] = [op |-> "set", path |-> t, data |-> "ports", ephemeral |-> FALSE]
        /\ Program(t)[9] = [op |-> "delete", path |-> t, data |-> "nil", ephemeral |-> FALSE]
    BY DEF Program
  <1>3. \A i \in 1 .. 6 : /\ Program(t)[i].op \in {"ensure", "get"} /\ Program(t)[i].path \in Shared
                          /\ Program(t)[i].data = "nil" /\ Program(t)[i].ephemeral = FALSE
    <2>. SUFFICES ASSUME NEW i \in 1 .. 6
                  PROVE  /\ Program(t)[i].op \in {"ensure", "get"} /\ Program(t)[i].path \in Shared
                         /\ Program(t)[i].data = "nil" /\ Program(t)[i].ephemeral = FALSE
      OBVIOUS
    <2>1. i = 1 \/ i = 2 \/ i = 3 \/ i = 4 \/ i = 5 \/ i = 6
      OBVIOUS
    <2>. QED
      BY <2>1 DEF Program, Shared
  <1>. QED
    BY <1>1, <1>2, <1>3

\* A goroutine calls for a node that all share, which it neither makes ephemeral nor
\* deletes, or for its own.
LEMMA PathOf ==
    ASSUME Inv, NEW t \in Threads, calls[t].op # "none"
    PROVE  \/ calls[t].path \in Shared \cup {"SchedulerState"} /\ ~calls[t].ephemeral /\ calls[t].op # "delete"
           \/ calls[t].path = t /\ t \in Executors /\ t \notin Shared \cup {"SchedulerState"} /\ step[t] \in 7 .. 9
  <1>1. ProgramInv(t) /\ step[t] \in Nat
    BY DEF Inv
  <1>2. CASE t \in Schedulers
    BY <1>1, <1>2 DEF ProgramInv
  <1>3. CASE t \in Executors
    <2>1. t \notin Shared \cup {"SchedulerState"}
      BY <1>3, CoordinationAssumption DEF Shared
    <2>2. step[t] \in 1 .. 6 \/ step[t] = 7 \/ step[t] = 8 \/ step[t] = 9
      BY <1>1, <1>3 DEF ProgramInv
    <2>. QED
      BY <1>1, <1>3, <2>1, <2>2 DEF ProgramInv
  <1>. QED
    BY <1>2, <1>3, CoordinationAssumption

\* A request leaves what others have, and shared nodes stay.
LEMMA RequestFrame ==
    ASSUME Inv, NEW t \in Threads, Request(t), NEW c, Outcome(t, c)
    PROVE  /\ calls[t].op # "none" /\ SameArgs(c, calls[t]) /\ calls'[t] = c
           /\ \A u \in Threads : u # t => calls'[u] = calls[u]
           /\ up' \subseteq up
           /\ \A p \in Procs : session'[p] \in Nat /\ session'[p] >= session[p]
           /\ faults \in Nat /\ faults' \in Nat /\ faults' >= faults
           /\ SharedInv'
           /\ \A p \in Shared : There(p) => There(p)'
           /\ \A u \in Executors : u # calls[t].path => /\ There(u)' <=> There(u)
                                                        /\ There(u) => znodes'[u] = znodes[u]
  <1>1. /\ calls \in [Threads -> Call] /\ calls' = [calls EXCEPT ![t] = c] /\ Follows(c, calls[t])
        /\ calls[t].pc \in RequestsOf(calls[t].op) /\ up' = IF c.result = "panic" THEN up \ {ProcOf[t]} ELSE up
        /\ session \in [Procs -> 0 .. MaxSessions] /\ faults \in 0 .. MaxFaults
    BY DEF Outcome, Inv, MmInv, MmTypeOK
  <1>2. /\ calls[t].op # "none" /\ SameArgs(c, calls[t]) /\ calls'[t] = c /\ up' \subseteq up
        /\ \A u \in Threads : u # t => calls'[u] = calls[u]
    BY <1>1 DEF Follows, RequestsOf
  <1>3. /\ \A p \in Procs : session'[p] \in Nat /\ session'[p] >= session[p]
        /\ faults \in Nat /\ faults' \in Nat /\ faults' >= faults
    <2>1. /\ session' \in [Procs -> 0 .. MaxSessions] /\ faults' \in 0 .. MaxFaults
          /\ \A p \in Procs : p # ProcOf[t] => session'[p] = session[p]
          /\ session'[ProcOf[t]] >= session[ProcOf[t]]
          /\ faults' = faults \/ faults' = faults + 1
      BY CountsStep DEF Outcome, Inv, MmInv
    <2>2. \A p \in Procs : session'[p] \in Nat /\ session'[p] >= session[p]
      BY <1>1, <2>1
    <2>. QED
      BY <1>1, <2>1, <2>2
  <1>4. Touches(t)
    BY RequestOutcome DEF Inv
  <1>5. ASSUME NEW p, p # calls[t].path
        PROVE  /\ There(p)' <=> There(p)
               /\ There(p) => znodes'[p] = znodes[p]
    BY <1>4, <1>5, OthersKept
  <1>6. ASSUME NEW p \in Shared \cup {"SchedulerState"}, p = calls[t].path, There(p)'
        PROVE  znodes'[p].owner = Persistent
    <2>1. There(p) => znodes[p].owner = Persistent /\ znodes[p] \in Znode
      BY <1>6 DEF Inv, SharedInv, MmInv, MmTypeOK, There
    <2>2. ~calls[t].ephemeral
      BY <1>2, <1>6, PathOf
    <2>3. CASE znodes' = znodes
      BY <1>6, <2>1, <2>3 DEF There
    <2>4. CASE Sets(t)
      <3>1. /\ znodes' = [znodes EXCEPT ![p].data = calls[t].data, ![p].version = @ + 1] /\ There(p)
        BY <1>6, <2>4 DEF Sets
      <3>2. znodes'[p].owner = znodes[p].owner
        BY <2>1, <3>1 DEF There, Znode
      <3>. QED
        BY <2>1, <3>1, <3>2
    <2>5. CASE Creates(t)
      BY <1>6, <2>2, <2>5 DEF Creates, Owner
    <2>6. CASE Deletes(t)
      BY <1>6, <2>6 DEF Deletes, Restrict, There
    <2>. QED
      BY <1>4, <2>3, <2>4, <2>5, <2>6 DEF Touches
  <1>7. ASSUME NEW p \in Shared \cup {"SchedulerState"}, p = calls[t].path, There(p)
        PROVE  There(p)'
    <2>1. ~Deletes(t)
      <3>1. calls[t].op # "delete"
        BY <1>2, <1>7, PathOf
      <3>2. calls[t].pc # "delete"
        BY <1>1, <3>1 DEF RequestsOf, Call
      <3>. QED
        BY <3>2 DEF Deletes
    <2>2. CASE znodes' = znodes
      BY <1>7, <2>2 DEF There
    <2>3. CASE Sets(t)
      BY <1>7, <2>3 DEF Sets, There
    <2>4. CASE Creates(t)
      BY <1>7, <2>4 DEF Creates, There
    <2>. QED
      BY <1>4, <2>1, <2>2, <2>3, <2>4 DEF Touches
  <1>8. SharedInv'
    <2>1. There("SchedulerState")'
      BY <1>5, <1>7 DEF Inv, SharedInv
    <2>2. ASSUME NEW p \in Shared \cup {"SchedulerState"}, There(p)' PROVE znodes'[p].owner = Persistent
      BY <1>5, <1>6, <2>2 DEF Inv, SharedInv
    <2>. QED
      BY <2>1, <2>2 DEF SharedInv
  <1>9. \A p \in Shared : There(p) => There(p)'
    BY <1>5, <1>7
  <1>. QED
    BY <1>2, <1>3, <1>5, <1>8, <1>9

-----------------------------------------------------------------------------
(* Requests *)

\* createIfNotExists: whatever others do, a retry costs a lost answer, but for one.
LEMMA EnsureStep ==
    ASSUME Inv, NEW t \in Threads, Request(t)
    PROVE  EnsureInv(t)'
  <1>1. MmInv /\ calls[t] \in Call /\ CallOK(calls[t]) /\ faults \in Nat /\ EnsureInv(t)
    BY DEF Inv, MmInv, MmTypeOK
  <1>2. CASE calls[t].op # "ensure"
    <2>1. PICK c : Outcome(t, c)
      BY <1>1, RequestOutcome
    <2>2. calls'[t].op # "ensure"
      BY <1>2, <2>1, RequestFrame DEF SameArgs
    <2>. QED
      BY <2>2 DEF EnsureInv
  <1>3. CASE calls[t].op = "ensure"
    <2>1. PICK n \in Nat : n = calls[t].try
      BY <1>1 DEF Call
    <2>2. PICK path : path = calls[t].path
      OBVIOUS
    <2>3. ASSUME NEW c, Outcome(t, c),
                 \/ c.result # "panic" /\ c.pc = "create" /\ c.try <= faults'
                 \/ c.result # "panic" /\ c.pc = "exists" /\ c.try <= faults' + (IF There(path)' THEN 1 ELSE 0)
                 \/ c.result # "panic" /\ c.pc = "idle"
                 \/ c.pc = "idle" /\ faults' >= MaxRetries
          PROVE  EnsureInv(t)'
      <3>1. calls'[t] = c /\ c.path = path
        BY <2>2, <2>3, RequestFrame DEF SameArgs
      <3>. QED
        BY <2>3, <3>1 DEF EnsureInv, There
    <2>4. CASE Exists(t)
      <3>1. PICK c : /\ Outcome(t, c)
                     /\ \/ Answered /\ ~There(calls[t].path) /\ Moved(c, calls[t], "create") /\ c.try = calls[t].try
                        \/ Answered /\ There(calls[t].path) /\ calls[t].op = "ensure" /\ Ended(c, calls[t], "ok")
                        \/ Lost(t) /\ Retried(c, calls[t], "exists")
        BY <1>1, <1>3, <2>4, ExistsOutcome
      <3>2. znodes' = znodes /\ calls[t].pc = "exists"
        BY <1>1, <2>4, ExistsOutcome
      <3>3. n <= faults + (IF There(path) THEN 1 ELSE 0)
        BY <1>1, <1>3, <2>1, <2>2, <3>2 DEF EnsureInv
      <3>4. CASE Answered /\ ~There(calls[t].path) /\ Moved(c, calls[t], "create") /\ c.try = calls[t].try
        <4>1. c.result # "panic" /\ c.pc = "create" /\ c.try <= faults'
          BY <1>1, <2>1, <2>2, <3>3, <3>4 DEF Moved, Answered
        <4>. QED
          BY <2>3, <3>1, <4>1
      <3>5. CASE Ended(c, calls[t], "ok")
        BY <2>3, <3>1, <3>5 DEF Ended
      <3>6. CASE Lost(t) /\ Retried(c, calls[t], "exists")
        <4>1. faults' = faults + 1 /\ (There(path)' <=> There(path))
          BY <3>2, <3>6 DEF Lost, There
        <4>2. CASE c.pc = "exists" /\ c.result = "none" /\ c.try = calls[t].try + 1
          <5>1. c.try <= faults' + (IF There(path)' THEN 1 ELSE 0)
            BY <1>1, <2>1, <3>3, <4>1, <4>2
          <5>. QED
            BY <2>3, <3>1, <4>2, <5>1
        <4>3. CASE c.pc = "idle" /\ calls[t].try >= MaxRetries
          <5>1. faults' >= MaxRetries
            BY <1>1, <2>1, <3>3, <4>1, <4>3, MetadataAssumption
          <5>. QED
            BY <2>3, <3>1, <4>3, <5>1
        <4>. QED
          BY <3>6, <4>2, <4>3 DEF Retried
      <3>. QED
        BY <3>1, <3>4, <3>5, <3>6
    <2>5. CASE Create(t)
      <3>1. PICK c : /\ Outcome(t, c)
                     /\ \/ /\ Creates(t) /\ Written(c, calls[t])
                           /\ \/ c.pc = "idle" /\ c.result = "ok"
                              \/ Lost(t) /\ c.pc = "exists" /\ c.result = "none" /\ c.try = calls[t].try + 1
                              \/ Lost(t) /\ c.pc = "idle" /\ c.result = "panic" /\ calls[t].try >= MaxRetries
                        \/ /\ znodes' = znodes /\ Retried(c, calls[t], "exists")
                           /\ (Lost(t) \/ (Answered /\ There(calls[t].path)))
        BY <1>1, <1>3, <2>5, CreateOutcome
      <3>2. calls[t].pc = "create"
        BY <1>1, <2>5, CreateOutcome
      <3>3. n <= faults
        BY <1>1, <1>3, <2>1, <3>2 DEF EnsureInv
      <3>4. (Lost(t) => faults' = faults + 1) /\ (Answered => faults' = faults)
        BY DEF Lost, Answered
      <3>5. CASE c.pc = "idle" /\ c.result = "ok"
        BY <2>3, <3>1, <3>5
      <3>6. CASE calls[t].try >= MaxRetries /\ c.pc = "idle" /\ (Lost(t) \/ Answered)
        <4>1. faults' >= MaxRetries
          BY <1>1, <2>1, <3>3, <3>4, <3>6, MetadataAssumption
        <4>. QED
          BY <2>3, <3>1, <3>6, <4>1
      <3>7. CASE c.pc = "exists" /\ c.result = "none" /\ c.try = calls[t].try + 1 /\ Lost(t)
        <4>1. c.try <= faults' + (IF There(path)' THEN 1 ELSE 0)
          BY <1>1, <2>1, <3>3, <3>4, <3>7
        <4>. QED
          BY <2>3, <3>1, <3>7, <4>1
      <3>8. CASE /\ c.pc = "exists" /\ c.result = "none" /\ c.try = calls[t].try + 1
                 /\ Answered /\ There(calls[t].path) /\ znodes' = znodes
        <4>1. There(path)'
          BY <2>2, <3>8 DEF There
        <4>2. c.try <= faults' + (IF There(path)' THEN 1 ELSE 0)
          BY <1>1, <2>1, <3>3, <3>4, <3>8, <4>1
        <4>. QED
          BY <2>3, <3>1, <3>8, <4>2
      <3>. QED
        BY <3>1, <3>5, <3>6, <3>7, <3>8 DEF Retried
    <2>6. calls[t].pc \in {"exists", "create"}
      <3>1. PICK c : Outcome(t, c)
        BY <1>1, RequestOutcome
      <3>. QED
        BY <1>3, <3>1 DEF Outcome, RequestsOf
    <2>. QED
      BY <2>4, <2>5, <2>6 DEF Request, Requests, Get, Set, Fetch, Delete
  <1>. QED
    BY <1>2, <1>3

\* The version of the state is a number, and grows.
LEMMA VersionGrows ==
    ASSUME Inv, NEW t \in Threads, Request(t)
    PROVE  /\ Version \in Nat /\ Version' \in Nat /\ Version' >= Version
           /\ calls[t].path = "SchedulerState" /\ Sets(t) =>
                 Version = calls[t].stat /\ Version' = Version + 1 /\ znodes'["SchedulerState"].data = calls[t].data
  <1>1. PICK c : Outcome(t, c)
    BY RequestOutcome DEF Inv
  <1>2. There("SchedulerState") /\ Touches(t) /\ calls[t].pc \in RequestsOf(calls[t].op) /\ calls[t].op # "none"
    BY <1>1, RequestOutcome, RequestFrame DEF Inv, SharedInv, Outcome
  <1>3. znodes["SchedulerState"] \in Znode /\ Version \in Nat
    BY <1>2 DEF Inv, MmInv, MmTypeOK, There, Znode, Version
  <1>4. CASE calls[t].path # "SchedulerState"
    BY <1>2, <1>3, <1>4, OthersKept DEF Version
  <1>5. CASE calls[t].path = "SchedulerState" /\ Sets(t)
    <2>1. /\ znodes' = [znodes EXCEPT !["SchedulerState"].data = calls[t].data, !["SchedulerState"].version = @ + 1]
          /\ "SchedulerState" \in DOMAIN znodes /\ Version = calls[t].stat
      BY <1>2, <1>5 DEF Sets, There, Version
    <2>2. znodes'["SchedulerState"].data = calls[t].data /\ Version' = Version + 1
      BY <1>3, <2>1 DEF Znode, Version
    <2>. QED
      BY <1>3, <2>1, <2>2
  <1>6. CASE calls[t].path = "SchedulerState" /\ ~Sets(t)
    <2>1. calls[t].op # "delete"
      BY <1>2, <1>6, PathOf
    <2>2. calls[t].pc # "delete"
      BY <1>2, <2>1 DEF RequestsOf, Inv, MmInv, MmTypeOK, Call
    <2>3. znodes' = znodes
      BY <1>2, <1>6, <2>2 DEF Touches, Creates, Deletes
    <2>. QED
      BY <1>3, <1>6, <2>3 DEF Version
  <1>. QED
    BY <1>4, <1>5, <1>6

\* SetData of the state: a write that is acknowledged, one whose answer is lost, or
\* none; and a failure counts as one setback more.
LEMMA PersistRequest ==
    ASSUME Inv, NEW t \in Schedulers, Request(t), UNCHANGED asked
    PROVE  /\ PersistInv(t)'
           /\ \E c : /\ Outcome(t, c)
                     /\ \/ znodes' = znodes /\ c.wrote = calls[t].wrote /\ c.result \in {"none", "panic"}
                        \/ Sets(t) /\ c.wrote = calls[t].wrote + 1 /\ Answered /\ c.result = "ok"
                        \/ Sets(t) /\ c.wrote = calls[t].wrote + 1 /\ Lost(t) /\ c.result \in {"none", "panic"}
  <1>1. MmInv /\ t \in Threads /\ There("SchedulerState") /\ PersistInv(t) /\ ProgramInv(t) /\ calls[t] \in Call
    BY CoordinationAssumption DEF Inv, SharedInv, MmInv, MmTypeOK
  <1>2. calls[t].op = "set" /\ calls[t].path = "SchedulerState" /\ calls[t].pc \in {"get", "set"}
    <2>1. PICK c : Outcome(t, c)
      BY <1>1, RequestOutcome
    <2>2. calls[t].pc \in RequestsOf(calls[t].op)
      BY <2>1 DEF Outcome
    <2>3. calls[t].op # "none"
      BY <2>2 DEF RequestsOf
    <2>. QED
      BY <1>1, <2>2, <2>3 DEF ProgramInv, RequestsOf
  <1>3. /\ calls[t].try \in Nat /\ calls[t].stat \in Int /\ calls[t].wrote \in Nat /\ asked[t] \in Nat
        /\ faults \in Nat /\ MaxRetries \in Nat /\ Version \in Nat /\ Version' \in Nat /\ Version' >= Version
        /\ Sets(t) => Version = calls[t].stat /\ Version' = Version + 1
        /\ Setbacks = faults + Version /\ Setbacks' = faults' + Version'
    BY <1>1, <1>2, VersionGrows, MetadataAssumption DEF Inv, MmInv, MmTypeOK, Call, NoStat, Setbacks, Version
  <1>4. (Lost(t) => faults' = faults + 1) /\ (Answered => faults' = faults)
    BY DEF Lost, Answered
  <1>5. PICK n \in Int : n = asked[t] + calls[t].wrote
    BY <1>3
  <1>6. calls[t].pc = "get" => calls[t].try <= Setbacks - n
    BY <1>1, <1>2, <1>3, <1>5 DEF PersistInv
  <1>7. calls[t].pc = "set" => calls[t].stat <= Version /\ calls[t].try <= faults + calls[t].stat - n
    BY <1>1, <1>2, <1>3, <1>5 DEF PersistInv
  <1>8. ASSUME NEW c, Outcome(t, c), c.result = "ok" \/ c.pc = "idle" \/ c.pc = "get" \/ c.pc = "set",
               c.pc = "get" => c.try <= Setbacks' - asked[t] - c.wrote,
               c.pc = "set" => c.stat <= Version' /\ c.try <= faults' + c.stat - asked[t] - c.wrote,
               c.result = "panic" => Setbacks' - asked[t] - c.wrote > MaxRetries
        PROVE  PersistInv(t)'
    <2>1. calls'[t] = c /\ asked'[t] = asked[t]
      BY <1>1, <1>8, RequestFrame
    <2>. QED
      BY <1>8, <2>1 DEF PersistInv
  \* No write: one more lost answer, or another's write, and one more try.
  <1>9. ASSUME NEW c, Outcome(t, c), Retried(c, calls[t], "get"), calls[t].try + 1 <= Setbacks' - n
        PROVE  PersistInv(t)'
    <2>1. c.wrote = calls[t].wrote /\ asked[t] + c.wrote = n /\ faults' \in Nat
      BY <1>1, <1>5, <1>9, CountsStep DEF Retried, Outcome, MmInv
    <2>2. CASE c.pc = "get" /\ c.result = "none" /\ c.try = calls[t].try + 1
      BY <1>3, <1>8, <1>9, <2>1, <2>2
    <2>3. CASE c.pc = "idle" /\ c.result = "panic" /\ calls[t].try >= MaxRetries
      <3>1. Setbacks' - asked[t] - c.wrote > MaxRetries
        BY <1>3, <1>9, <2>1, <2>3
      <3>. QED
        BY <1>8, <1>9, <2>3, <3>1
    <2>. QED
      BY <1>9, <2>2, <2>3 DEF Retried
  <1>10. CASE Get(t)
    <2>1. PICK c : /\ Outcome(t, c)
                   /\ \/ Moved(c, calls[t], "set") /\ Answered /\ c.stat = Version /\ c.try = calls[t].try
                      \/ Retried(c, calls[t], "get") /\ Lost(t)
      BY <1>1, <1>2, <1>10, GetOutcome DEF Version
    <2>2. znodes' = znodes /\ calls[t].pc = "get"
      BY <1>1, <1>10, GetOutcome
    <2>3. Version' = Version
      BY <2>2 DEF Version
    <2>4. CASE Moved(c, calls[t], "set") /\ Answered /\ c.stat = Version /\ c.try = calls[t].try
      <3>1. c.pc = "set" /\ c.result = "none" /\ c.wrote = calls[t].wrote
        BY <2>4 DEF Moved
      <3>2. c.stat <= Version' /\ c.try <= faults' + c.stat - asked[t] - c.wrote
        BY <1>3, <1>4, <1>5, <1>6, <2>2, <2>3, <2>4, <3>1
      <3>. QED
        BY <1>8, <2>1, <2>2, <3>1, <3>2
    <2>5. CASE Retried(c, calls[t], "get") /\ Lost(t)
      <3>1. calls[t].try + 1 <= Setbacks' - n
        BY <1>3, <1>4, <1>6, <2>2, <2>3, <2>5
      <3>. QED
        BY <1>9, <2>1, <2>2, <2>5, <3>1 DEF Retried
    <2>. QED
      BY <2>1, <2>4, <2>5
  <1>11. CASE Set(t)
    <2>1. PICK c : /\ Outcome(t, c)
                   /\ \/ Sets(t) /\ Written(c, calls[t]) /\ Answered /\ c.pc = "idle" /\ c.result = "ok"
                      \/ /\ Sets(t) /\ Written(c, calls[t]) /\ Lost(t)
                         /\ \/ c.pc = "get" /\ c.result = "none" /\ c.try = calls[t].try + 1
                            \/ c.pc = "idle" /\ c.result = "panic" /\ calls[t].try >= MaxRetries
                      \/ /\ znodes' = znodes /\ Retried(c, calls[t], "get")
                         /\ Lost(t) \/ (Answered /\ Version # calls[t].stat)
      BY <1>1, <1>2, <1>11, SetOutcome DEF Version
    <2>2. calls[t].pc = "set"
      BY <1>1, <1>11, SetOutcome
    <2>3. CASE Sets(t) /\ Written(c, calls[t]) /\ Answered /\ c.pc = "idle" /\ c.result = "ok"
      BY <1>8, <2>1, <2>3 DEF Written
    <2>4. CASE /\ Sets(t) /\ Written(c, calls[t]) /\ Lost(t)
               /\ \/ c.pc = "get" /\ c.result = "none" /\ c.try = calls[t].try + 1
                  \/ c.pc = "idle" /\ c.result = "panic" /\ calls[t].try >= MaxRetries
      <3>1. c.wrote = calls[t].wrote + 1
        BY <2>4 DEF Written
      <3>2. calls[t].try + 1 <= Setbacks' - asked[t] - c.wrote
        BY <1>3, <1>4, <1>5, <1>7, <2>2, <2>4, <3>1
      <3>3. /\ c.pc = "get" => c.try <= Setbacks' - asked[t] - c.wrote
            /\ c.result = "panic" => Setbacks' - asked[t] - c.wrote > MaxRetries
        BY <1>3, <1>4, <2>4, <3>1, <3>2
      <3>. QED
        BY <1>8, <2>1, <2>4, <3>1, <3>3
    <2>5. CASE /\ znodes' = znodes /\ Retried(c, calls[t], "get")
               /\ Lost(t) \/ (Answered /\ Version # calls[t].stat)
      <3>1. calls[t].try + 1 <= Setbacks' - n
        <4>1. Version' = Version
          BY <2>5 DEF Version
        <4>2. CASE Lost(t)
          BY <1>3, <1>4, <1>7, <2>2, <4>1, <4>2
        <4>3. CASE Answered /\ Version # calls[t].stat
          BY <1>3, <1>4, <1>7, <2>2, <4>1, <4>3
        <4>. QED
          BY <2>5, <4>2, <4>3
      <3>. QED
        BY <1>9, <2>1, <2>5, <3>1 DEF Retried
    <2>. QED
      BY <2>1, <2>3, <2>4, <2>5
  <1>. QED
    BY <1>2, <1>10, <1>11 DEF Request, Requests, Exists, Create, Fetch, Delete

\* An executor's node is where its own requests have left it.
LEMMA OwnStep ==
    ASSUME Inv, NEW t \in Executors, Request(t), UNCHANGED step
    PROVE  OwnInv(t)'
  <1>1. MmInv /\ t \in Threads /\ ProgramInv(t) /\ OwnInv(t) /\ calls[t] \in Call /\ step[t] \in 0 .. 9
    BY CoordinationAssumption DEF Inv, MmInv, MmTypeOK, ProgramInv
  <1>. SUFFICES ASSUME ProcOf[t] \in up', session'[ProcOf[t]] = 0
                PROVE  /\ step[t] < 7 => ~There(t)'
                       /\ step[t] = 7 =>
                             \/ calls'[t].wrote = 0 /\ ~There(t)' /\ calls'[t].pc = "create"
                             \/ calls'[t].wrote = 1 /\ Own(t, "nil", 0)' /\ calls'[t].pc \in {"create", "fetch", "idle"}
                       /\ step[t] = 8 =>
                             /\ Own(t, IF calls[t].wrote = 0 THEN "nil" ELSE "ports", calls[t].wrote)'
                             /\ calls'[t].pc = "idle" => calls'[t].wrote # 0
    BY DEF OwnInv
  <1>2. ASSUME NEW c, Outcome(t, c)
        PROVE  /\ calls'[t] = c /\ c.result # "panic" /\ calls[t].op # "none"
               /\ calls[t].pc \in RequestsOf(calls[t].op)
    BY <1>1, <1>2, RequestFrame DEF Outcome
  <1>3. ProcOf[t] \in up /\ session[ProcOf[t]] = 0
    <2>1. PICK c : Outcome(t, c)
      BY <1>1, RequestOutcome
    <2>2. /\ up' \subseteq up /\ session'[ProcOf[t]] >= session[ProcOf[t]] /\ session[ProcOf[t]] \in Nat
      BY <1>1, <2>1, RequestFrame, MetadataAssumption DEF MmInv, MmTypeOK
    <2>. QED
      BY <2>2
  <1>4. PICK d : Outcome(t, d)
    BY <1>1, RequestOutcome
  <1>5. znodes' = znodes => /\ There(t)' <=> There(t)
                            /\ Own(t, "nil", 0) => Own(t, "nil", 0)'
    BY DEF There, Own
  <1>6. CASE step[t] < 7
    <2>1. calls[t].path # t
      BY <1>1, <1>2, <1>4, <1>6, CoordinationAssumption DEF ProgramInv, Shared
    <2>2. There(t)' <=> There(t)
      BY <1>1, <1>4, <2>1, RequestFrame
    <2>. QED
      BY <1>1, <1>3, <1>6, <2>2 DEF OwnInv
  <1>7. CASE step[t] = 7
    <2>1. calls[t].op = "make" /\ calls[t].path = t /\ calls[t].data = "nil" /\ calls[t].ephemeral
      BY <1>1, <1>7 DEF ProgramInv
    <2>2. \/ calls[t].wrote = 0 /\ ~There(t) /\ calls[t].pc = "create"
          \/ calls[t].wrote = 1 /\ Own(t, "nil", 0) /\ calls[t].pc \in {"create", "fetch", "idle"}
      BY <1>1, <1>3, <1>7 DEF OwnInv
    <2>3. CASE Create(t)
      <3>1. PICK c : /\ Outcome(t, c)
                     /\ \/ /\ Creates(t) /\ Written(c, calls[t])
                           /\ c.pc \in {"create", "fetch"} \/ c.result = "panic"
                        \/ znodes' = znodes /\ Retried(c, calls[t], "create")
        BY <1>1, <2>1, <2>3, CreateOutcome
      <3>2. calls'[t] = c /\ c.result # "panic"
        BY <1>2, <3>1
      <3>3. CASE znodes' = znodes /\ Retried(c, calls[t], "create")
        <4>1. c.wrote = calls[t].wrote /\ c.pc = "create"
          BY <3>2, <3>3 DEF Retried
        <4>. QED
          BY <1>5, <1>7, <2>2, <3>2, <3>3, <4>1
      <3>4. CASE Creates(t) /\ Written(c, calls[t]) /\ (c.pc \in {"create", "fetch"} \/ c.result = "panic")
        <4>1. ~There(t) /\ calls[t].wrote = 0
          BY <2>1, <2>2, <3>4 DEF Creates, Own
        <4>2. c.wrote = 1
          BY <3>4, <4>1 DEF Written
        <4>3. Owner(t) = <<ProcOf[t], 0>>
          BY <1>3, <2>1 DEF Owner
        <4>4. Own(t, "nil", 0)'
          BY <2>1, <3>4, <4>3 DEF Creates, Own, There
        <4>. QED
          BY <1>7, <3>2, <3>4, <4>2, <4>4
      <3>. QED
        BY <3>1, <3>3, <3>4
    <2>4. CASE Fetch(t)
      <3>1. PICK c : /\ Outcome(t, c)
                     /\ \/ Ended(c, calls[t], "ok")
                        \/ \E e \in {"nonode", "lost"} : Ended(c, calls[t], e)
                        \/ Moved(c, calls[t], "fetch")
        BY <1>1, <2>4, FetchOutcome
      <3>2. znodes' = znodes /\ calls[t].pc = "fetch"
        BY <1>1, <2>4, FetchOutcome
      <3>3. calls'[t] = c /\ c.wrote = calls[t].wrote /\ c.pc \in {"idle", "fetch"}
        BY <1>2, <3>1 DEF Ended, Moved
      <3>. QED
        BY <1>5, <1>7, <2>2, <3>2, <3>3
    <2>5. calls[t].pc \in {"create", "fetch"}
      BY <1>2, <1>4, <2>1 DEF RequestsOf
    <2>. QED
      BY <2>3, <2>4, <2>5 DEF Request, Requests, Exists, Get, Set, Delete
  <1>8. CASE step[t] = 8
    <2>1. calls[t].op = "set" /\ calls[t].path = t /\ calls[t].data = "ports"
      BY <1>1, <1>8 DEF ProgramInv
    <2>2. /\ Own(t, IF calls[t].wrote = 0 THEN "nil" ELSE "ports", calls[t].wrote)
          /\ calls[t].wrote \in Nat
      BY <1>1, <1>3, <1>8 DEF OwnInv, Call
    <2>3. ASSUME NEW c, Outcome(t, c), znodes' = znodes, c.wrote = calls[t].wrote, c.pc # "idle"
          PROVE  /\ Own(t, IF calls[t].wrote = 0 THEN "nil" ELSE "ports", calls[t].wrote)'
                 /\ calls'[t].pc = "idle" => calls'[t].wrote # 0
      <3>1. calls'[t] = c
        BY <1>2, <2>3
      <3>. QED
        BY <2>2, <2>3, <3>1 DEF Own, There
    <2>4. CASE Get(t)
      <3>1. PICK c : /\ Outcome(t, c)
                     /\ Moved(c, calls[t], "set") \/ Retried(c, calls[t], "get")
        BY <1>1, <2>1, <2>4, GetOutcome
      <3>2. znodes' = znodes
        BY <1>1, <2>4, GetOutcome
      <3>3. c.wrote = calls[t].wrote /\ c.pc # "idle"
        BY <1>2, <3>1 DEF Moved, Retried
      <3>. QED
        BY <1>8, <2>3, <3>1, <3>2, <3>3
    <2>5. CASE Set(t)
      <3>1. PICK c : /\ Outcome(t, c)
                     /\ \/ Sets(t) /\ Written(c, calls[t])
                        \/ znodes' = znodes /\ Retried(c, calls[t], "get")
        BY <1>1, <2>1, <2>5, SetOutcome
      <3>2. CASE znodes' = znodes /\ Retried(c, calls[t], "get")
        <4>1. c.wrote = calls[t].wrote /\ c.pc # "idle"
          BY <1>2, <3>1, <3>2 DEF Retried
        <4>. QED
          BY <1>8, <2>3, <3>1, <3>2, <4>1
      <3>3. CASE Sets(t) /\ Written(c, calls[t])
        <4>1. PICK w \in Nat : w = calls[t].wrote
          BY <2>2
        <4>2. calls'[t] = c /\ c.wrote = w + 1 /\ c.wrote # 0
          BY <1>2, <3>1, <3>3, <4>1 DEF Written
        <4>3. PICK name \in {"nil", "ports"} : name = IF w = 0 THEN "nil" ELSE "ports"
          OBVIOUS
        <4>4. PICK z, o : o = <<ProcOf[t], 0>> /\ z = [data |-> name, version |-> w, owner |-> o]
          OBVIOUS
        <4>5. /\ znodes' = [znodes EXCEPT ![t].data = "ports", ![t].version = @ + 1]
              /\ t \in DOMAIN znodes /\ znodes[t] = z
          BY <2>1, <2>2, <3>3, <4>1, <4>3, <4>4 DEF Sets, Own, There
        <4>6. t \in DOMAIN znodes' /\ znodes'[t] = [z EXCEPT !.data = "ports", !.version = @ + 1]
          BY <4>5
        <4>7. znodes'[t] = [data |-> "ports", version |-> w + 1, owner |-> o]
          <5>1. z \in [data : {"nil", "ports"}, version : Nat, owner : {o}] /\ z.version = w
            BY <4>4
          <5>2. PICK y : y = [z EXCEPT !.data = "ports"]
            OBVIOUS
          <5>3. y \in [data : {"nil", "ports"}, version : Nat, owner : {o}] /\ y.version = w /\ y.data = "ports"
            BY <5>1, <5>2
          <5>4. znodes'[t] = [y EXCEPT !.version = w + 1]
            BY <4>6, <5>1, <5>2
          <5>5. [y EXCEPT !.version = w + 1] = [data |-> "ports", version |-> w + 1, owner |-> o]
            BY <5>3
          <5>. QED
            BY <5>4, <5>5
        <4>8. Own(t, IF calls[t].wrote = 0 THEN "nil" ELSE "ports", calls[t].wrote)'
          BY <4>2, <4>4, <4>6, <4>7 DEF Own, There
        <4>. QED
          BY <1>8, <4>2, <4>8
      <3>. QED
        BY <3>1, <3>2, <3>3
    <2>6. calls[t].pc \in {"get", "set"}
      BY <1>2, <1>4, <2>1 DEF RequestsOf
    <2>. QED
      BY <2>4, <2>5, <2>6 DEF Request, Requests, Exists, Create, Fetch, Delete
  <1>9. CASE step[t] = 9
    BY <1>9
  <1>. QED
    BY <1>1, <1>6, <1>7, <1>8, <1>9

\* A request keeps the invariant.
LEMMA RequestKeeps ==
    ASSUME Inv, NEW t \in Threads, Request(t), UNCHANGED <<step, asked>>
    PROVE  Inv'
  <1>1. MmInv'
    BY RequestInv DEF Inv
  <1>2. PICK c : Outcome(t, c)
    BY RequestOutcome DEF Inv
  <1>3. /\ calls[t].op # "none" /\ SameArgs(c, calls[t]) /\ calls'[t] = c
        /\ \A u \in Threads : u # t => calls'[u] = calls[u]
        /\ up' \subseteq up
        /\ \A p \in Procs : session'[p] \in Nat /\ session'[p] >= session[p]
        /\ faults \in Nat /\ faults' \in Nat /\ faults' >= faults
        /\ SharedInv'
        /\ \A p \in Shared : There(p) => There(p)'
        /\ \A u \in Executors : u # calls[t].path => /\ There(u)' <=> There(u)
                                                     /\ There(u) => znodes'[u] = znodes[u]
    BY <1>2, RequestFrame
  <1>4. ASSUME NEW u \in Threads PROVE ProgramInv(u)'
    <2>1. SameArgs(calls'[u], calls[u]) /\ ProgramInv(u)
      BY <1>3 DEF Inv, SameArgs
    <2>. QED
      BY <2>1 DEF ProgramInv, SameArgs
  <1>5. ASSUME NEW u \in Threads PROVE EnsureInv(u)'
    <2>1. CASE u = t
      BY <2>1, EnsureStep
    <2>2. CASE u # t
      <3>1. calls'[u] = calls[u] /\ EnsureInv(u) /\ calls[u] \in Call
        BY <1>3, <2>2 DEF Inv, MmInv, MmTypeOK
      <3>2. PICK n \in Nat : n = calls[u].try
        BY <3>1 DEF Call
      <3>3. PICK path : path = calls[u].path
        OBVIOUS
      <3>4. ASSUME calls[u].op = "ensure" PROVE There(path) => There(path)'
        <4>1. path \in Shared
          BY <3>3, <3>4, CoordinationAssumption DEF Inv, ProgramInv
        <4>. QED
          BY <1>3, <4>1
      <3>5. ASSUME calls[u].op = "ensure"
            PROVE  /\ calls[u].pc = "create" => n <= faults'
                   /\ calls[u].pc = "exists" => n <= faults' + (IF There(path)' THEN 1 ELSE 0)
                   /\ calls[u].result = "panic" => faults' >= MaxRetries
        BY <1>3, <3>1, <3>2, <3>3, <3>4, <3>5, MetadataAssumption DEF EnsureInv
      <3>. QED
        BY <3>1, <3>2, <3>3, <3>5 DEF EnsureInv, There
    <2>. QED
      BY <2>1, <2>2
  <1>6. ASSUME NEW u \in Executors PROVE OwnInv(u)'
    <2>1. CASE u = t
      BY <2>1, OwnStep
    <2>2. CASE u # t
      <3>1. u \in Threads /\ u \notin Shared \cup {"SchedulerState"}
        BY CoordinationAssumption DEF Shared
      <3>2. u # calls[t].path
        BY <1>3, <2>2, <3>1, PathOf
      <3>3. calls'[u] = calls[u] /\ (There(u)' <=> There(u)) /\ (There(u) => znodes'[u] = znodes[u])
        BY <1>3, <2>2, <3>1, <3>2
      <3>4. ProcOf[u] \in up' /\ session'[ProcOf[u]] = 0 => ProcOf[u] \in up /\ session[ProcOf[u]] = 0
        <4>1. ProcOf[u] \in Procs /\ session[ProcOf[u]] \in Nat
          BY <3>1, MetadataAssumption DEF Inv, MmInv, MmTypeOK
        <4>. QED
          BY <1>3, <4>1
      <3>5. OwnInv(u)
        BY DEF Inv
      <3>. QED
        BY <3>3, <3>4, <3>5 DEF OwnInv, Own
    <2>. QED
      BY <2>1, <2>2
  <1>7. ASSUME NEW u \in Schedulers PROVE PersistInv(u)'
    <2>1. PersistInv(u) /\ u \in Threads
      BY CoordinationAssumption DEF Inv
    <2>2. CASE u = t
      BY <2>2, PersistRequest
    <2>3. CASE u # t
      <3>1. /\ calls[u] \in Call /\ calls'[u] = calls[u] /\ asked[u] \in Nat
            /\ Version \in Nat /\ Version' \in Nat /\ Version' >= Version
            /\ Setbacks = faults + Version /\ Setbacks' = faults' + Version'
        BY <1>3, <2>1, <2>3, VersionGrows DEF Inv, MmInv, MmTypeOK, Setbacks, Version
      <3>2. PICK try \in Nat, stat \in Int, wrote \in Nat :
                try = calls[u].try /\ stat = calls[u].stat /\ wrote = calls[u].wrote
        BY <3>1 DEF Call, NoStat
      <3>3. ASSUME calls[u].op = "set"
            PROVE  /\ calls[u].pc = "get" => try <= Setbacks' - asked[u] - wrote
                   /\ calls[u].pc = "set" => stat <= Version' /\ try <= faults' + stat - asked[u] - wrote
                   /\ calls[u].result = "panic" => Setbacks' - asked[u] - wrote > MaxRetries
        <4>1. /\ calls[u].pc = "get" => try <= Setbacks - asked[u] - wrote
              /\ calls[u].pc = "set" => stat <= Version /\ try <= faults + stat - asked[u] - wrote
              /\ calls[u].result = "panic" => Setbacks - asked[u] - wrote > MaxRetries
          BY <2>1, <3>2, <3>3 DEF PersistInv
        <4>. QED
          BY <1>3, <3>1, <4>1, MetadataAssumption
      <3>. QED
        BY <3>1, <3>2, <3>3 DEF PersistInv
    <2>. QED
      BY <2>2, <2>3
  <1>. QED
    BY <1>1, <1>3, <1>4, <1>5, <1>6, <1>7 DEF Inv

-----------------------------------------------------------------------------
(* The other steps *)

\* A call is made: nothing else changes.
LEMMA NewCallKeeps ==
    ASSUME Inv, NEW t \in Threads, NEW c, calls' = [calls EXCEPT ![t] = c], MmInv',
           asked' \in [Schedulers -> Nat], \A u \in Schedulers : u # t => asked'[u] = asked[u],
           UNCHANGED <<znodes, session, up, faults>>, step' = [step EXCEPT ![t] = @ + 1],
           c.op = "ensure" => c.pc = "exists" /\ c.try = 0 /\ c.result = "none",
           ProgramInv(t)',
           t \in Executors => OwnInv(t)',
           t \in Schedulers => PersistInv(t)' /\ step[t] < MaxPersists
    PROVE  Inv'
  <1>1. /\ step \in [Threads -> Nat] /\ calls \in [Threads -> Call] /\ faults \in Nat
        /\ \A u \in Schedulers : step[u] <= MaxPersists /\ u \in Threads
    BY CoordinationAssumption DEF Inv, MmInv, MmTypeOK
  <1>2. /\ step' \in [Threads -> Nat] /\ \A u \in Threads : u # t => step'[u] = step[u] /\ calls'[u] = calls[u]
        /\ step'[t] = step[t] + 1 /\ calls'[t] = c
    BY <1>1
  <1>3. \A u \in Schedulers : step'[u] <= MaxPersists
    BY <1>1, <1>2, CoordinationAssumption
  <1>4. ASSUME NEW u \in Threads PROVE ProgramInv(u)'
    BY <1>2 DEF Inv, ProgramInv
  <1>5. ASSUME NEW u \in Threads PROVE EnsureInv(u)'
    <2>1. CASE u = t
      BY <1>1, <1>2, <2>1 DEF EnsureInv
    <2>2. CASE u # t
      BY <1>2, <2>2 DEF Inv, EnsureInv, There
    <2>. QED
      BY <2>1, <2>2
  <1>6. SharedInv'
    BY DEF Inv, SharedInv, There
  <1>7. ASSUME NEW u \in Executors PROVE OwnInv(u)'
    <2>1. u \in Threads /\ OwnInv(u)
      BY CoordinationAssumption DEF Inv
    <2>. QED
      BY <1>2, <2>1 DEF OwnInv, Own, There
  <1>8. ASSUME NEW u \in Schedulers PROVE PersistInv(u)'
    <2>1. CASE u = t
      BY <2>1
    <2>2. CASE u # t
      BY <1>1, <1>2, <2>2 DEF Inv, PersistInv, Setbacks, Version
    <2>. QED
      BY <2>1, <2>2
  <1>. QED
    BY <1>2, <1>3, <1>4, <1>5, <1>6, <1>7, <1>8 DEF Inv

\* Persist.
LEMMA PersistKeeps ==
    ASSUME Inv, NEW t \in Schedulers, Persist(t)
    PROVE  /\ Inv' /\ UNCHANGED <<znodes, session, up, faults>>
           /\ \E s \in States : calls' = [calls EXCEPT ![t] = NewCall("set", "SchedulerState", s, FALSE)]
  <1>1. PICK s \in States : Calls(t, "set", "SchedulerState", s, FALSE)
    BY DEF Persist
  <1>2. t \in Threads /\ t \notin Executors /\ "SchedulerState" \in Paths /\ s \in Data /\ Idle(t) /\ step[t] < MaxPersists
    BY CoordinationAssumption DEF States, Persist
  <1>. PICK shared \in BOOLEAN : shared = FALSE
    OBVIOUS
  <1>3. PICK c : c = NewCall("set", "SchedulerState", s, shared)
    OBVIOUS
  <1>4. MmInv' /\ calls' = [calls EXCEPT ![t] = c] /\ UNCHANGED <<znodes, session, up, faults>>
    <2>1. Calls(t, "set", "SchedulerState", s, shared)
      BY <1>1, <1>3
    <2>. QED
      BY <1>2, <1>3, <2>1, CallsInv DEF Inv
  <1>5. /\ c.op = "set" /\ c.path = "SchedulerState" /\ c.data = s /\ c.ephemeral = FALSE
        /\ c.pc = FirstRequest["set"] /\ c.try = 0 /\ c.wrote = 0 /\ c.result = "none"
    BY <1>2, <1>3, NewCallStep
  <1>6. calls'[t] = c
    BY <1>2, <1>4 DEF Inv, MmInv, MmTypeOK
  <1>7. step' = [step EXCEPT ![t] = @ + 1]
    BY DEF Persist, Advance
  <1>8. ProgramInv(t)'
    BY <1>2, <1>5, <1>6 DEF ProgramInv
  <1>9. /\ Setbacks \in Nat /\ Setbacks' = Setbacks /\ asked' = [asked EXCEPT ![t] = Setbacks]
        /\ asked' \in [Schedulers -> Nat] /\ asked'[t] = Setbacks
        /\ \A u \in Schedulers : u # t => asked'[u] = asked[u]
    <2>1. znodes["SchedulerState"].version \in Nat /\ faults \in Nat
      BY DEF Inv, SharedInv, There, MmInv, MmTypeOK, Znode
    <2>2. Setbacks \in Nat /\ Setbacks' = Setbacks
      BY <1>4, <2>1 DEF Setbacks
    <2>. QED
      BY <2>2 DEF Inv, Persist
  <1>10. PersistInv(t)'
    BY <1>5, <1>6, <1>9 DEF PersistInv, FirstRequest
  <1>11. Inv'
    BY <1>2, <1>4, <1>5, <1>7, <1>8, <1>9, <1>10, NewCallKeeps
  <1>. QED
    BY <1>3, <1>4, <1>11

\* The next call of an executor.
LEMMA NextCallKeeps ==
    ASSUME Inv, NEW t \in Executors, NextCall(t)
    PROVE  Inv' /\ UNCHANGED <<znodes, session, up, faults>> /\ \A u \in Threads : u # t => calls'[u] = calls[u]
  <1>1. /\ t \in Threads /\ t \notin Schedulers /\ t \in Paths /\ "nil" \in Data /\ "ports" \in Data
        /\ Shared \subseteq Paths /\ Idle(t)
    BY CoordinationAssumption DEF NextCall, Shared
  <1>2. PICK i \in 1 .. 9 : i = step[t] + 1
    <2>1. step[t] \in Nat /\ step[t] < 9
      BY <1>1, Programs DEF Inv, NextCall
    <2>. QED
      BY <2>1
  <1>3. PICK op, path, data, ephemeral :
            /\ op = Program(t)[i].op /\ path = Program(t)[i].path
            /\ data = Program(t)[i].data /\ ephemeral = Program(t)[i].ephemeral
    OBVIOUS
  <1>4. Calls(t, op, path, data, ephemeral) /\ step' = [step EXCEPT ![t] = @ + 1] /\ asked' = asked
    BY <1>2, <1>3 DEF NextCall, Advance
  <1>5. /\ i \in 1 .. 6 => op \in {"ensure", "get"} /\ path \in Shared /\ data = "nil" /\ ephemeral = FALSE
        /\ i = 7 => op = "make" /\ path = t /\ data = "nil" /\ ephemeral = TRUE
        /\ i = 8 => op = "set" /\ path = t /\ data = "ports" /\ ephemeral = FALSE
        /\ i = 9 => op = "delete" /\ path = t /\ data = "nil" /\ ephemeral = FALSE
    <2>1. ASSUME i \in 1 .. 6
          PROVE  op \in {"ensure", "get"} /\ path \in Shared /\ data = "nil" /\ ephemeral = FALSE
      BY <1>3, <2>1, Programs
    <2>2. ASSUME i = 7 PROVE op = "make" /\ path = t /\ data = "nil" /\ ephemeral = TRUE
      <3>1. Program(t)[i] = [op |-> "make", path |-> t, data |-> "nil", ephemeral |-> TRUE]
        BY <2>2, Programs
      <3>. QED
        BY <1>3, <3>1
    <2>3. ASSUME i = 8 PROVE op = "set" /\ path = t /\ data = "ports" /\ ephemeral = FALSE
      <3>1. Program(t)[i] = [op |-> "set", path |-> t, data |-> "ports", ephemeral |-> FALSE]
        BY <2>3, Programs
      <3>. QED
        BY <1>3, <3>1
    <2>4. ASSUME i = 9 PROVE op = "delete" /\ path = t /\ data = "nil" /\ ephemeral = FALSE
      <3>1. Program(t)[i] = [op |-> "delete", path |-> t, data |-> "nil", ephemeral |-> FALSE]
        BY <2>4, Programs
      <3>. QED
        BY <1>3, <3>1
    <2>. QED
      BY <2>1, <2>2, <2>3, <2>4
  <1>6. /\ op \in {"set", "ensure", "make", "put", "get", "delete"} /\ path \in Paths /\ data \in Data
        /\ ephemeral \in BOOLEAN
    <2>1. i \in 1 .. 6 \/ i = 7 \/ i = 8 \/ i = 9
      OBVIOUS
    <2>. QED
      BY <1>1, <1>5, <2>1
  <1>7. PICK c : c = NewCall(op, path, data, ephemeral)
    OBVIOUS
  <1>8. MmInv' /\ calls' = [calls EXCEPT ![t] = c] /\ UNCHANGED <<znodes, session, up, faults>>
    BY <1>1, <1>4, <1>6, <1>7, CallsInv DEF Inv
  <1>9. /\ c.op = op /\ c.path = path /\ c.data = data /\ c.ephemeral = ephemeral
        /\ c.pc = FirstRequest[op] /\ c.try = 0 /\ c.wrote = 0 /\ c.result = "none"
    BY <1>6, <1>7, NewCallStep
  <1>10. /\ calls'[t] = c /\ step'[t] = i
         /\ \A u \in Threads : u # t => calls'[u] = calls[u]
    BY <1>1, <1>2, <1>4, <1>8 DEF Inv, MmInv, MmTypeOK
  <1>11. ProgramInv(t)'
    BY <1>1, <1>5, <1>9, <1>10 DEF ProgramInv
  <1>12. OwnInv(t)'
    <2>. SUFFICES ASSUME ProcOf[t] \in up, session[ProcOf[t]] = 0
                  PROVE  /\ i < 7 => ~There(t)'
                         /\ i = 7 => c.wrote = 0 /\ ~There(t)' /\ c.pc = "create"
                         /\ i = 8 => c.wrote = 0 /\ Own(t, "nil", 0)' /\ c.pc = "get"
      BY <1>8, <1>10 DEF OwnInv
    <2>1. OwnInv(t)
      BY DEF Inv
    <2>2. (There(t)' <=> There(t)) /\ (Own(t, "nil", 0) => Own(t, "nil", 0)')
      BY <1>8 DEF There, Own
    <2>3. PICK n \in Nat : n = step[t]
      BY <1>1 DEF Inv
    <2>4. i <= 7 => ~There(t)
      BY <1>2, <2>1, <2>3 DEF OwnInv
    <2>5. i = 8 => Own(t, "nil", 0)
      BY <1>1, <1>2, <2>1, <2>3 DEF OwnInv, Idle
    <2>. QED
      BY <1>5, <1>9, <2>2, <2>4, <2>5 DEF FirstRequest
  <1>13. op = "ensure" => c.pc = "exists"
    BY <1>9 DEF FirstRequest
  <1>14. asked' \in [Schedulers -> Nat]
    BY <1>4 DEF Inv
  <1>15. Inv'
    BY <1>1, <1>4, <1>8, <1>9, <1>11, <1>12, <1>13, <1>14, NewCallKeeps
  <1>. QED
    BY <1>8, <1>10, <1>15

\* The process ends: its sessions and its znodes do not, yet.
LEMMA CrashKeeps ==
    ASSUME Inv, NEW p, Crash(p), UNCHANGED <<step, asked>>
    PROVE  Inv'
  <1>1. up' \subseteq up /\ UNCHANGED <<znodes, session, faults, calls, step, asked>> /\ MmInv'
    BY CrashInv DEF Inv, Crash
  <1>2. ASSUME NEW t \in Threads PROVE ProgramInv(t)' /\ EnsureInv(t)'
    BY <1>1 DEF Inv, ProgramInv, EnsureInv, There
  <1>3. SharedInv'
    BY <1>1 DEF Inv, SharedInv, There
  <1>4. ASSUME NEW t \in Executors PROVE OwnInv(t)'
    <2>1. OwnInv(t)
      BY DEF Inv
    <2>. QED
      BY <1>1, <2>1 DEF OwnInv, Own, There
  <1>5. ASSUME NEW t \in Schedulers PROVE PersistInv(t)'
    BY <1>1 DEF Inv, PersistInv, Setbacks, Version
  <1>. QED
    BY <1>1, <1>2, <1>3, <1>4, <1>5 DEF Inv

\* A session ends, and takes no shared node with it.
LEMMA ExpireKeeps ==
    ASSUME Inv, NEW s \in Sessions, Expire(s), UNCHANGED <<step, asked>>
    PROVE  /\ Inv' /\ UNCHANGED <<up, faults, calls>>
           /\ znodes'["SchedulerState"] = znodes["SchedulerState"]
  <1>1. /\ MmInv'
        /\ UNCHANGED <<up, faults, calls>>
        /\ \A p \in Procs : session'[p] >= session[p] /\ (p # s[1] => session'[p] = session[p])
        /\ s[1] \in up /\ s[2] = session[s[1]] => session'[s[1]] = session[s[1]] + 1
        /\ \A p : There(p)' <=> (There(p) /\ znodes[p].owner # s)
        /\ \A p : There(p)' => znodes'[p] = znodes[p]
    BY SessionEndsInv DEF Inv, Expire
  <1>2. s # Persistent
    BY MetadataAssumption DEF Sessions, Persistent
  <1>3. ASSUME NEW p \in Shared \cup {"SchedulerState"}
        PROVE  (There(p)' <=> There(p)) /\ (There(p) => znodes'[p] = znodes[p] /\ znodes[p].owner = Persistent)
    BY <1>1, <1>2 DEF Inv, SharedInv
  <1>4. SharedInv'
    BY <1>3 DEF Inv, SharedInv
  <1>5. ASSUME NEW t \in Threads PROVE ProgramInv(t)'
    BY <1>1 DEF Inv, ProgramInv
  <1>6. ASSUME NEW t \in Threads PROVE EnsureInv(t)'
    <2>1. PICK path : path = calls[t].path
      OBVIOUS
    <2>2. ASSUME calls[t].op = "ensure" PROVE There(path)' <=> There(path)
      BY <1>3, <2>1, <2>2, CoordinationAssumption DEF Inv, ProgramInv
    <2>3. EnsureInv(t)
      BY DEF Inv
    <2>. QED
      BY <1>1, <2>1, <2>2, <2>3 DEF EnsureInv, There
  <1>7. ASSUME NEW t \in Executors PROVE OwnInv(t)'
    <2>. SUFFICES ASSUME ProcOf[t] \in up, session'[ProcOf[t]] = 0
                  PROVE  OwnInv(t)'
      BY <1>1 DEF OwnInv
    <2>1. ProcOf[t] \in Procs /\ session[ProcOf[t]] \in Nat /\ OwnInv(t)
      BY MetadataAssumption, CoordinationAssumption DEF Inv, MmInv, MmTypeOK
    <2>2. session[ProcOf[t]] = 0
      BY <1>1, <2>1
    <2>3. s # <<ProcOf[t], 0>>
      BY <1>1, <2>1, <2>2
    <2>4. /\ ~There(t) => ~There(t)'
          /\ \A d, v : There(t) /\ znodes[t] = [data |-> d, version |-> v, owner |-> <<ProcOf[t], 0>>] =>
                There(t)' /\ znodes'[t] = znodes[t]
      BY <1>1, <2>3
    <2>. QED
      BY <1>1, <2>1, <2>2, <2>4 DEF OwnInv, Own
  <1>8. znodes'["SchedulerState"] = znodes["SchedulerState"]
    BY <1>3 DEF Inv, SharedInv
  <1>9. ASSUME NEW t \in Schedulers PROVE PersistInv(t)'
    BY <1>1, <1>8 DEF Inv, PersistInv, Setbacks, Version
  <1>. QED
    BY <1>1, <1>4, <1>5, <1>6, <1>7, <1>8, <1>9 DEF Inv

-----------------------------------------------------------------------------
(* The invariant *)

\* A framework that has run before, and its processes that have not made a call yet.
LEMMA InitInv == Init => Inv
  <1>. SUFFICES ASSUME Init PROVE Inv
    OBVIOUS
  <1>1. PICK team \in Teams : MmInit(team)
    BY DEF Init
  <1>2. /\ session = [p \in Procs |-> 0] /\ up = team /\ faults = 0 /\ calls = [t \in Threads |-> NoCall]
        /\ znodes = [p \in {"SchedulerState"} |-> [data |-> "empty", version |-> 0, owner |-> Persistent]]
        /\ step = [t \in Threads |-> 0] /\ asked = [t \in Schedulers |-> 0]
    BY <1>1 DEF MmInit, Init
  <1>3. /\ NoCall.op = "none" /\ NoCall.pc = "idle" /\ NoCall.result = "none"
    BY DEF NoCall
  <1>4. NoCall \in Call
    <2>1. 0 \in 0 .. MaxRetries
      BY MetadataAssumption
    <2>. QED
      BY <2>1 DEF NoCall, Call, Result, NoStat
  <1>5. MmInv
    <2>1. DOMAIN znodes \subseteq Paths /\ \A p \in DOMAIN znodes : znodes[p] \in Znode
      BY <1>2, CoordinationAssumption DEF Znode, Persistent
    <2>2. session \in [Procs -> 0 .. MaxSessions] /\ faults \in 0 .. MaxFaults
      BY <1>2, MetadataAssumption
    <2>3. up \subseteq Procs /\ calls \in [Threads -> Call]
      BY <1>1, <1>2, <1>4, CoordinationAssumption
    <2>4. \A t \in Threads : calls[t] = NoCall
      BY <1>2
    <2>5. MmTypeOK
      BY <2>1, <2>2, <2>3 DEF MmTypeOK
    <2>. QED
      BY <1>3, <2>4, <2>5 DEF MmInv, CallOK
  <1>6. SharedInv
    BY <1>2, CoordinationAssumption DEF SharedInv, There
  <1>7. ASSUME NEW t \in Threads PROVE calls[t].op = "none" /\ step[t] = 0
    BY <1>2, <1>3
  <1>8. ASSUME NEW t \in Threads PROVE ProgramInv(t) /\ EnsureInv(t)
    BY <1>7 DEF ProgramInv, EnsureInv
  <1>9. ASSUME NEW t \in Executors PROVE OwnInv(t)
    <2>1. ~There(t) /\ step[t] = 0
      BY <1>2, CoordinationAssumption DEF There
    <2>. QED
      BY <2>1 DEF OwnInv
  <1>10. ASSUME NEW t \in Schedulers PROVE PersistInv(t) /\ step[t] <= MaxPersists
    <2>1. t \in Threads /\ calls[t].op = "none" /\ step[t] = 0
      BY <1>7, CoordinationAssumption
    <2>. QED
      BY <2>1, CoordinationAssumption DEF PersistInv
  <1>. QED
    BY <1>2, <1>5, <1>6, <1>8, <1>9, <1>10 DEF Inv

\* Every step keeps it.
LEMMA StepInv == Inv /\ [Next]_vars => Inv'
  <1>. SUFFICES ASSUME Inv, [Next]_vars PROVE Inv'
    OBVIOUS
  <1>1. ASSUME NEW t \in Threads, Request(t) /\ UNCHANGED <<step, asked>> PROVE Inv'
    BY <1>1, RequestKeeps
  <1>2. ASSUME NEW t \in Threads, CallerPanics(t) PROVE Inv'
    <2>1. PICK p : p = ProcOf[t]
      OBVIOUS
    <2>2. Crash(p) /\ UNCHANGED <<step, asked>>
      BY <1>2, <2>1 DEF CallerPanics
    <2>. QED
      BY <2>2, CrashKeeps
  <1>3. ASSUME NEW t \in Schedulers, Persist(t) PROVE Inv'
    BY <1>3, PersistKeeps
  <1>4. ASSUME NEW t \in Executors, NextCall(t) PROVE Inv'
    BY <1>4, NextCallKeeps
  <1>5. ASSUME NEW s \in Sessions, Expire(s) /\ UNCHANGED <<step, asked>> PROVE Inv'
    BY <1>5, ExpireKeeps
  <1>6. ASSUME NEW p \in Procs, Crash(p) /\ UNCHANGED <<step, asked>> PROVE Inv'
    BY <1>6, CrashKeeps
  <1>7. CASE UNCHANGED vars
    BY <1>7 DEF vars, mmVars, Inv, MmInv, MmTypeOK, ProgramInv, EnsureInv, SharedInv, OwnInv, Own, PersistInv, There, Setbacks, Version
  <1>. QED
    BY <1>1, <1>2, <1>3, <1>4, <1>5, <1>6, <1>7 DEF Next

\* It holds in every state.
LEMMA Invariant == Spec => []Inv
  BY InitInv, StepInv, PTL DEF Spec

\* The calls of schedulers and executors are well typed, and none is tried more than
\* MaxRetries times (metadata_manager/manager.go).
THEOREM CoordinationTypes == Spec => []TypeOK
  <1>1. Inv => TypeOK
    <2>. SUFFICES ASSUME Inv PROVE TypeOK
      OBVIOUS
    <2>1. ASSUME NEW t \in Executors PROVE step[t] <= Len(Program(t))
      <3>1. step[t] \in 0 .. 9
        BY CoordinationAssumption DEF Inv, ProgramInv
      <3>2. Len(Program(t)) = 9
        BY Programs
      <3>. QED
        BY <3>1, <3>2
    <2>. QED
      BY <2>1 DEF Inv, MmInv, TypeOK
  <1>. QED
    BY <1>1, Invariant, PTL

\* No one who makes a shared node gives up (createIfNotExists), unless as many answers
\* were lost as there are retries: the races alone stop no one, however many there are.
THEOREM EnsureToleratesSafe == Spec => []EnsureTolerates
  <1>1. Inv => EnsureTolerates
    <2>. SUFFICES ASSUME Inv, NEW t \in Threads, calls[t].op = "ensure", calls[t].result = "panic", faults < MaxRetries
                  PROVE  FALSE
      BY DEF EnsureTolerates
    <2>1. EnsureInv(t) /\ faults \in Nat
      BY DEF Inv, MmInv, MmTypeOK
    <2>. QED
      BY <2>1, MetadataAssumption DEF EnsureInv
  <1>. QED
    BY <1>1, Invariant, PTL

\* An executor whose makeNode or SetData has returned owns its node, with what it wrote
\* last, for as long as its session lasts.
THEOREM MadeNodeIsOwnSafe == Spec => []MadeNodeIsOwn
  <1>1. Inv => MadeNodeIsOwn
    <2>. SUFFICES ASSUME Inv, NEW t \in Executors, OwnNode(t), session[ProcOf[t]] = 0, ProcOf[t] \in up
                  PROVE  /\ There(t)
                         /\ znodes[t] = [data |-> calls[t].data,
                                         version |-> calls[t].wrote - (IF calls[t].op = "make" THEN 1 ELSE 0),
                                         owner |-> <<ProcOf[t], 0>>]
      BY DEF MadeNodeIsOwn
    <2>1. t \in Threads /\ ProgramInv(t) /\ OwnInv(t) /\ CallOK(calls[t]) /\ step[t] \in 0 .. 9
      BY CoordinationAssumption DEF Inv, MmInv, ProgramInv
    <2>2. calls[t].op \in {"make", "set"} /\ calls[t].result = "ok" /\ calls[t].pc = "idle"
      BY <2>1 DEF OwnNode, CallOK
    <2>3. \/ step[t] = 7 /\ calls[t].op = "make" /\ calls[t].data = "nil"
          \/ step[t] = 8 /\ calls[t].op = "set" /\ calls[t].data = "ports"
      <3>1. step[t] = 0 \/ step[t] \in 1 .. 6 \/ step[t] = 7 \/ step[t] = 8 \/ step[t] = 9
        BY <2>1
      <3>. QED
        BY <2>1, <2>2, <3>1 DEF ProgramInv
    <2>4. CASE calls[t].op = "make"
      <3>1. calls[t].wrote = 1 /\ Own(t, "nil", 0) /\ calls[t].data = "nil"
        BY <2>1, <2>2, <2>3, <2>4 DEF OwnInv
      <3>. QED
        BY <2>4, <3>1 DEF Own
    <2>5. CASE calls[t].op = "set"
      <3>1. calls[t].wrote # 0 /\ Own(t, "ports", calls[t].wrote) /\ calls[t].data = "ports" /\ calls[t].wrote \in Nat
        BY <2>1, <2>2, <2>3, <2>5 DEF OwnInv, Inv, MmInv, MmTypeOK, Call
      <3>. QED
        BY <2>5, <3>1 DEF Own
    <2>. QED
      BY <2>2, <2>4, <2>5
  <1>. QED
    BY <1>1, Invariant, PTL

\* A scheduler that gives a Persist up has had more than MaxRetries setbacks during it:
\* lost answers, and writes of other schedulers (SetDataWithRetry).
THEOREM PersistToleratesSafe == Spec => []PersistTolerates
  <1>1. Inv => PersistTolerates
    BY DEF Inv, PersistInv, PersistTolerates
  <1>. QED
    BY <1>1, Invariant, PTL

-----------------------------------------------------------------------------
(* Persist is a write to a register *)

Arg(t) == IF calls[t].op = "set" THEN calls[t].data ELSE "empty"
PhaseOf == [t \in Schedulers |-> Phase(t)]
ArgOf == [t \in Schedulers |-> Arg(t)]
Value == znodes["SchedulerState"].data

\* What the register looks like to a scheduler.
LEMMA PhaseIs ==
    ASSUME NEW t
    PROVE  /\ calls[t].op # "set" => Phase(t) = "idle"
           /\ calls[t].op = "set" /\ calls[t].result = "ok" => Phase(t) = "ok"
           /\ calls[t].op = "set" /\ calls[t].result # "ok" =>
                 Phase(t) = IF ProcOf[t] \notin up THEN "failed" ELSE IF calls[t].wrote = 0 THEN "asked" ELSE "applied"
           /\ calls'[t].op = "set" /\ calls'[t].result = "ok" => Phase(t)' = "ok"
           /\ calls'[t].op = "set" /\ calls'[t].result # "ok" =>
                 Phase(t)' = IF ProcOf[t] \notin up' THEN "failed" ELSE IF calls'[t].wrote = 0 THEN "asked" ELSE "applied"
  BY DEF Phase

\* A scheduler whose call and process are as they were.
LEMMA PhaseKept ==
    ASSUME NEW t, calls'[t] = calls[t], ProcOf[t] \in up' <=> ProcOf[t] \in up
    PROVE  Phase(t)' = Phase(t) /\ Arg(t)' = Arg(t)
  BY DEF Phase, Arg

\* One scheduler's step.
LEMMA OneMoves ==
    ASSUME NEW w \in Schedulers, \A u \in Schedulers : u # w => Phase(u)' = Phase(u) /\ Arg(u)' = Arg(u)
    PROVE  PhaseOf' = [PhaseOf EXCEPT ![w] = Phase(w)'] /\ ArgOf' = [ArgOf EXCEPT ![w] = Arg(w)']
  BY DEF PhaseOf, ArgOf

\* A step that no scheduler takes, and that leaves the state alone.
LEMMA NoneMoves ==
    ASSUME \A u \in Schedulers : Phase(u)' = Phase(u) /\ Arg(u)' = Arg(u), Value' = Value
    PROVE  UNCHANGED <<Value, PhaseOf, ArgOf>>
  BY DEF PhaseOf, ArgOf

\* A step that asks for a write, seen from the register.
LEMMA Asks ==
    ASSUME NEW w \in Schedulers, \A u \in Schedulers : u # w => Phase(u)' = Phase(u) /\ Arg(u)' = Arg(u),
           Phase(w) \in {"idle", "ok"}, Phase(w)' = "asked", Arg(w)' \in States, Value' = Value, faults' = faults
    PROVE  State!Next
  <1>1. PhaseOf' = [PhaseOf EXCEPT ![w] = "asked"] /\ PhaseOf[w] \in {"idle", "ok"}
    BY OneMoves DEF PhaseOf
  <1>2. \E v \in States : ArgOf' = [ArgOf EXCEPT ![w] = v]
    BY OneMoves
  <1>3. State!Ask(w)
    BY <1>1, <1>2 DEF State!Ask, PhaseOf, ArgOf, Arg, Value
  <1>. QED
    BY <1>3 DEF State!Next

\* One in which the write takes effect and is acknowledged.
LEMMA Acknowledges ==
    ASSUME NEW w \in Schedulers, \A u \in Schedulers : u # w => Phase(u)' = Phase(u) /\ Arg(u)' = Arg(u),
           Phase(w) \in {"asked", "applied"}, Phase(w)' = "ok", Arg(w)' = Arg(w), Value' = Arg(w), faults' = faults
    PROVE  State!Next
  <1>1. PhaseOf[w] \in {"asked", "applied"} /\ PhaseOf' = [PhaseOf EXCEPT ![w] = "ok"]
    BY OneMoves DEF PhaseOf
  <1>2. ArgOf' = ArgOf /\ Value' = ArgOf[w]
    BY DEF ArgOf
  <1>3. State!Acknowledge(w)
    BY <1>1, <1>2 DEF State!Acknowledge, State!Pending, PhaseOf, ArgOf, Arg, Value
  <1>. QED
    BY <1>3 DEF State!Next

\* One in which it takes effect, and its answer is lost.
LEMMA Applies ==
    ASSUME NEW w \in Schedulers, \A u \in Schedulers : u # w => Phase(u)' = Phase(u) /\ Arg(u)' = Arg(u),
           Phase(w) \in {"asked", "applied"}, Phase(w)' \in {"applied", "failed"}, Arg(w)' = Arg(w),
           Value' = Arg(w), faults' = faults + 1
    PROVE  State!Next
  <1>1. PhaseOf[w] \in {"asked", "applied"} /\ \E p \in {"applied", "failed"} : PhaseOf' = [PhaseOf EXCEPT ![w] = p]
    BY OneMoves DEF PhaseOf
  <1>2. ArgOf' = ArgOf /\ Value' = ArgOf[w]
    BY DEF ArgOf
  <1>3. State!Apply(w)
    BY <1>1, <1>2 DEF State!Apply, State!Pending, PhaseOf, ArgOf, Arg, Value
  <1>. QED
    BY <1>3 DEF State!Next

\* One in which the writer gives up.
LEMMA Fails ==
    ASSUME NEW w \in Schedulers, \A u \in Schedulers : u # w => Phase(u)' = Phase(u) /\ Arg(u)' = Arg(u),
           Phase(w) \in {"asked", "applied"}, Phase(w)' = "failed", Arg(w)' = Arg(w), Value' = Value,
           faults' \in {faults, faults + 1}
    PROVE  State!Next
  <1>1. PhaseOf' = [PhaseOf EXCEPT ![w] = "failed"] /\ PhaseOf[w] \in {"asked", "applied"}
    BY OneMoves DEF PhaseOf
  <1>2. ArgOf' = ArgOf
    BY DEF ArgOf
  <1>3. State!Fail(w)
    BY <1>1, <1>2 DEF State!Fail, State!Pending, PhaseOf, ArgOf, Arg, Value
  <1>. QED
    BY <1>3 DEF State!Next

\* And one of which the register shows a lost answer at most.
LEMMA Stutters ==
    ASSUME \A u \in Schedulers : Phase(u)' = Phase(u) /\ Arg(u)' = Arg(u), Value' = Value,
           faults' \in {faults, faults + 1}
    PROVE  [State!Next]_(State!regVars)
  <1>1. UNCHANGED <<Value, PhaseOf, ArgOf>>
    BY NoneMoves
  <1>2. CASE faults' = faults
    BY <1>1, <1>2 DEF State!regVars, PhaseOf, ArgOf, Arg, Value
  <1>3. CASE faults' = faults + 1
    <2>1. State!Lose
      BY <1>1, <1>3 DEF State!Lose, PhaseOf, ArgOf, Arg, Value
    <2>. QED
      BY <2>1 DEF State!Next
  <1>. QED
    BY <1>2, <1>3

\* A request of SetData: the write takes effect, or the process panics, or nothing
\* happens that the register would show.
LEMMA SchedulerRequestShown ==
    ASSUME Inv, NEW t \in Schedulers, Request(t), UNCHANGED asked
    PROVE  [State!Next]_(State!regVars)
  <1>1. PICK c : /\ Outcome(t, c)
                 /\ \/ znodes' = znodes /\ c.wrote = calls[t].wrote /\ c.result \in {"none", "panic"}
                    \/ Sets(t) /\ c.wrote = calls[t].wrote + 1 /\ Answered /\ c.result = "ok"
                    \/ Sets(t) /\ c.wrote = calls[t].wrote + 1 /\ Lost(t) /\ c.result \in {"none", "panic"}
    BY PersistRequest
  <1>2. t \in Threads /\ ProgramInv(t) /\ CallOK(calls[t]) /\ calls[t].wrote \in Nat
    BY CoordinationAssumption DEF Inv, MmInv, MmTypeOK, Call
  <1>3. /\ calls'[t] = c /\ SameArgs(c, calls[t]) /\ calls[t].op = "set" /\ calls[t].path = "SchedulerState"
        /\ \A u \in Threads : u # t => calls'[u] = calls[u]
    BY <1>1, <1>2, RequestFrame DEF ProgramInv
  <1>4. calls[t].result = "none" /\ ProcOf[t] \in up /\ up' = IF c.result = "panic" THEN up \ {ProcOf[t]} ELSE up
    BY <1>1, <1>2, <1>3 DEF Outcome, CallOK, RequestsOf
  <1>5. \A u \in Schedulers : u # t => Phase(u)' = Phase(u) /\ Arg(u)' = Arg(u)
    <2>. SUFFICES ASSUME NEW u \in Schedulers, u # t PROVE Phase(u)' = Phase(u) /\ Arg(u)' = Arg(u)
      OBVIOUS
    <2>1. calls'[u] = calls[u] /\ ProcOf[u] # ProcOf[t]
      BY <1>2, <1>3, CoordinationAssumption
    <2>2. ProcOf[u] \in up' <=> ProcOf[u] \in up
      BY <1>4, <2>1
    <2>. QED
      BY <2>1, <2>2, PhaseKept
  <1>6. Arg(t)' = Arg(t)
    BY <1>3 DEF Arg, SameArgs
  <1>7. Phase(t) = IF calls[t].wrote = 0 THEN "asked" ELSE "applied"
    BY <1>3, <1>4, PhaseIs
  <1>8. Phase(t)' = IF c.result = "ok" THEN "ok" ELSE IF c.result = "panic" THEN "failed"
                    ELSE IF c.wrote = 0 THEN "asked" ELSE "applied"
    <2>1. c.op = "set"
      BY <1>3 DEF SameArgs
    <2>. QED
      BY <1>3, <1>4, <2>1, PhaseIs
  <1>9. (Lost(t) => faults' = faults + 1) /\ (Answered => faults' = faults) /\ faults' \in {faults, faults + 1}
    BY <1>1 DEF Lost, Answered, Outcome
  <1>10. CASE znodes' = znodes /\ c.wrote = calls[t].wrote /\ c.result \in {"none", "panic"}
    <2>1. Value' = Value
      BY <1>10 DEF Value
    <2>2. CASE c.result = "none"
      <3>1. Phase(t)' = Phase(t)
        BY <1>7, <1>8, <1>10, <2>2
      <3>. QED
        BY <1>5, <1>6, <1>9, <2>1, <3>1, Stutters
    <2>3. CASE c.result = "panic"
      <3>1. Phase(t) \in {"asked", "applied"} /\ Phase(t)' = "failed"
        BY <1>7, <1>8, <2>3
      <3>. QED
        BY <1>5, <1>6, <1>9, <2>1, <3>1, Fails
    <2>. QED
      BY <1>10, <2>2, <2>3
  <1>11. ASSUME Sets(t) PROVE Value' = Arg(t)
    BY <1>2, <1>3, <1>11, VersionGrows DEF Value, Arg
  <1>12. CASE Sets(t) /\ c.wrote = calls[t].wrote + 1 /\ Answered /\ c.result = "ok"
    <2>1. Phase(t) \in {"asked", "applied"} /\ Phase(t)' = "ok"
      BY <1>7, <1>8, <1>12
    <2>. QED
      BY <1>5, <1>6, <1>9, <1>11, <1>12, <2>1, Acknowledges
  <1>13. CASE Sets(t) /\ c.wrote = calls[t].wrote + 1 /\ Lost(t) /\ c.result \in {"none", "panic"}
    <2>1. Phase(t) \in {"asked", "applied"} /\ Phase(t)' \in {"applied", "failed"}
      BY <1>2, <1>7, <1>8, <1>13
    <2>. QED
      BY <1>5, <1>6, <1>9, <1>11, <1>13, <2>1, Applies
  <1>. QED
    BY <1>1, <1>10, <1>12, <1>13

\* An executor's requests do not touch the state.
LEMMA ExecutorRequestShown ==
    ASSUME Inv, NEW t \in Executors, Request(t)
    PROVE  [State!Next]_(State!regVars)
  <1>1. PICK c : Outcome(t, c)
    BY RequestOutcome, CoordinationAssumption DEF Inv
  <1>2. t \in Threads /\ t \notin Schedulers /\ ProgramInv(t) /\ There("SchedulerState") /\ Touches(t)
    BY RequestOutcome, CoordinationAssumption DEF Inv, SharedInv
  <1>3. calls[t].op # "none" /\ \A u \in Threads : u # t => calls'[u] = calls[u]
    BY <1>1, <1>2, RequestFrame
  <1>4. calls[t].path # "SchedulerState"
    BY <1>2, <1>3, CoordinationAssumption DEF ProgramInv, Shared
  <1>5. Value' = Value
    BY <1>2, <1>4, OthersKept DEF Value
  <1>6. ASSUME NEW u \in Schedulers PROVE Phase(u)' = Phase(u) /\ Arg(u)' = Arg(u)
    <2>1. calls'[u] = calls[u] /\ ProcOf[u] # ProcOf[t]
      BY <1>2, <1>3, CoordinationAssumption
    <2>2. ProcOf[u] \in up' <=> ProcOf[u] \in up
      BY <1>1, <2>1 DEF Outcome
    <2>. QED
      BY <2>1, <2>2, PhaseKept
  <1>7. faults' \in {faults, faults + 1}
    BY <1>1 DEF Outcome, Answered, Lost
  <1>. QED
    BY <1>5, <1>6, <1>7, Stutters

\* Persist asks for a write.
LEMMA PersistShown ==
    ASSUME Inv, NEW t \in Schedulers, Persist(t)
    PROVE  State!Next
  <1>1. PICK s \in States : calls' = [calls EXCEPT ![t] = NewCall("set", "SchedulerState", s, FALSE)]
    BY PersistKeeps
  <1>2. UNCHANGED <<znodes, session, up, faults>>
    BY PersistKeeps
  <1>3. /\ t \in Threads /\ calls \in [Threads -> Call] /\ CallOK(calls[t])
        /\ ProcOf[t] \in up /\ calls[t].pc = "idle" /\ Succeeded(t) /\ ProgramInv(t)
    BY CoordinationAssumption DEF Inv, MmInv, MmTypeOK, Persist, Idle
  <1>. PICK shared \in BOOLEAN : shared = FALSE
    OBVIOUS
  <1>4. PICK c : c = NewCall("set", "SchedulerState", s, shared)
    OBVIOUS
  <1>5. c.op = "set" /\ c.data = s /\ c.wrote = 0 /\ c.result = "none"
    BY <1>4, NewCallStep, CoordinationAssumption DEF States
  <1>6. calls'[t] = c /\ \A u \in Threads : u # t => calls'[u] = calls[u]
    BY <1>1, <1>3, <1>4
  <1>7. \A u \in Schedulers : u # t => Phase(u)' = Phase(u) /\ Arg(u)' = Arg(u)
    BY <1>2, <1>6, PhaseKept, CoordinationAssumption
  <1>8. Phase(t) \in {"idle", "ok"}
    <2>1. calls[t].op = "set" => calls[t].result = "ok"
      BY <1>3 DEF Succeeded, CallOK, RequestsOf
    <2>. QED
      BY <2>1, PhaseIs
  <1>9. Phase(t)' = "asked"
    BY <1>2, <1>3, <1>5, <1>6, PhaseIs
  <1>10. Arg(t)' \in States
    BY <1>5, <1>6 DEF Arg
  <1>11. Value' = Value
    BY <1>2 DEF Value
  <1>. QED
    BY <1>2, <1>7, <1>8, <1>9, <1>10, <1>11, Asks

\* A process that ends fails the write it was at, if it was at one.
LEMMA CrashShown ==
    ASSUME Inv, NEW p, Crash(p)
    PROVE  [State!Next]_(State!regVars)
  <1>1. up' = up \ {p} /\ UNCHANGED <<znodes, calls, faults>>
    BY DEF Crash
  <1>2. Value' = Value
    BY <1>1 DEF Value
  <1>3. ASSUME NEW u \in Schedulers, ProcOf[u] # p PROVE Phase(u)' = Phase(u) /\ Arg(u)' = Arg(u)
    BY <1>1, <1>3, PhaseKept
  <1>4. CASE \A u \in Schedulers : ProcOf[u] # p
    BY <1>1, <1>2, <1>3, <1>4, Stutters
  <1>5. CASE \E u \in Schedulers : ProcOf[u] = p
    <2>1. PICK t \in Schedulers : ProcOf[t] = p
      BY <1>5
    <2>2. \A u \in Schedulers : u # t => Phase(u)' = Phase(u) /\ Arg(u)' = Arg(u)
      BY <1>3, <2>1, CoordinationAssumption
    <2>3. Arg(t)' = Arg(t)
      BY <1>1 DEF Arg
    <2>4. CASE calls[t].op = "set" /\ calls[t].result # "ok"
      <3>1. Phase(t) \in {"asked", "applied"} /\ Phase(t)' = "failed"
        BY <1>1, <2>1, <2>4, PhaseIs DEF Crash
      <3>. QED
        BY <1>1, <1>2, <2>2, <2>3, <3>1, Fails
    <2>5. CASE ~(calls[t].op = "set" /\ calls[t].result # "ok")
      <3>1. Phase(t)' = Phase(t)
        BY <1>1, <2>5 DEF Phase
      <3>. QED
        BY <1>1, <1>2, <2>2, <2>3, <3>1, Stutters
    <2>. QED
      BY <2>4, <2>5
  <1>. QED
    BY <1>4, <1>5

\* Every step of the schedulers and executors is one of the register, or none.
LEMMA RegisterStep == Inv /\ [Next]_vars => [State!Next]_(State!regVars)
  <1>. SUFFICES ASSUME Inv, [Next]_vars PROVE [State!Next]_(State!regVars)
    OBVIOUS
  <1>1. ASSUME NEW t \in Threads, Request(t) /\ UNCHANGED <<step, asked>> PROVE [State!Next]_(State!regVars)
    BY <1>1, SchedulerRequestShown, ExecutorRequestShown, CoordinationAssumption
  <1>2. ASSUME NEW t \in Threads, CallerPanics(t) PROVE [State!Next]_(State!regVars)
    <2>1. PICK p : p = ProcOf[t]
      OBVIOUS
    <2>2. Crash(p)
      BY <1>2, <2>1 DEF CallerPanics
    <2>. QED
      BY <2>2, CrashShown
  <1>3. ASSUME NEW t \in Schedulers, Persist(t) PROVE State!Next
    BY <1>3, PersistShown
  <1>4. ASSUME calls' = calls, up' = up, Value' = Value, faults' = faults PROVE [State!Next]_(State!regVars)
    BY <1>4, PhaseKept, Stutters
  <1>5. ASSUME NEW t \in Executors, NextCall(t) PROVE [State!Next]_(State!regVars)
    <2>1. UNCHANGED <<znodes, up, faults>> /\ \A u \in Threads : u # t => calls'[u] = calls[u]
      BY <1>5, NextCallKeeps
    <2>2. Value' = Value /\ \A u \in Schedulers : u \in Threads /\ u # t
      BY <2>1, CoordinationAssumption DEF Value
    <2>3. ASSUME NEW u \in Schedulers PROVE Phase(u)' = Phase(u) /\ Arg(u)' = Arg(u)
      BY <2>1, <2>2, PhaseKept
    <2>. QED
      BY <2>1, <2>2, <2>3, Stutters
  <1>6. ASSUME NEW s \in Sessions, Expire(s) /\ UNCHANGED <<step, asked>> PROVE [State!Next]_(State!regVars)
    <2>1. UNCHANGED <<up, calls, faults>> /\ Value' = Value
      BY <1>6, ExpireKeeps DEF Value
    <2>. QED
      BY <1>4, <2>1
  <1>7. ASSUME NEW p \in Procs, Crash(p) PROVE [State!Next]_(State!regVars)
    BY <1>7, CrashShown
  <1>8. CASE UNCHANGED vars
    <2>1. UNCHANGED <<up, calls, faults>> /\ Value' = Value
      BY <1>8 DEF vars, mmVars, Value
    <2>. QED
      BY <1>4, <2>1
  <1>. QED
    BY <1>1, <1>2, <1>3, <1>5, <1>6, <1>7, <1>8 DEF Next

\* However many schedulers persist at the same time, with whatever answers lost, the
\* state in ZooKeeper is the register of Register.tla: a Persist takes effect when it is
\* acknowledged, before that at most once for every lost answer, and never after it has
\* failed (SchedulerState.Persist, SetData).
THEOREM PersistIsRegisterSafe == Spec => PersistIsRegister
  <1>1. Init => State!Init
    <2>. SUFFICES ASSUME Init PROVE State!Init
      OBVIOUS
    <2>1. znodes["SchedulerState"].data = "empty" /\ calls = [t \in Threads |-> NoCall] /\ faults = 0
      BY DEF Init, MmInit
    <2>2. "empty" \in States
      BY CoordinationAssumption DEF States
    <2>3. ASSUME NEW t \in Schedulers PROVE calls[t].op = "none"
      BY <2>1, CoordinationAssumption DEF NoCall
    <2>4. PhaseOf = [t \in Schedulers |-> "idle"]
      BY <2>3 DEF PhaseOf, Phase
    <2>5. ArgOf \in [Schedulers -> States]
      BY <2>2, <2>3 DEF ArgOf, Arg
    <2>. QED
      BY <2>1, <2>2, <2>4, <2>5 DEF State!Init, PhaseOf, ArgOf, Arg
  <1>. QED
    BY <1>1, Invariant, RegisterStep, PTL DEF Spec, PersistIsRegister, State!Spec
=============================================================================
