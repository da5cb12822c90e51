-------------------------- MODULE LeadershipProofs ---------------------------
(***************************************************************************)
(* Any number of schedulers, restarted and cut off any number of times:    *)
(* one leads at most, and the URI in ZooKeeper is its own.                 *)
(***************************************************************************)
EXTENDS Leadership, MetadataProofs, SequenceTheorems

\* A scheduler calls for its state alone, and what it reads is data.
CallInv(t) ==
    /\ calls[t].op # "none" => calls[t].path = "SchedulerState"
    /\ calls[t].op = "get" /\ calls[t].result = "ok" => calls[t].got \in Data
    /\ at[t] = "opened" => calls[t].op = "get"

\* A ticket is of the current session, or of an earlier one.
TicketInv(t) == ticket[t][1] = t /\ ticket[t][2] <= session[t]

\* A session is in the queue once.
QueueInv ==
    /\ \A i \in DOMAIN queue : queue[i][2] <= session[queue[i][1]]
    /\ \A i, j \in DOMAIN queue : queue[i] = queue[j] => i = j
    /\ \A t \in up : at[t] \in {"open", "opened", "created", "lock"} => \A i \in DOMAIN queue : queue[i] # Current(t)

\* Whoever was told that it has the lock is first in the queue, while its session lasts.
LockInv(t) ==
    t \in up /\ ticket[t] = Current(t) /\ at[t] \in {"uri", "subscribe", "leading"} =>
        queue # <<>> /\ Head(queue) = ticket[t]

\* The URI stays that of whoever announced it, while its session lasts.
UriInv(t) ==
    t \in up /\ ticket[t] = Current(t) /\ at[t] \in {"subscribe", "leading"} =>
        There("uri") /\ znodes["uri"].owner = ticket[t]

LeTypes ==
    /\ at \in [Procs -> {"open", "opened", "created", "lock", "waiting", "uri", "subscribe", "leading"}]
    /\ memory \in [Procs -> Data]
    /\ ticket \in [Procs -> Sessions]
    /\ queue \in Seq(Sessions)
    /\ issued \in 0 .. Len(Ids)

LeInv ==
    /\ MmInv /\ LeTypes /\ QueueInv
    /\ \A t \in Procs : CallInv(t) /\ TicketInv(t) /\ LockInv(t) /\ UriInv(t)

-----------------------------------------------------------------------------
(* Steps of one scheduler *)

Early == {"open", "opened", "created", "lock"}

\* A session that has not queued yet, or that is new, is not in the queue.
NotQueued(t, n) == \A i \in DOMAIN queue : queue[i] # <<t, n>>

\* What every invariant needs of the constants and of the types.
LEMMA LeBasics ==
    ASSUME LeInv, NEW t \in Procs
    PROVE  /\ t \in Threads /\ ProcOf[t] = t
           /\ calls[t] \in Call /\ session[t] \in Nat /\ ticket[t] \in Sessions /\ ticket[t][2] \in Nat
           /\ ticket[t] = <<t, ticket[t][2]>> /\ ticket[t][2] <= session[t]
           /\ queue \in Seq(Sessions)
  <1>1. t \in Threads /\ ProcOf[t] = t
    BY LeadershipAssumption
  <1>2. calls[t] \in Call /\ session[t] \in Nat
    BY <1>1 DEF LeInv, MmInv, MmTypeOK
  <1>3. ticket[t] \in Procs \X (0 .. MaxSessions) /\ ticket[t][1] = t /\ ticket[t][2] <= session[t] /\ queue \in Seq(Sessions)
    BY DEF LeInv, LeTypes, TicketInv, Sessions
  <1>4. ticket[t][2] \in Nat /\ ticket[t] = <<t, ticket[t][2]>>
    BY <1>3
  <1>. QED
    BY <1>1, <1>2, <1>3, <1>4 DEF Sessions

\* A session that is replaced leaves its ticket behind.
LEMMA TicketKept ==
    ASSUME LeInv, NEW t \in Procs, ticket'[t] = ticket[t], session'[t] \in Nat, session'[t] >= session[t]
    PROVE  /\ TicketInv(t)'
           /\ ticket'[t] = Current(t)' => ticket[t] = Current(t) /\ session'[t] = session[t]
  <1>1. PICK n \in Nat, m \in Nat : n = ticket[t][2] /\ m = session[t]
    BY LeBasics
  <1>2. ticket[t] = <<t, n>> /\ ticket[t][1] = t /\ n <= m
    BY <1>1, LeBasics
  <1>3. PICK k \in Nat : k = session'[t]
    OBVIOUS
  <1>4. TicketInv(t)'
    BY <1>1, <1>2, <1>3 DEF TicketInv
  <1>5. ASSUME ticket'[t] = Current(t)' PROVE ticket[t] = Current(t) /\ session'[t] = session[t]
    <2>1. n = k
      BY <1>2, <1>3, <1>5 DEF Current
    <2>2. m = k
      BY <1>1, <1>2, <1>3, <2>1
    <2>. QED
      BY <1>1, <1>2, <1>3, <2>1, <2>2 DEF Current
  <1>. QED
    BY <1>4, <1>5

\* Nor is a new session in the queue.
LEMMA NewSession ==
    ASSUME LeInv, NEW t \in Procs, NEW n \in Nat, n > session[t]
    PROVE  NotQueued(t, n)
  <1>. SUFFICES ASSUME NEW i \in DOMAIN queue, queue[i] = <<t, n>> PROVE FALSE
    BY DEF NotQueued
  <1>1. queue[i][2] <= session[queue[i][1]] /\ session[t] \in Nat
    BY LeBasics DEF LeInv, QueueInv
  <1>2. n <= session[t]
    BY <1>1
  <1>. QED
    BY <1>1, <1>2

\* A step of t that leaves the queue, the URI and the others alone.
LEMMA Frame ==
    ASSUME LeInv, MmInv', LeTypes', NEW t \in Procs,
           \A u \in Procs : u # t => /\ calls'[u] = calls[u] /\ at'[u] = at[u] /\ ticket'[u] = ticket[u]
                                     /\ session'[u] = session[u] /\ (u \in up' => u \in up),
           session'[t] \in Nat, session'[t] >= session[t], queue' = queue,
           There("uri") => There("uri")' /\ znodes'["uri"] = znodes["uri"],
           CallInv(t)', TicketInv(t)', LockInv(t)', UriInv(t)',
           t \in up' /\ at'[t] \in Early => NotQueued(t, session'[t])
    PROVE  LeInv'
  <1>1. QueueInv'
    <2>1. ASSUME NEW i \in DOMAIN queue PROVE queue[i][2] <= session'[queue[i][1]]
      <3>1. queue \in Seq(Procs \X (0 .. MaxSessions))
        BY DEF LeInv, LeTypes, Sessions
      <3>2. queue[i] \in Procs \X (0 .. MaxSessions)
        BY <3>1
      <3>3. PICK p \in Procs, n \in Nat : p = queue[i][1] /\ n = queue[i][2]
        BY <3>2
      <3>4. n <= session[p] /\ session[p] \in Nat
        BY <3>3, LeBasics DEF LeInv, QueueInv
      <3>5. session'[p] \in Nat /\ session'[p] >= session[p]
        BY <3>4
      <3>. QED
        BY <3>3, <3>4, <3>5
    <2>2. \A i, j \in DOMAIN queue : queue[i] = queue[j] => i = j
      BY DEF LeInv, QueueInv
    <2>3. ASSUME NEW u \in up', at'[u] \in Early, NEW i \in DOMAIN queue PROVE queue[i] # <<u, session'[u]>>
      <3>1. u \in Procs
        BY DEF MmInv, MmTypeOK
      <3>2. CASE u = t
        BY <2>3, <3>2 DEF NotQueued
      <3>3. CASE u # t
        BY <2>3, <3>1, <3>3 DEF LeInv, QueueInv, Current, Early
      <3>. QED
        BY <3>2, <3>3
    <2>. QED
      BY <2>1, <2>2, <2>3 DEF QueueInv, Current, Early
  <1>2. ASSUME NEW u \in Procs, u # t PROVE CallInv(u)' /\ TicketInv(u)' /\ LockInv(u)' /\ UriInv(u)'
    <2>1. CallInv(u) /\ TicketInv(u) /\ LockInv(u) /\ UriInv(u)
      BY DEF LeInv
    <2>2. CallInv(u)' /\ TicketInv(u)'
      BY <1>2, <2>1 DEF CallInv, TicketInv
    <2>3. LockInv(u)'
      BY <1>2, <2>1 DEF LockInv, Current
    <2>4. UriInv(u)'
      BY <1>2, <2>1 DEF UriInv, Current
    <2>. QED
      BY <2>2, <2>3, <2>4
  <1>. QED
    BY <1>1, <1>2 DEF LeInv

\* One that leaves the session and the ticket alone too, and does not go on past the
\* lock without having it, nor past the URI without having announced it.
LEMMA QuietStep ==
    ASSUME LeInv, MmInv', LeTypes', NEW t \in Procs, UNCHANGED <<session, queue, ticket>>, up' \subseteq up,
           There("uri") => There("uri")' /\ znodes'["uri"] = znodes["uri"],
           \A u \in Procs : u # t => calls'[u] = calls[u] /\ at'[u] = at[u],
           CallInv(t)',
           at'[t] \in Early => at[t] \in Early,
           t \in up' /\ at'[t] \in {"uri", "subscribe", "leading"} =>
               \/ at[t] \in {"uri", "subscribe", "leading"}
               \/ queue # <<>> /\ Head(queue) = ticket[t],
           t \in up' /\ at'[t] \in {"subscribe", "leading"} =>
               \/ at[t] \in {"subscribe", "leading"}
               \/ There("uri")' /\ (znodes'["uri"].owner = Current(t))
    PROVE  LeInv'
  <1>1. session[t] \in Nat /\ LockInv(t) /\ UriInv(t) /\ QueueInv
    BY LeBasics DEF LeInv
  <1>2. TicketInv(t)' /\ (ticket'[t] = Current(t)' => ticket[t] = Current(t))
    BY <1>1, TicketKept
  <1>3. LockInv(t)'
    BY <1>1, <1>2 DEF LockInv
  <1>4. UriInv(t)'
    BY <1>1, <1>2 DEF UriInv
  <1>5. t \in up' /\ at'[t] \in Early => NotQueued(t, session'[t])
    BY <1>1 DEF QueueInv, NotQueued, Current, Early
  <1>. QED
    BY <1>1, <1>2, <1>3, <1>4, <1>5, Frame

\* A call for the persisted state.
LEMMA StateCall ==
    ASSUME LeInv, NEW t \in Procs, Idle(t), NEW op \in {"get", "put", "set"}, NEW data \in Data,
           Calls(t, op, "SchedulerState", data, FALSE)
    PROVE  /\ MmInv' /\ UNCHANGED <<znodes, session, up, faults>>
           /\ calls'[t].op = op /\ calls'[t].path = "SchedulerState" /\ calls'[t].result = "none"
           /\ \A u \in Procs : u # t => calls'[u] = calls[u]
  <1>1. t \in Threads /\ "SchedulerState" \in Paths /\ calls \in [Threads -> Call] /\ Procs = Threads
    BY LeadershipAssumption DEF LeInv, MmInv, MmTypeOK
  <1>. PICK ephemeral \in BOOLEAN : ephemeral = FALSE
    OBVIOUS
  <1>2. Calls(t, op, "SchedulerState", data, ephemeral)
    OBVIOUS
  <1>3. PICK c : c = NewCall(op, "SchedulerState", data, ephemeral)
    OBVIOUS
  <1>4. MmInv' /\ calls' = [calls EXCEPT ![t] = c] /\ UNCHANGED <<znodes, session, up, faults>>
    BY <1>1, <1>2, <1>3, CallsInv DEF LeInv
  <1>5. c.op = op /\ c.path = "SchedulerState" /\ c.result = "none"
    BY <1>1, <1>3, NewCallStep
  <1>. QED
    BY <1>1, <1>4, <1>5

\* GetSchedulerState.
LEMMA GetStateKeeps ==
    ASSUME LeInv, NEW t \in Procs, GetSchedulerState(t)
    PROVE  LeInv'
  <1>1. /\ Idle(t) /\ at[t] = "open" /\ Calls(t, "get", "SchedulerState", "empty", FALSE)
        /\ at' = [at EXCEPT ![t] = "opened"] /\ UNCHANGED <<memory, ticket, queue, issued>>
    BY DEF GetSchedulerState, Goes
  <1>2. /\ MmInv' /\ UNCHANGED <<znodes, session, up, faults>>
        /\ calls'[t].op = "get" /\ calls'[t].path = "SchedulerState" /\ calls'[t].result = "none"
        /\ \A u \in Procs : u # t => calls'[u] = calls[u]
    BY <1>1, StateCall, LeadershipAssumption
  <1>3. LeTypes' /\ at'[t] = "opened" /\ \A u \in Procs : u # t => at'[u] = at[u]
    BY <1>1 DEF LeInv, LeTypes
  <1>4. CallInv(t)'
    BY <1>2, <1>3 DEF CallInv
  <1>5. There("uri") => There("uri")' /\ znodes'["uri"] = znodes["uri"]
    BY <1>2 DEF There
  <1>. QED
    BY <1>1, <1>2, <1>3, <1>4, <1>5, QuietStep DEF Early

\* A process that ends.
LEMMA CrashKeepsLe ==
    ASSUME LeInv, NEW t \in Procs, Crash(t), UNCHANGED leVars
    PROVE  LeInv'
  <1>1. up' \subseteq up /\ UNCHANGED <<znodes, session, faults, calls, at, memory, ticket, queue, issued>> /\ MmInv'
    BY CrashInv DEF LeInv, Crash, leVars
  <1>2. LeTypes' /\ CallInv(t)'
    BY <1>1 DEF LeInv, LeTypes, CallInv
  <1>3. There("uri") => There("uri")' /\ znodes'["uri"] = znodes["uri"]
    BY <1>1 DEF There
  <1>. QED
    BY <1>1, <1>2, <1>3, QuietStep

\* What GetSchedulerState does with what it has read.
LEMMA OpenedKeeps ==
    ASSUME LeInv, NEW t \in Procs, Opened(t)
    PROVE  LeInv'
  <1>1. Idle(t) /\ at[t] = "opened" /\ UNCHANGED <<ticket, queue, issued>> /\ CallInv(t)
    BY DEF Opened, LeInv
  <1>2. CASE calls[t].result = "ok" /\ memory' = [memory EXCEPT ![t] = calls[t].got] /\ Goes(t, "lock") /\ UNCHANGED mmVars
    <2>1. UNCHANGED <<znodes, session, up, faults, calls>>
      BY <1>2 DEF mmVars
    <2>2. MmInv'
      BY <2>1 DEF LeInv, MmInv, MmTypeOK
    <2>3. calls[t].got \in Data
      BY <1>1, <1>2 DEF CallInv
    <2>4. LeTypes' /\ at'[t] = "lock" /\ \A u \in Procs : u # t => at'[u] = at[u]
      BY <1>1, <1>2, <2>3 DEF LeInv, LeTypes, Goes
    <2>5. CallInv(t)'
      BY <1>1, <2>1, <2>4 DEF CallInv
    <2>6. There("uri") => There("uri")' /\ znodes'["uri"] = znodes["uri"]
      BY <2>1 DEF There
    <2>. QED
      BY <1>1, <2>1, <2>2, <2>4, <2>5, <2>6, QuietStep DEF Early
  <1>3. CASE Calls(t, "put", "SchedulerState", "empty", FALSE) /\ Goes(t, "created") /\ UNCHANGED memory
    <2>1. /\ MmInv' /\ UNCHANGED <<znodes, session, up, faults>>
          /\ calls'[t].op = "put" /\ calls'[t].path = "SchedulerState" /\ calls'[t].result = "none"
          /\ \A u \in Procs : u # t => calls'[u] = calls[u]
      BY <1>1, <1>3, StateCall, LeadershipAssumption
    <2>2. LeTypes' /\ at'[t] = "created" /\ \A u \in Procs : u # t => at'[u] = at[u]
      BY <1>1, <1>3 DEF LeInv, LeTypes, Goes
    <2>3. CallInv(t)'
      BY <2>1, <2>2 DEF CallInv
    <2>4. There("uri") => There("uri")' /\ znodes'["uri"] = znodes["uri"]
      BY <2>1 DEF There
    <2>. QED
      BY <1>1, <2>1, <2>2, <2>3, <2>4, QuietStep DEF Early
  <1>4. CASE Crash(t) /\ UNCHANGED <<at, memory>>
    BY <1>1, <1>4, CrashKeepsLe DEF leVars
  <1>. QED
    BY <1>2, <1>3, <1>4 DEF Opened

\* And with a node that it has made.
LEMMA CreatedKeeps ==
    ASSUME LeInv, NEW t \in Procs, Created(t)
    PROVE  LeInv'
  <1>1. Idle(t) /\ at[t] = "created" /\ UNCHANGED <<ticket, queue, issued>> /\ CallInv(t)
    BY DEF Created, LeInv
  <1>2. CASE Goes(t, "lock") /\ memory' = [memory EXCEPT ![t] = "empty"] /\ UNCHANGED mmVars
    <2>1. UNCHANGED <<znodes, session, up, faults, calls>>
      BY <1>2 DEF mmVars
    <2>2. MmInv'
      BY <2>1 DEF LeInv, MmInv, MmTypeOK
    <2>3. LeTypes' /\ at'[t] = "lock" /\ \A u \in Procs : u # t => at'[u] = at[u]
      BY <1>1, <1>2, LeadershipAssumption DEF LeInv, LeTypes, Goes
    <2>4. CallInv(t)'
      BY <1>1, <2>1, <2>3 DEF CallInv
    <2>5. There("uri") => There("uri")' /\ znodes'["uri"] = znodes["uri"]
      BY <2>1 DEF There
    <2>. QED
      BY <1>1, <2>1, <2>2, <2>3, <2>4, <2>5, QuietStep DEF Early
  <1>3. CASE Crash(t) /\ UNCHANGED <<at, memory>>
    BY <1>1, <1>3, CrashKeepsLe DEF leVars
  <1>. QED
    BY <1>2, <1>3 DEF Created

\* Lock returns.
LEMMA LockedKeeps ==
    ASSUME LeInv, NEW t \in Procs, Locked(t)
    PROVE  LeInv'
  <1>1. Idle(t) /\ at[t] = "waiting" /\ UNCHANGED <<memory, ticket, queue, issued>> /\ CallInv(t)
    BY DEF Locked, LeInv
  <1>2. CASE queue # <<>> /\ Head(queue) = ticket[t] /\ Goes(t, "uri") /\ UNCHANGED mmVars
    <2>1. UNCHANGED <<znodes, session, up, faults, calls>>
      BY <1>2 DEF mmVars
    <2>2. MmInv'
      BY <2>1 DEF LeInv, MmInv, MmTypeOK
    <2>3. LeTypes' /\ at'[t] = "uri" /\ \A u \in Procs : u # t => at'[u] = at[u]
      BY <1>1, <1>2 DEF LeInv, LeTypes, Goes
    <2>4. CallInv(t)'
      BY <1>1, <2>1, <2>3 DEF CallInv
    <2>5. There("uri") => There("uri")' /\ znodes'["uri"] = znodes["uri"]
      BY <2>1 DEF There
    <2>. QED
      BY <1>1, <1>2, <2>1, <2>2, <2>3, <2>4, <2>5, QuietStep DEF Early
  <1>3. CASE Crash(t) /\ UNCHANGED at
    BY <1>1, <1>3, CrashKeepsLe DEF leVars
  <1>. QED
    BY <1>2, <1>3 DEF Locked

\* Registered stores the ID, the old one or a new one, and persists it.
LEMMA RegisteredKeeps ==
    ASSUME LeInv, NEW t \in Procs, Registered(t)
    PROVE  LeInv'
  <1>1. Idle(t) /\ at[t] = "subscribe"
    BY DEF Registered
  <1>2. PICK id \in Data : Registers(t, id) /\ issued' \in 0 .. Len(Ids)
    <2>1. CASE memory[t] = "empty"
      <3>1. PICK n \in Nat : n = issued /\ n < Len(Ids) /\ Registers(t, Ids[n + 1]) /\ issued' = n + 1
        BY <2>1 DEF Registered, LeInv, LeTypes
      <3>2. Ids \in Seq(Data)
        BY LeadershipAssumption
      <3>3. Ids[n + 1] \in Data /\ Len(Ids) \in Nat
        BY <3>1, <3>2
      <3>4. issued' \in 0 .. Len(Ids)
        BY <3>1, <3>3
      <3>. QED
        BY <3>1, <3>3, <3>4
    <2>2. CASE memory[t] # "empty"
      BY <2>2 DEF Registered, LeInv, LeTypes
    <2>. QED
      BY <2>1, <2>2
  <1>3. /\ memory' = [memory EXCEPT ![t] = id] /\ Calls(t, "set", "SchedulerState", id, FALSE)
        /\ at' = [at EXCEPT ![t] = "leading"] /\ UNCHANGED <<ticket, queue>>
    BY <1>2 DEF Registers, Goes
  <1>4. /\ MmInv' /\ UNCHANGED <<znodes, session, up, faults>>
        /\ calls'[t].op = "set" /\ calls'[t].path = "SchedulerState" /\ calls'[t].result = "none"
        /\ \A u \in Procs : u # t => calls'[u] = calls[u]
    BY <1>1, <1>3, StateCall
  <1>5. LeTypes' /\ at'[t] = "leading" /\ \A u \in Procs : u # t => at'[u] = at[u]
    BY <1>2, <1>3 DEF LeInv, LeTypes
  <1>6. CallInv(t)'
    BY <1>4, <1>5 DEF CallInv
  <1>7. There("uri") => There("uri")' /\ znodes'["uri"] = znodes["uri"]
    BY <1>4 DEF There
  <1>. QED
    BY <1>1, <1>3, <1>4, <1>5, <1>6, <1>7, QuietStep DEF Early

\* SetupFramework announces a URI, where there is none, or panics.
LEMMA SetupKeeps ==
    ASSUME LeInv, NEW t \in Procs, SetupFramework(t)
    PROVE  LeInv'
  <1>. DEFINE uri == [data |-> "uri", version |-> 0, owner |-> Current(t)]
              after == [p \in DOMAIN znodes \cup {"uri"} |-> IF p = "uri" THEN uri ELSE znodes[p]]
  <1>1. /\ t \in up /\ at[t] = "uri" /\ UNCHANGED <<session, calls, memory, ticket, queue, issued>>
        /\ calls[t] \in Call /\ ProcOf[t] = t /\ t \in Threads /\ CallInv(t)
    BY LeBasics DEF SetupFramework, Idle, LeInv
  <1>2. /\ znodes' = znodes \/ (~There("uri") /\ znodes' = after)
        /\ up' \subseteq up /\ faults' \in 0 .. MaxFaults
        /\ at' = at \/ at' = [at EXCEPT ![t] = "subscribe"]
        /\ at' # at => znodes' = after
        /\ t \in up' => at' = [at EXCEPT ![t] = "subscribe"] /\ znodes' = after
    <2>0. faults \in 0 .. MaxFaults
      BY DEF LeInv, MmInv, MmTypeOK
    <2>1. CASE ~There("uri") /\ znodes' = after /\ Goes(t, "subscribe") /\ UNCHANGED <<up, faults>>
      BY <2>0, <2>1 DEF Goes
    <2>2. CASE There("uri") /\ up' = up \ {t} /\ UNCHANGED <<znodes, faults, at>>
      BY <2>0, <2>2
    <2>3. CASE /\ faults < MaxFaults /\ faults' = faults + 1
               /\ znodes' \in {znodes} \cup {z \in {after} : ~There("uri")}
               /\ up' = up \ {t} /\ UNCHANGED at
      <3>1. faults' \in 0 .. MaxFaults
        BY <2>0, <2>3, MetadataAssumption
      <3>. QED
        BY <2>3, <3>1
    <2>. QED
      BY <2>1, <2>2, <2>3 DEF SetupFramework
  <1>3. znodes' = after => There("uri")' /\ znodes'["uri"].owner = Current(t)
    BY DEF There
  <1>4. There("uri") => There("uri")' /\ znodes'["uri"] = znodes["uri"]
    BY <1>2 DEF There
  <1>5. MmInv'
    <2>1. DOMAIN znodes \subseteq Paths /\ \A p \in DOMAIN znodes : znodes[p] \in Znode
      BY DEF LeInv, MmInv, MmTypeOK
    <2>2. uri \in Znode /\ "uri" \in Paths
      <3>1. Current(t) \in Sessions
        BY DEF LeInv, MmInv, MmTypeOK, Current, Sessions
      <3>. QED
        BY <3>1, LeadershipAssumption DEF Znode
    <2>. HIDE DEF uri
    <2>3. DOMAIN znodes' \subseteq Paths /\ \A p \in DOMAIN znodes' : znodes'[p] \in Znode
      BY <1>2, <2>1, <2>2
    <2>4. MmTypeOK'
      BY <1>1, <1>2, <2>3 DEF LeInv, MmInv, MmTypeOK
    <2>. QED
      BY <1>1, <1>2, <2>4 DEF LeInv, MmInv
  <1>6. /\ LeTypes' /\ \A u \in Procs : u # t => at'[u] = at[u]
        /\ at'[t] \in {"uri", "subscribe"} /\ (t \in up' => at'[t] = "subscribe")
    BY <1>1, <1>2 DEF LeInv, LeTypes
  <1>7. CallInv(t)'
    BY <1>1, <1>6 DEF CallInv
  <1>8. t \in up' => There("uri")' /\ znodes'["uri"].owner = Current(t)
    BY <1>2, <1>3
  <1>. HIDE DEF after
  <1>. QED
    BY <1>1, <1>2, <1>4, <1>5, <1>6, <1>7, <1>8, QuietStep DEF Early

\* A scheduler is started again, with a session that is not in the queue.
LEMMA RestartKeeps ==
    ASSUME LeInv, NEW t \in Procs, Restart(t)
    PROVE  LeInv'
  <1>1. /\ t \notin up /\ session[t] < MaxSessions /\ up' = up \cup {t} /\ session' = [session EXCEPT ![t] = @ + 1]
        /\ calls' = [calls EXCEPT ![t] = NoCall] /\ at' = [at EXCEPT ![t] = "open"]
        /\ memory' = [memory EXCEPT ![t] = "empty"] /\ UNCHANGED <<znodes, faults, ticket, queue, issued>>
    BY DEF Restart, Goes
  <1>2. /\ calls \in [Threads -> Call] /\ session \in [Procs -> 0 .. MaxSessions] /\ Threads = Procs
        /\ \A u \in Threads : ProcOf[u] = u
    BY LeadershipAssumption DEF LeInv, MmInv, MmTypeOK
  <1>3. /\ calls'[t] = NoCall /\ session'[t] = session[t] + 1 /\ session[t] \in Nat
        /\ \A u \in Procs : u # t => calls'[u] = calls[u] /\ session'[u] = session[u]
    BY <1>1, <1>2
  <1>4. NoCall.op = "none" /\ NoCall.result = "none" /\ NoCall.pc = "idle"
    BY DEF NoCall
  <1>5. MmInv'
    <2>1. NoCall \in Call
      <3>1. 0 \in 0 .. MaxRetries
        BY MetadataAssumption
      <3>. QED
        BY <3>1 DEF NoCall, Call, Result, NoStat
    <2>2. session' \in [Procs -> 0 .. MaxSessions]
      BY <1>1, <1>2, MetadataAssumption
    <2>3. MmTypeOK'
      BY <1>1, <1>2, <2>1, <2>2 DEF LeInv, MmInv, MmTypeOK
    <2>4. ASSUME NEW u \in Threads
          PROVE  /\ CallOK(calls'[u])
                 /\ calls'[u].op # "none" => calls'[u].path \in Paths
                 /\ calls'[u].op \notin {"none", "get"} => calls'[u].data \in Data
                 /\ calls'[u].result = "panic" => ProcOf[u] \notin up'
      <3>1. CASE u = t
        BY <1>3, <1>4, <3>1 DEF CallOK
      <3>2. CASE u # t
        BY <1>1, <1>2, <1>3, <3>2 DEF LeInv, MmInv
      <3>. QED
        BY <3>1, <3>2
    <2>. QED
      BY <2>3, <2>4 DEF MmInv
  <1>6. LeTypes' /\ at'[t] = "open" /\ \A u \in Procs : u # t => at'[u] = at[u]
    BY <1>1, LeadershipAssumption DEF LeInv, LeTypes
  <1>7. session'[t] \in Nat /\ session'[t] >= session[t] /\ session'[t] > session[t]
    BY <1>3
  <1>8. NotQueued(t, session'[t])
    BY <1>7, NewSession
  <1>9. TicketInv(t)'
    BY <1>1, <1>7, TicketKept
  <1>10. CallInv(t)' /\ LockInv(t)' /\ UriInv(t)'
    BY <1>3, <1>4, <1>6 DEF CallInv, LockInv, UriInv
  <1>11. There("uri") => There("uri")' /\ znodes'["uri"] = znodes["uri"]
    BY <1>1 DEF There
  <1>. QED
    BY <1>1, <1>3, <1>5, <1>6, <1>7, <1>8, <1>9, <1>10, <1>11, Frame

\* Requests go to the persisted state; a lost answer may cost the session, and then
\* the lock.
LEMMA RequestKeepsLe ==
    ASSUME LeInv, NEW t \in Procs, Request(t), UNCHANGED leVars
    PROVE  LeInv'
  <1>1. /\ t \in Threads /\ ProcOf[t] = t /\ UNCHANGED <<at, memory, ticket, queue, issued>>
        /\ MmInv /\ CallInv(t) /\ LockInv(t) /\ UriInv(t) /\ QueueInv /\ session[t] \in Nat
    BY LeBasics DEF leVars, LeInv
  <1>2. MmInv' /\ Touches(t)
    BY <1>1, RequestInv, RequestOutcome
  <1>3. PICK c : Outcome(t, c)
    BY <1>1, RequestOutcome
  <1>4. /\ calls' = [calls EXCEPT ![t] = c] /\ SameArgs(c, calls[t]) /\ calls[t].op # "none" /\ up' \subseteq up
        /\ calls \in [Threads -> Call] /\ Threads = Procs
    BY <1>1, <1>3, LeadershipAssumption DEF Outcome, Follows, RequestsOf, MmInv, MmTypeOK
  <1>5. calls'[t] = c /\ \A u \in Procs : u # t => calls'[u] = calls[u]
    BY <1>1, <1>4
  <1>6. /\ \A u \in Procs : u # t => session'[u] = session[u]
        /\ session'[t] \in Nat /\ session'[t] >= session[t]
    <2>1. /\ session' \in [Procs -> 0 .. MaxSessions]
          /\ \A p \in Procs : p # ProcOf[t] => session'[p] = session[p]
          /\ session'[ProcOf[t]] >= session[ProcOf[t]]
      BY <1>1, <1>3, CountsStep DEF Outcome, MmInv
    <2>. QED
      BY <1>1, <2>1
  <1>7. There("uri") => There("uri")' /\ znodes'["uri"] = znodes["uri"]
    <2>1. "uri" # calls[t].path
      BY <1>1, <1>4 DEF CallInv
    <2>. QED
      BY <1>2, <2>1, OthersKept
  <1>8. CallInv(t)'
    <2>1. calls'[t].op # "none" => calls'[t].path = "SchedulerState"
      BY <1>1, <1>4, <1>5 DEF CallInv, SameArgs
    <2>2. at'[t] = "opened" => calls'[t].op = "get"
      BY <1>1, <1>4, <1>5 DEF CallInv, SameArgs
    <2>3. ASSUME calls'[t].op = "get", calls'[t].result = "ok" PROVE calls'[t].got \in Data
      <3>1. calls[t].op = "get"
        BY <1>4, <1>5, <2>3 DEF SameArgs
      <3>2. calls[t].pc = "fetch"
        BY <1>3, <3>1 DEF Outcome, RequestsOf
      <3>3. Fetch(t)
        BY <3>2 DEF Request, Requests, Exists, Get, Set, Create, Delete
      <3>4. PICK d : /\ Outcome(t, d)
                     /\ \/ There(calls[t].path) /\ Ended(d, calls[t], "ok") /\ d.got = znodes[calls[t].path].data
                        \/ \E e \in {"nonode", "lost"} : Ended(d, calls[t], e)
                        \/ Moved(d, calls[t], "fetch")
        BY <1>1, <3>3, FetchOutcome
      <3>5. calls'[t] = d
        BY <1>1, <1>4, <3>4 DEF Outcome
      <3>6. There(calls[t].path) /\ d.got = znodes[calls[t].path].data
        BY <2>3, <3>4, <3>5 DEF Ended, Moved
      <3>7. znodes[calls[t].path] \in Znode
        BY <1>1, <3>6 DEF MmInv, MmTypeOK, There
      <3>. QED
        BY <3>5, <3>6, <3>7 DEF Znode
    <2>. QED
      BY <2>1, <2>2, <2>3 DEF CallInv
  <1>9. TicketInv(t)' /\ (ticket'[t] = Current(t)' => ticket[t] = Current(t) /\ session'[t] = session[t])
    BY <1>1, <1>6, TicketKept
  <1>10. LockInv(t)'
    BY <1>1, <1>4, <1>9 DEF LockInv
  <1>11. UriInv(t)'
    BY <1>1, <1>4, <1>7, <1>9 DEF UriInv
  <1>12. t \in up' /\ at'[t] \in Early => NotQueued(t, session'[t])
    <2>1. CASE session'[t] = session[t]
      BY <1>1, <1>4, <2>1 DEF QueueInv, NotQueued, Current, Early
    <2>2. CASE session'[t] > session[t]
      BY <1>6, <2>2, NewSession
    <2>. QED
      BY <1>1, <1>6, <2>1, <2>2
  <1>13. LeTypes'
    BY <1>1 DEF LeInv, LeTypes
  <1>. QED
    BY <1>1, <1>2, <1>4, <1>5, <1>6, <1>7, <1>8, <1>9, <1>10, <1>11, <1>12, <1>13, Frame

-----------------------------------------------------------------------------
(* The queue *)

\* Lock queues with a session that is not in the queue.
LEMMA LockKeeps ==
    ASSUME LeInv, NEW t \in Procs, Lock(t)
    PROVE  LeInv'
  <1>1. /\ t \in up /\ at[t] = "lock" /\ queue' = Append(queue, Current(t)) /\ ticket' = [ticket EXCEPT ![t] = Current(t)]
        /\ at' = [at EXCEPT ![t] = "waiting"] /\ UNCHANGED <<znodes, session, up, faults, calls, memory, issued>>
        /\ queue \in Seq(Sessions) /\ QueueInv
    BY LeBasics DEF Lock, Idle, Goes, mmVars, LeInv
  <1>2. MmInv'
    BY <1>1 DEF LeInv, MmInv, MmTypeOK
  <1>3. PICK s \in Sessions : s = Current(t) /\ s[1] = t /\ s[2] = session[t]
    <2>1. session[t] \in 0 .. MaxSessions
      BY DEF LeInv, MmInv, MmTypeOK
    <2>2. Current(t) \in Sessions /\ Current(t)[1] = t /\ Current(t)[2] = session[t]
      BY <2>1 DEF Current, Sessions
    <2>. QED
      BY <2>2
  <1>4. LeTypes' /\ at'[t] = "waiting" /\ ticket'[t] = s
    BY <1>1, <1>3 DEF LeInv, LeTypes
  <1>5. \A u \in Procs : u # t => at'[u] = at[u] /\ ticket'[u] = ticket[u]
    BY <1>1 DEF LeInv, LeTypes
  <1>6. PICK n \in Nat : n = Len(queue) /\ DOMAIN queue = 1 .. n
    BY <1>1
  <1>7. /\ DOMAIN queue' = 1 .. (n + 1) /\ queue'[n + 1] = s /\ \A i \in 1 .. n : queue'[i] = queue[i]
    BY <1>1, <1>3, <1>6
  <1>8. \A i \in 1 .. n : queue[i] # s
    BY <1>1, <1>3, <1>6 DEF QueueInv
  <1>9. QueueInv'
    <2>1. ASSUME NEW i \in 1 .. (n + 1) PROVE queue'[i][2] <= session'[queue'[i][1]]
      <3>1. CASE i = n + 1
        <4>1. queue'[i] = s /\ session[t] \in Nat
          BY <1>7, <3>1, LeBasics
        <4>. QED
          BY <1>1, <1>3, <4>1
      <3>2. CASE i \in 1 .. n
        <4>1. queue[i][2] <= session[queue[i][1]]
          BY <1>1, <1>6, <3>2 DEF QueueInv
        <4>. QED
          BY <1>1, <1>7, <3>2, <4>1
      <3>. QED
        BY <3>1, <3>2
    <2>2. ASSUME NEW i \in 1 .. (n + 1), NEW j \in 1 .. (n + 1), queue'[i] = queue'[j] PROVE i = j
      <3>1. CASE i \in 1 .. n /\ j \in 1 .. n
        BY <1>1, <1>6, <1>7, <2>2, <3>1 DEF QueueInv
      <3>2. CASE i = n + 1 /\ j \in 1 .. n
        BY <1>7, <1>8, <2>2, <3>2
      <3>3. CASE j = n + 1 /\ i \in 1 .. n
        BY <1>7, <1>8, <2>2, <3>3
      <3>. QED
        BY <3>1, <3>2, <3>3
    <2>3. ASSUME NEW u \in up', at'[u] \in Early, NEW i \in 1 .. (n + 1) PROVE queue'[i] # <<u, session'[u]>>
      <3>1. u \in Procs /\ u # t
        BY <1>2, <1>4, <2>3 DEF MmInv, MmTypeOK, Early
      <3>2. CASE i = n + 1
        BY <1>3, <1>7, <3>1, <3>2 DEF Current
      <3>3. CASE i \in 1 .. n
        BY <1>1, <1>5, <1>6, <1>7, <2>3, <3>1, <3>3 DEF QueueInv, Current, Early
      <3>. QED
        BY <3>2, <3>3
    <2>. QED
      BY <1>7, <2>1, <2>2, <2>3 DEF QueueInv, Current, Early
  <1>10. ASSUME NEW u \in Procs PROVE CallInv(u)' /\ TicketInv(u)' /\ LockInv(u)' /\ UriInv(u)'
    <2>1. CallInv(u) /\ TicketInv(u) /\ LockInv(u) /\ UriInv(u)
      BY DEF LeInv
    <2>2. CASE u = t
      <3>1. CallInv(u)' /\ LockInv(u)' /\ UriInv(u)'
        BY <1>1, <1>4, <2>1, <2>2 DEF CallInv, LockInv, UriInv
      <3>2. TicketInv(u)'
        BY <1>1, <1>3, <1>4, <2>2, LeBasics DEF TicketInv
      <3>. QED
        BY <3>1, <3>2
    <2>3. CASE u # t
      <3>1. CallInv(u)' /\ TicketInv(u)'
        BY <1>1, <1>5, <2>1, <2>3 DEF CallInv, TicketInv
      <3>2. UriInv(u)'
        BY <1>1, <1>5, <2>1, <2>3 DEF UriInv, Current, There
      <3>3. queue # <<>> => queue' # <<>> /\ Head(queue') = Head(queue)
        BY <1>1
      <3>4. LockInv(u)'
        BY <1>1, <1>5, <2>1, <2>3, <3>3 DEF LockInv, Current
      <3>. QED
        BY <3>1, <3>2, <3>4
    <2>. QED
      BY <2>2, <2>3
  <1>. QED
    BY <1>2, <1>4, <1>9, <1>10 DEF LeInv

\* What is left when one has left.
LEMMA RemoveAtStep ==
    ASSUME NEW S, NEW q \in Seq(S), NEW i \in DOMAIN q
    PROVE  /\ RemoveAt(q, i) \in Seq(S) /\ DOMAIN RemoveAt(q, i) = 1 .. (Len(q) - 1)
           /\ \A j \in 1 .. (Len(q) - 1) : RemoveAt(q, i)[j] = IF j < i THEN q[j] ELSE q[j + 1]
  <1>1. PICK n \in Nat : n = Len(q) /\ DOMAIN q = 1 .. n /\ i \in 1 .. n
    OBVIOUS
  <1>2. SubSeq(q, 1, i - 1) \in Seq(S) /\ SubSeq(q, i + 1, n) \in Seq(S)
    BY <1>1
  <1>3. /\ Len(SubSeq(q, 1, i - 1)) = i - 1 /\ Len(SubSeq(q, i + 1, n)) = n - i
        /\ \A j \in 1 .. (i - 1) : SubSeq(q, 1, i - 1)[j] = q[j]
        /\ \A j \in 1 .. (n - i) : SubSeq(q, i + 1, n)[j] = q[i + j]
    <2>1. Len(SubSeq(q, 1, i - 1)) = i - 1
      BY <1>1
    <2>2. Len(SubSeq(q, i + 1, n)) = n - i
      BY <1>1
    <2>3. \A j \in 1 .. (i - 1) : SubSeq(q, 1, i - 1)[j] = q[j]
      BY <1>1
    <2>4. ASSUME NEW j \in 1 .. (n - i) PROVE SubSeq(q, i + 1, n)[j] = q[i + j]
      BY <1>1
    <2>. QED
      BY <2>1, <2>2, <2>3, <2>4
  <1>4. PICK a \in Seq(S), b \in Seq(S) : a = SubSeq(q, 1, i - 1) /\ b = SubSeq(q, i + 1, n)
    BY <1>2
  <1>5. /\ Len(a) = i - 1 /\ Len(b) = n - i
        /\ \A j \in 1 .. (i - 1) : a[j] = q[j]
        /\ \A j \in 1 .. (n - i) : b[j] = q[i + j]
    BY <1>3, <1>4
  <1>6. PICK r : r = a \o b
    OBVIOUS
  <1>7. /\ r \in Seq(S) /\ Len(r) = Len(a) + Len(b)
        /\ \A j \in 1 .. Len(a) + Len(b) : r[j] = IF j <= Len(a) THEN a[j] ELSE b[j - Len(a)]
    BY <1>6, ConcatProperties
  <1>8. PICK k \in Int, m \in Int : k = i - 1 /\ m = n - i
    BY <1>1
  <1>9. /\ Len(r) = n - 1 /\ DOMAIN r = 1 .. (n - 1)
        /\ \A j \in 1 .. (n - 1) : r[j] = IF j <= i - 1 THEN a[j] ELSE b[j - (i - 1)]
    <2>1. Len(a) = k /\ Len(b) = m
      BY <1>5, <1>8
    <2>2. /\ Len(r) = k + m
          /\ \A j \in 1 .. k + m : r[j] = IF j <= k THEN a[j] ELSE b[j - k]
      BY <1>7, <2>1
    <2>3. i \in Int /\ n \in Int
      BY <1>1
    <2>4. k + m = n - 1
      BY <1>8, <2>3
    <2>5. Len(r) = n - 1 /\ \A j \in 1 .. (n - 1) : r[j] = IF j <= i - 1 THEN a[j] ELSE b[j - (i - 1)]
      BY <1>8, <2>2, <2>4
    <2>6. DOMAIN r = 1 .. Len(r)
      BY <1>7
    <2>. QED
      BY <2>5, <2>6
  <1>10. ASSUME NEW j \in 1 .. (n - 1) PROVE r[j] = IF j < i THEN q[j] ELSE q[j + 1]
    <2>1. CASE j < i
      BY <1>1, <1>5, <1>9, <2>1
    <2>2. CASE ~(j < i)
      <3>1. r[j] = b[j - (i - 1)]
        BY <1>1, <1>9, <2>2
      <3>2. j - (i - 1) \in 1 .. (n - i) /\ i + (j - (i - 1)) = j + 1
        BY <1>1, <2>2
      <3>3. b[j - (i - 1)] = q[j + 1]
        BY <1>1, <1>5, <3>2
      <3>. QED
        BY <2>2, <3>1, <3>3
    <2>. QED
      BY <2>1, <2>2
  <1>11. RemoveAt(q, i) = r
    BY <1>1, <1>4, <1>6 DEF RemoveAt
  <1>. QED
    BY <1>1, <1>7, <1>9, <1>10, <1>11

\* The queue without a session: the others keep their order.
LEMMA LeavesStep ==
    ASSUME LeInv, NEW s, LeavesQueue(s)
    PROVE  /\ queue' \in Seq(Sessions)
           /\ \A i \in DOMAIN queue' : \E j \in DOMAIN queue : queue'[i] = queue[j]
           /\ \A i, j \in DOMAIN queue' : queue'[i] = queue'[j] => i = j
           /\ queue # <<>> /\ Head(queue) # s => queue' # <<>> /\ Head(queue') = Head(queue)
  <1>1. /\ queue \in Seq(Sessions) /\ \A i, j \in DOMAIN queue : queue[i] = queue[j] => i = j
    BY DEF LeInv, LeTypes, QueueInv
  <1>2. CASE queue' = queue
    BY <1>1, <1>2
  <1>3. CASE \E i \in DOMAIN queue : queue[i] = s /\ queue' = RemoveAt(queue, i)
    <2>1. PICK i \in DOMAIN queue : queue[i] = s /\ queue' = RemoveAt(queue, i)
      BY <1>3
    <2>2. PICK n \in Nat : n = Len(queue) /\ DOMAIN queue = 1 .. n /\ i \in 1 .. n
      BY <1>1
    <2>3. /\ queue' \in Seq(Sessions) /\ DOMAIN queue' = 1 .. (n - 1)
          /\ \A j \in 1 .. (n - 1) : queue'[j] = IF j < i THEN queue[j] ELSE queue[j + 1]
      BY <1>1, <2>1, <2>2, RemoveAtStep
    <2>4. \A j \in DOMAIN queue' : \E k \in DOMAIN queue : queue'[j] = queue[k]
      BY <2>2, <2>3
    <2>5. ASSUME NEW j \in 1 .. (n - 1), NEW k \in 1 .. (n - 1), queue'[j] = queue'[k] PROVE j = k
      <3>. DEFINE old(x) == IF x < i THEN x ELSE x + 1
      <3>1. /\ old(j) \in 1 .. n /\ old(k) \in 1 .. n /\ (old(j) = old(k) => j = k)
        BY <2>2
      <3>2. queue'[j] = queue[old(j)] /\ queue'[k] = queue[old(k)]
        BY <2>3
      <3>. HIDE DEF old
      <3>. QED
        BY <1>1, <2>2, <2>5, <3>1, <3>2
    <2>6. ASSUME queue # <<>>, Head(queue) # s PROVE queue' # <<>> /\ Head(queue') = Head(queue)
      <3>1. Head(queue) = queue[1]
        BY <1>1, <2>6
      <3>2. i # 1 /\ 1 \in 1 .. (n - 1)
        BY <2>1, <2>2, <2>6, <3>1
      <3>3. queue'[1] = queue[1]
        BY <2>2, <2>3, <3>2
      <3>4. queue' # <<>> /\ Head(queue') = queue'[1]
        BY <2>3, <3>2
      <3>. QED
        BY <3>1, <3>3, <3>4
    <2>. QED
      BY <2>3, <2>4, <2>5, <2>6
  <1>. QED
    BY <1>2, <1>3 DEF LeavesQueue

\* A session ends, and takes its place in the queue and its URI with it: whoever has
\* the lock with another one keeps both.
LEMMA ExpireAllKeeps ==
    ASSUME LeInv, NEW s \in Sessions, ExpireAll(s)
    PROVE  LeInv'
  <1>1. SessionEnds(s) /\ LeavesQueue(s) /\ UNCHANGED <<at, memory, ticket, issued>>
    BY DEF ExpireAll
  <1>2. /\ MmInv' /\ UNCHANGED <<up, faults, calls>>
        /\ \A p \in Procs : session'[p] >= session[p] /\ (p # s[1] => session'[p] = session[p])
        /\ s[1] \in up /\ s[2] = session[s[1]] => session'[s[1]] = session[s[1]] + 1
        /\ \A p : There(p)' <=> (There(p) /\ znodes[p].owner # s)
        /\ \A p : There(p)' => znodes'[p] = znodes[p]
    BY <1>1, SessionEndsInv DEF LeInv
  <1>3. \A p \in Procs : session'[p] \in Nat /\ session[p] \in Nat
    BY <1>2, LeBasics DEF MmInv, MmTypeOK
  <1>4. /\ queue' \in Seq(Sessions)
        /\ \A i \in DOMAIN queue' : \E j \in DOMAIN queue : queue'[i] = queue[j]
        /\ \A i, j \in DOMAIN queue' : queue'[i] = queue'[j] => i = j
        /\ queue # <<>> /\ Head(queue) # s => queue' # <<>> /\ Head(queue') = Head(queue)
    BY <1>1, LeavesStep
  <1>5. LeTypes'
    BY <1>1, <1>4 DEF LeInv, LeTypes
  <1>6. QueueInv'
    <2>1. ASSUME NEW j \in DOMAIN queue PROVE queue[j][2] <= session'[queue[j][1]]
      <3>1. queue[j] \in Procs \X (0 .. MaxSessions)
        BY DEF LeInv, LeTypes, Sessions
      <3>2. PICK p \in Procs, n \in Nat : p = queue[j][1] /\ n = queue[j][2]
        BY <3>1
      <3>3. n <= session[p]
        BY <3>2 DEF LeInv, QueueInv
      <3>. QED
        BY <1>2, <1>3, <3>2, <3>3
    <2>2. ASSUME NEW u \in up, at[u] \in Early, NEW j \in DOMAIN queue PROVE queue[j] # <<u, session'[u]>>
      <3>1. u \in Procs
        BY DEF LeInv, MmInv, MmTypeOK
      <3>2. CASE session'[u] = session[u]
        BY <2>2, <3>2 DEF LeInv, QueueInv, Current, Early
      <3>3. CASE session'[u] > session[u]
        BY <1>3, <3>1, <3>3, NewSession DEF NotQueued
      <3>. QED
        BY <1>2, <1>3, <3>1, <3>2, <3>3
    <2>3. \A i \in DOMAIN queue' : queue'[i][2] <= session'[queue'[i][1]]
      BY <1>4, <2>1
    <2>4. \A u \in up' : at'[u] \in Early => \A i \in DOMAIN queue' : queue'[i] # <<u, session'[u]>>
      BY <1>1, <1>2, <1>4, <2>2
    <2>. QED
      BY <1>4, <2>3, <2>4 DEF QueueInv, Current, Early
  <1>7. ASSUME NEW t \in Procs PROVE CallInv(t)' /\ TicketInv(t)' /\ LockInv(t)' /\ UriInv(t)'
    <2>1. CallInv(t) /\ LockInv(t) /\ UriInv(t)
      BY DEF LeInv
    <2>2. CallInv(t)'
      BY <1>1, <1>2, <2>1 DEF CallInv
    <2>3. TicketInv(t)' /\ (ticket'[t] = Current(t)' => ticket[t] = Current(t) /\ session'[t] = session[t])
      BY <1>1, <1>2, <1>3, TicketKept
    <2>4. ASSUME t \in up', ticket'[t] = Current(t)' PROVE ticket[t] = Current(t) /\ s # ticket[t] /\ ticket'[t] = ticket[t]
      <3>1. ticket[t] = <<t, session[t]>> /\ session'[t] = session[t] /\ session[t] \in Nat
        BY <1>3, <2>3, <2>4 DEF Current
      <3>2. ~(s[1] = t /\ s[2] = session[t])
        BY <1>2, <2>4, <3>1
      <3>. QED
        BY <1>1, <2>3, <2>4, <3>1, <3>2
    <2>5. LockInv(t)'
      BY <1>1, <1>2, <1>4, <2>1, <2>4 DEF LockInv
    <2>6. UriInv(t)'
      BY <1>1, <1>2, <2>1, <2>4 DEF UriInv
    <2>. QED
      BY <2>2, <2>3, <2>5, <2>6
  <1>. QED
    BY <1>2, <1>5, <1>6, <1>7 DEF LeInv

-----------------------------------------------------------------------------
(* The invariant *)

\* A framework that has never run.
LEMMA LeInitInv == Init => LeInv
  <1>. SUFFICES ASSUME Init PROVE LeInv
    OBVIOUS
  <1>1. /\ session = [p \in Procs |-> 0] /\ up = Procs /\ faults = 0 /\ calls = [t \in Threads |-> NoCall]
        /\ znodes = [p \in {} |-> {}] /\ at = [t \in Procs |-> "open"] /\ memory = [t \in Procs |-> "empty"]
        /\ ticket = [t \in Procs |-> <<t, 0>>] /\ queue = <<>> /\ issued = 0
    BY DEF Init, MmInit
  <1>2. NoCall.op = "none" /\ NoCall.pc = "idle" /\ NoCall.result = "none"
    BY DEF NoCall
  <1>3. NoCall \in Call /\ 0 \in 0 .. MaxSessions /\ 0 \in 0 .. MaxFaults
    <2>1. 0 \in 0 .. MaxRetries /\ 0 \in 0 .. MaxSessions /\ 0 \in 0 .. MaxFaults
      BY MetadataAssumption
    <2>. QED
      BY <2>1 DEF NoCall, Call, Result, NoStat
  <1>4. MmInv
    <2>1. MmTypeOK
      BY <1>1, <1>3 DEF MmTypeOK
    <2>2. \A t \in Threads : calls[t] = NoCall
      BY <1>1
    <2>. QED
      BY <1>2, <2>1, <2>2 DEF MmInv, CallOK
  <1>5. LeTypes
    <2>1. Ids \in Seq(Data) /\ "empty" \in Data
      BY LeadershipAssumption
    <2>2. 0 \in 0 .. Len(Ids)
      BY <2>1
    <2>3. ticket \in [Procs -> Sessions]
      BY <1>1, <1>3 DEF Sessions
    <2>. QED
      BY <1>1, <2>1, <2>2, <2>3 DEF LeTypes
  <1>6. QueueInv
    BY <1>1 DEF QueueInv
  <1>7. ASSUME NEW t \in Procs PROVE CallInv(t) /\ TicketInv(t) /\ LockInv(t) /\ UriInv(t)
    <2>1. calls[t] = NoCall /\ at[t] = "open" /\ ticket[t] = <<t, 0>> /\ session[t] = 0
      BY <1>1, LeadershipAssumption
    <2>. QED
      BY <1>2, <2>1 DEF CallInv, TicketInv, LockInv, UriInv
  <1>. QED
    BY <1>4, <1>5, <1>6, <1>7 DEF LeInv

\* Every step keeps it.
LEMMA LeStepInv == LeInv /\ [Next]_vars => LeInv'
  <1>. SUFFICES ASSUME LeInv, [Next]_vars PROVE LeInv'
    OBVIOUS
  <1>1. ASSUME NEW t \in Procs, Starts(t) PROVE LeInv'
    BY <1>1, GetStateKeeps, OpenedKeeps, CreatedKeeps, LockKeeps, LockedKeeps, SetupKeeps, RegisteredKeeps DEF Starts
  <1>2. ASSUME NEW t \in Procs, Restart(t) PROVE LeInv'
    BY <1>2, RestartKeeps
  <1>3. ASSUME NEW t \in Procs, (Request(t) \/ Crash(t)) /\ UNCHANGED leVars PROVE LeInv'
    BY <1>3, RequestKeepsLe, CrashKeepsLe
  <1>4. ASSUME NEW s \in Sessions, ExpireAll(s) PROVE LeInv'
    BY <1>4, ExpireAllKeeps
  <1>5. CASE UNCHANGED vars
    <2>1. UNCHANGED <<znodes, session, up, faults, calls, at, memory, ticket, queue, issued>>
      BY <1>5 DEF vars, mmVars, leVars
    <2>. QED
      BY <2>1 DEF LeInv, MmInv, MmTypeOK, LeTypes, QueueInv, CallInv, TicketInv, LockInv, UriInv, Current, There
  <1>. QED
    BY <1>1, <1>2, <1>3, <1>4, <1>5 DEF Next

\* It holds in every state.
LEMMA LeInvariant == Spec => []LeInv
  BY LeInitInv, LeStepInv, PTL DEF Spec

\* Schedulers, their calls, the lock and the framework IDs are well typed (NewSchedulerCore, Run).
THEOREM LeadershipTypes == Spec => []TypeOK
  <1>1. LeInv => TypeOK
    BY DEF LeInv, MmInv, LeTypes, TypeOK
  <1>. QED
    BY <1>1, LeInvariant, PTL

\* However many schedulers there are, and however often they are cut off or start
\* again, one that leads with the session it locked with holds the lock and owns the URI
\* that SetupFramework announced.
THEOREM LeaderOwnsUriSafe == Spec => []LeaderOwnsUri
  <1>1. LeInv => LeaderOwnsUri
    BY DEF LeInv, LockInv, UriInv, LeaderOwnsUri
  <1>. QED
    BY <1>1, LeInvariant, PTL

\* Two schedulers that lead with a session that lasts are the same one.
OneLeader ==
    \A t, u \in Procs :
        Leads(t) /\ ticket[t] = Current(t) /\ Leads(u) /\ ticket[u] = Current(u) => t = u

\* Two schedulers that are both past SetupFramework, with sessions that last, cannot
\* be: the lock is a lock.
THEOREM OneLeaderSafe == Spec => []OneLeader
  <1>1. LeInv => OneLeader
    <2>. SUFFICES ASSUME LeInv, NEW t \in Procs, NEW u \in Procs, Leads(t), ticket[t] = Current(t),
                         Leads(u), ticket[u] = Current(u)
                  PROVE  t = u
      BY DEF OneLeader
    <2>1. Head(queue) = Current(t) /\ Head(queue) = Current(u)
      BY DEF LeInv, LockInv, Leads
    <2>. QED
      BY <2>1 DEF Current
  <1>. QED
    BY <1>1, LeInvariant, PTL
=============================================================================
