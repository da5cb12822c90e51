------------------------------ MODULE CepmProofs ------------------------------
(***************************************************************************)
(* Any number of connections, processes and lost answers: the calls of the *)
(* port mapper stay well formed, and no registration is left to nobody.    *)
(***************************************************************************)
EXTENDS Cepm, MetadataProofs

ConnTypes ==
    /\ conn \in [Threads -> {"none", "calling", "registered", "deleting", "notfound", "port", "error", "closed"}]
    /\ open \subseteq Threads

\* What a registration is doing, by where its handler is.
RegistrationInv(t) ==
    /\ conn[t] \notin {"port", "notfound"}
    /\ conn[t] = "calling" => calls[t].op = "put" /\ calls[t].ephemeral
    /\ conn[t] \in {"registered", "error"} => calls[t].op = "put" /\ calls[t].pc = "idle"
    /\ conn[t] \in {"deleting", "closed"} => calls[t].op = "delete"

\* A connection calls for its own name alone; a query only reads.
ConnInv(t) ==
    /\ conn[t] = "none" => calls[t].op = "none"
    /\ calls[t].op # "none" => calls[t].path = NameOf[t]
    /\ t \in Registrations => RegistrationInv(t)
    /\ t \in Queries => calls[t].op \in {"none", "get"}

\* A keeper that reads back what it has written has lost an answer for each retry:
\* as long as its znode is there, no answer makes it try again.
Keeper(t) ==
    /\ Keeps(t)
    /\ conn[t] = "calling" /\ calls[t].pc = "fetch" => calls[t].try <= faults

KeptBy(p, t) == NameOf[t] = p /\ ProcOf[t] = znodes[p].owner[1] /\ Keeper(t)

\* Every name is ephemeral, and has its keeper, or a session that ends.
Kept(p) ==
    There(p) =>
        /\ znodes[p].owner \in Sessions
        /\ \/ Abandoned(znodes[p].owner)
           \/ \E t \in Registrations : KeptBy(p, t)
           \/ faults > MaxRetries

CepmInv ==
    /\ MmInv /\ ConnTypes
    /\ \A t \in Threads : ConnInv(t)
    /\ \A p \in Paths : Kept(p)

-----------------------------------------------------------------------------
(* What steps have in common *)

\* What the constants and the types say of a connection.
LEMMA CepmBasics ==
    ASSUME CepmInv, NEW t \in Threads
    PROVE  /\ ProcOf[t] \in Procs /\ NameOf[t] \in Paths /\ (t \in Registrations => PortOf[t] \in Data)
           /\ calls[t] \in Call /\ CallOK(calls[t]) /\ ConnInv(t)
           /\ (t \in Registrations \/ t \in Queries) /\ ~(t \in Registrations /\ t \in Queries)
           /\ faults \in Nat /\ MaxRetries \in Nat
  BY CepmAssumption, MetadataAssumption DEF CepmInv, MmInv, MmTypeOK

\* A session that was given up stays so.
LEMMA StaysAbandoned ==
    ASSUME MmTypeOK, MmTypeOK', NEW s \in Sessions, Abandoned(s), up' \subseteq up,
           \A q \in Procs : session'[q] >= session[q]
    PROVE  Abandoned(s)'
  <1>1. s[1] \in Procs /\ s[2] \in Nat
    BY DEF Sessions
  <1>2. session[s[1]] \in Nat /\ session'[s[1]] \in Nat
    BY <1>1 DEF MmTypeOK
  <1>3. session'[s[1]] >= session[s[1]]
    BY <1>1
  <1>. QED
    BY <1>1, <1>2, <1>3 DEF Abandoned

\* A name keeps its keeper, or the keeper has ended with its process, or too many
\* answers were lost.
LEMMA KeptFrame ==
    ASSUME CepmInv, MmInv', up' \subseteq up, \A q \in Procs : session'[q] >= session[q],
           faults' >= faults, NEW p \in Paths,
           There(p)' => /\ There(p) /\ znodes'[p].owner = znodes[p].owner
                        /\ \A t \in Registrations : NameOf[t] = p /\ Keeper(t) =>
                              Keeper(t)' \/ ProcOf[t] \notin up' \/ faults' > MaxRetries
    PROVE  Kept(p)'
  <1>. SUFFICES ASSUME There(p)' PROVE Kept(p)'
    BY DEF Kept
  <1>1. There(p) /\ znodes'[p].owner = znodes[p].owner /\ Kept(p) /\ znodes[p].owner \in Sessions
    BY DEF CepmInv, Kept
  <1>2. CASE Abandoned(znodes[p].owner)
    <2>1. PICK s \in Sessions : s = znodes[p].owner
      BY <1>1
    <2>2. Abandoned(s) /\ MmTypeOK /\ MmTypeOK'
      BY <1>2, <2>1 DEF CepmInv, MmInv
    <2>3. Abandoned(s)'
      BY <2>2, StaysAbandoned
    <2>. QED
      BY <1>1, <2>1, <2>3 DEF Kept, Abandoned
  <1>3. CASE \E t \in Registrations : KeptBy(p, t)
    <2>1. PICK t \in Registrations : KeptBy(p, t)
      BY <1>3
    <2>2. NameOf[t] = p /\ Keeper(t) /\ ProcOf[t] = znodes'[p].owner[1]
      BY <1>1, <2>1 DEF KeptBy
    <2>3. CASE Keeper(t)'
      BY <1>1, <2>2, <2>3 DEF Kept, KeptBy
    <2>4. CASE ProcOf[t] \notin up'
      BY <1>1, <2>2, <2>4 DEF Kept, Abandoned
    <2>5. CASE faults' > MaxRetries
      BY <1>1, <2>5 DEF Kept
    <2>. QED
      BY <2>2, <2>3, <2>4, <2>5
  <1>4. CASE faults > MaxRetries
    <2>1. faults \in Nat /\ faults' \in Nat /\ MaxRetries \in Nat
      BY MetadataAssumption DEF CepmInv, MmInv, MmTypeOK
    <2>. QED
      BY <1>1, <1>4, <2>1 DEF Kept
  <1>. QED
    BY <1>1, <1>2, <1>3, <1>4 DEF Kept

\* A step of a handler that leaves ZooKeeper and the other handlers alone.
LEMMA HandlerStep ==
    ASSUME CepmInv, MmInv', ConnTypes', NEW t \in Threads, UNCHANGED <<znodes, session, up, faults>>,
           \A u \in Threads : u # t => calls'[u] = calls[u] /\ conn'[u] = conn[u],
           ConnInv(t)', t \in Registrations /\ Keeper(t) => Keeper(t)'
    PROVE  CepmInv'
  <1>1. ASSUME NEW u \in Threads PROVE ConnInv(u)'
    <2>1. CASE u = t
      BY <2>1
    <2>2. CASE u # t
      BY <2>2 DEF CepmInv, ConnInv, RegistrationInv
    <2>. QED
      BY <2>1, <2>2
  <1>2. ASSUME NEW u \in Registrations, Keeper(u) PROVE Keeper(u)'
    <2>1. CASE u = t
      BY <1>2, <2>1
    <2>2. CASE u # t
      <3>1. calls'[u] = calls[u] /\ conn'[u] = conn[u]
        BY <2>2, CepmAssumption
      <3>. QED
        BY <1>2, <3>1 DEF Keeper, Keeps
    <2>. QED
      BY <2>1, <2>2
  <1>3. faults \in Nat /\ session \in [Procs -> 0 .. MaxSessions]
    BY MetadataAssumption DEF CepmInv, MmInv, MmTypeOK
  <1>4. \A q \in Procs : session'[q] >= session[q]
    BY <1>3, MetadataAssumption
  <1>5. ASSUME NEW p \in Paths PROVE Kept(p)'
    <2>1. There(p)' => There(p) /\ znodes'[p].owner = znodes[p].owner
      BY DEF There
    <2>2. up' \subseteq up /\ faults' >= faults
      BY <1>3
    <2>. QED
      BY <1>2, <1>4, <2>1, <2>2, KeptFrame
  <1>. QED
    BY <1>1, <1>5 DEF CepmInv

\* A handler calls the metadata manager for its name.
LEMMA NameCall ==
    ASSUME CepmInv, NEW t \in Threads, Idle(t), NEW op \in {"put", "get", "delete"},
           NEW data \in Data \cup {"none"}, op = "get" \/ data \in Data, NEW ephemeral \in BOOLEAN,
           Calls(t, op, NameOf[t], data, ephemeral)
    PROVE  /\ MmInv' /\ UNCHANGED <<znodes, session, up, faults>>
           /\ calls'[t].op = op /\ calls'[t].path = NameOf[t] /\ calls'[t].ephemeral = ephemeral
           /\ calls'[t].pc = FirstRequest[op]
           /\ \A u \in Threads : u # t => calls'[u] = calls[u]
  <1>1. NameOf[t] \in Paths /\ calls \in [Threads -> Call] /\ MmInv
    BY CepmBasics DEF CepmInv, MmInv, MmTypeOK
  <1>2. PICK path \in Paths : path = NameOf[t]
    BY <1>1
  <1>3. PICK c : c = NewCall(op, path, data, ephemeral)
    OBVIOUS
  <1>4. MmInv' /\ calls' = [calls EXCEPT ![t] = c] /\ UNCHANGED <<znodes, session, up, faults>>
    BY <1>1, <1>2, <1>3, CallsInv
  <1>5. c.op = op /\ c.path = path /\ c.ephemeral = ephemeral /\ c.pc = FirstRequest[op]
    BY <1>3, NewCallStep
  <1>. QED
    BY <1>1, <1>2, <1>4, <1>5

-----------------------------------------------------------------------------
(* The handlers *)

\* REGISTER: the connection was not there before.
LEMMA RegisterKeeps ==
    ASSUME CepmInv, NEW t \in Registrations, Register(t)
    PROVE  CepmInv'
  <1>1. /\ t \in Threads /\ Idle(t) /\ conn[t] = "none" /\ open' = open \cup {t}
        /\ conn' = [conn EXCEPT ![t] = "calling"] /\ Calls(t, "put", NameOf[t], PortOf[t], TRUE)
        /\ PortOf[t] \in Data /\ t \notin Queries
    BY CepmAssumption DEF Register, Connects, Goes
  <1>2. /\ MmInv' /\ UNCHANGED <<znodes, session, up, faults>>
        /\ calls'[t].op = "put" /\ calls'[t].path = NameOf[t] /\ calls'[t].ephemeral = TRUE
        /\ \A u \in Threads : u # t => calls'[u] = calls[u]
    BY <1>1, NameCall
  <1>3. ConnTypes' /\ conn'[t] = "calling" /\ \A u \in Threads : u # t => conn'[u] = conn[u]
    BY <1>1 DEF CepmInv, ConnTypes
  <1>4. ConnInv(t)'
    BY <1>1, <1>2, <1>3 DEF ConnInv, RegistrationInv
  <1>5. ~Keeper(t)
    BY <1>1 DEF Keeper, Keeps
  <1>. QED
    BY <1>1, <1>2, <1>3, <1>4, <1>5, HandlerStep

\* OK or ERROR: a registration that was refused was not a keeper any more.
LEMMA RegisteredKeeps ==
    ASSUME CepmInv, NEW t \in Registrations, Registered(t)
    PROVE  CepmInv'
  <1>1. /\ t \in Threads /\ Idle(t) /\ conn[t] = "calling" /\ UNCHANGED <<znodes, session, up, faults, calls>>
        /\ t \notin Queries
    BY CepmAssumption DEF Registered, mmVars
  <1>2. \/ calls[t].result = "ok" /\ conn' = [conn EXCEPT ![t] = "registered"] /\ open' = open
        \/ calls[t].result # "ok" /\ conn' = [conn EXCEPT ![t] = "error"] /\ open' = open \ {t}
    BY DEF Registered, Goes
  <1>3. MmInv'
    BY <1>1 DEF CepmInv, MmInv, MmTypeOK
  <1>4. ConnTypes' /\ \A u \in Threads : u # t => conn'[u] = conn[u]
    BY <1>1, <1>2 DEF CepmInv, ConnTypes
  <1>5. /\ conn'[t] \in {"registered", "error"}
        /\ calls[t].result = "ok" => conn'[t] = "registered"
    BY <1>1, <1>2 DEF CepmInv, ConnTypes
  <1>6. ConnInv(t)'
    <2>1. ConnInv(t) /\ calls[t].pc = "idle"
      BY <1>1 DEF CepmInv, Idle
    <2>. QED
      BY <1>1, <1>5, <2>1 DEF ConnInv, RegistrationInv
  <1>7. Keeper(t) => Keeper(t)'
    <2>1. calls[t].pc = "idle"
      BY <1>1 DEF Idle
    <2>. QED
      BY <1>1, <1>5, <2>1 DEF Keeper, Keeps
  <1>. QED
    BY <1>1, <1>3, <1>4, <1>6, <1>7, HandlerStep

\* The deferred Delete.
LEMMA DeregisterKeeps ==
    ASSUME CepmInv, NEW t \in Registrations, Deregister(t)
    PROVE  CepmInv'
  <1>1. /\ t \in Threads /\ Idle(t) /\ conn[t] = "registered" /\ open' = open
        /\ conn' = [conn EXCEPT ![t] = "deleting"] /\ Calls(t, "delete", NameOf[t], PortOf[t], FALSE)
        /\ PortOf[t] \in Data /\ t \notin Queries
    BY CepmAssumption DEF Deregister, Goes
  <1>2. /\ MmInv' /\ UNCHANGED <<znodes, session, up, faults>>
        /\ calls'[t].op = "delete" /\ calls'[t].path = NameOf[t] /\ calls'[t].pc = FirstRequest["delete"]
        /\ \A u \in Threads : u # t => calls'[u] = calls[u]
    BY <1>1, NameCall
  <1>3. ConnTypes' /\ conn'[t] = "deleting" /\ \A u \in Threads : u # t => conn'[u] = conn[u]
    BY <1>1 DEF CepmInv, ConnTypes
  <1>4. ConnInv(t)'
    BY <1>1, <1>2, <1>3 DEF ConnInv, RegistrationInv
  <1>5. Keeper(t)'
    BY <1>2, <1>3 DEF Keeper, Keeps, FirstRequest
  <1>. QED
    BY <1>1, <1>2, <1>3, <1>4, <1>5, HandlerStep

\* A handler whose Delete is over.
LEMMA CloseKeeps ==
    ASSUME CepmInv, NEW t \in Registrations, Close(t)
    PROVE  CepmInv'
  <1>1. /\ t \in Threads /\ Idle(t) /\ conn[t] = "deleting" /\ t \notin Queries
        /\ conn' = [conn EXCEPT ![t] = "closed"] /\ UNCHANGED <<znodes, session, up, faults, calls, open>>
    BY CepmAssumption DEF Close, Goes, mmVars
  <1>2. MmInv'
    BY <1>1 DEF CepmInv, MmInv, MmTypeOK
  <1>3. ConnTypes' /\ conn'[t] = "closed" /\ \A u \in Threads : u # t => conn'[u] = conn[u]
    BY <1>1 DEF CepmInv, ConnTypes
  <1>4. ConnInv(t)'
    <2>1. ConnInv(t)
      BY <1>1 DEF CepmInv
    <2>. QED
      BY <1>1, <1>3, <2>1 DEF ConnInv, RegistrationInv
  <1>5. ~Keeper(t)
    BY <1>1 DEF Keeper, Keeps, Idle
  <1>. QED
    BY <1>1, <1>2, <1>3, <1>4, <1>5, HandlerStep

\* PORT_PLEASE.
LEMMA PortPleaseKeeps ==
    ASSUME CepmInv, NEW t \in Queries, PortPlease(t)
    PROVE  CepmInv'
  <1>1. /\ t \in Threads /\ Idle(t) /\ conn[t] = "none" /\ open' = open \cup {t}
        /\ conn' = [conn EXCEPT ![t] = "calling"] /\ Calls(t, "get", NameOf[t], "none", FALSE)
        /\ t \notin Registrations
    BY CepmAssumption DEF PortPlease, Connects, Goes
  <1>2. /\ MmInv' /\ UNCHANGED <<znodes, session, up, faults>>
        /\ calls'[t].op = "get" /\ calls'[t].path = NameOf[t]
        /\ \A u \in Threads : u # t => calls'[u] = calls[u]
    BY <1>1, NameCall
  <1>3. ConnTypes' /\ conn'[t] = "calling" /\ \A u \in Threads : u # t => conn'[u] = conn[u]
    BY <1>1 DEF CepmInv, ConnTypes
  <1>4. ConnInv(t)'
    BY <1>1, <1>2, <1>3 DEF ConnInv
  <1>. QED
    BY <1>1, <1>2, <1>3, <1>4, HandlerStep

\* Its answer.
LEMMA AnswerKeeps ==
    ASSUME CepmInv, NEW t \in Queries, Answer(t)
    PROVE  CepmInv'
  <1>. PICK to \in {"port", "notfound"} : to = IF calls[t].result = "ok" THEN "port" ELSE "notfound"
    OBVIOUS
  <1>1. /\ t \in Threads /\ t \notin Registrations /\ open' = open \ {t}
        /\ conn' = [conn EXCEPT ![t] = to] /\ UNCHANGED <<znodes, session, up, faults, calls>>
    BY CepmAssumption DEF Answer, Goes, mmVars
  <1>2. MmInv'
    BY <1>1 DEF CepmInv, MmInv, MmTypeOK
  <1>3. ConnTypes' /\ conn'[t] = to /\ \A u \in Threads : u # t => conn'[u] = conn[u]
    BY <1>1 DEF CepmInv, ConnTypes
  <1>4. ConnInv(t)'
    <2>1. ConnInv(t)
      BY <1>1 DEF CepmInv
    <2>. QED
      BY <1>1, <1>3, <2>1 DEF ConnInv
  <1>. QED
    BY <1>1, <1>2, <1>3, <1>4, HandlerStep

\* A client that hangs up.
LEMMA HangUpKeeps ==
    ASSUME CepmInv, NEW t \in Threads, HangUp(t)
    PROVE  CepmInv'
  <1>1. open' = open \ {t} /\ UNCHANGED <<znodes, session, up, faults, calls, conn>>
    BY DEF HangUp, mmVars
  <1>2. MmInv' /\ ConnTypes' /\ ConnInv(t)'
    BY <1>1 DEF CepmInv, MmInv, MmTypeOK, ConnTypes, ConnInv, RegistrationInv
  <1>3. Keeper(t) => Keeper(t)'
    BY <1>1 DEF Keeper, Keeps
  <1>. QED
    BY <1>1, <1>2, <1>3, HandlerStep

-----------------------------------------------------------------------------
(* Requests, and the end of sessions and processes *)

\* Where a request leaves a registration: it is still on its way, or it has what it
\* reads back, its process is gone, too many answers were lost, or the name is not
\* there any more.
StillKeeps(t, c) ==
    \/ c.pc \notin {"idle", "fetch"}
    \/ c.pc = "fetch" /\ c.try <= faults'
    \/ c.pc = "idle" /\ c.result = "ok" /\ calls[t].op = "put"
    \/ c.result = "panic"
    \/ faults' > MaxRetries
    \/ calls[t].path \notin DOMAIN znodes'

\* A put, request by request.
LEMMA PutKeeps ==
    ASSUME CepmInv, NEW t \in Registrations, t \in Threads, Request(t), conn[t] = "calling",
           Keeper(t) \/ Creates(t)
    PROVE  \E c : Outcome(t, c) /\ StillKeeps(t, c)
  <1>1. /\ calls[t].op = "put" /\ MmInv /\ calls[t] \in Call /\ faults \in Nat /\ MaxRetries \in Nat
        /\ calls[t].try \in Nat
    BY CepmBasics DEF CepmInv, ConnInv, RegistrationInv, Call
  <1>2. Lost(t) => faults' = faults + 1
    BY <1>1, CountsStep DEF MmInv
  <1>3. \A c : Outcome(t, c) => faults' \in Nat
    BY <1>1, CountsStep DEF MmInv, Outcome
  <1>4. CASE Exists(t)
    BY <1>1, <1>4, ExistsOutcome DEF Moved, Retried, StillKeeps
  <1>5. CASE Get(t)
    BY <1>1, <1>3, <1>5, GetOutcome DEF Moved, Retried, StillKeeps
  <1>6. CASE Set(t)
    BY <1>1, <1>3, <1>6, SetOutcome DEF Moved, Retried, StillKeeps
  <1>7. CASE Create(t)
    BY <1>1, <1>3, <1>7, CreateOutcome DEF Retried, StillKeeps
  <1>8. CASE Fetch(t)
    <2>1. /\ calls[t].pc = "fetch" /\ znodes' = znodes
          /\ \E c : /\ Outcome(t, c)
                    /\ \/ There(calls[t].path) /\ Ended(c, calls[t], "ok") /\ c.got = znodes[calls[t].path].data
                       \/ Answered /\ ~There(calls[t].path) /\ (Ended(c, calls[t], "nonode") \/ Moved(c, calls[t], "fetch"))
                       \/ Lost(t) /\ Ended(c, calls[t], "lost") /\ calls[t].try >= MaxRetries
                       \/ Lost(t) /\ Moved(c, calls[t], "fetch") /\ c.try = calls[t].try + 1
      BY <1>1, <1>8, FetchOutcome
    <2>2. calls[t].try <= faults
      BY <2>1 DEF Keeper, Creates
    <2>3. PICK c : /\ Outcome(t, c)
                   /\ \/ There(calls[t].path) /\ Ended(c, calls[t], "ok") /\ c.got = znodes[calls[t].path].data
                      \/ Answered /\ ~There(calls[t].path) /\ (Ended(c, calls[t], "nonode") \/ Moved(c, calls[t], "fetch"))
                      \/ Lost(t) /\ Ended(c, calls[t], "lost") /\ calls[t].try >= MaxRetries
                      \/ Lost(t) /\ Moved(c, calls[t], "fetch") /\ c.try = calls[t].try + 1
      BY <2>1
    <2>4. CASE There(calls[t].path) /\ Ended(c, calls[t], "ok")
      BY <1>1, <2>3, <2>4 DEF Ended, StillKeeps
    <2>5. CASE ~There(calls[t].path)
      BY <2>1, <2>3, <2>5 DEF There, StillKeeps
    <2>6. CASE Lost(t) /\ Ended(c, calls[t], "lost") /\ calls[t].try >= MaxRetries
      BY <1>1, <1>2, <2>2, <2>3, <2>6 DEF StillKeeps
    <2>7. CASE Lost(t) /\ Moved(c, calls[t], "fetch") /\ c.try = calls[t].try + 1
      BY <1>1, <1>2, <2>2, <2>3, <2>7 DEF Moved, StillKeeps
    <2>. QED
      BY <2>3, <2>4, <2>5, <2>6, <2>7
  <1>9. CASE Delete(t)
    BY <1>1, <1>9, DeleteOutcome
  <1>. QED
    BY <1>4, <1>5, <1>6, <1>7, <1>8, <1>9 DEF Request

\* A delete: performed, or tried again.
LEMMA DeleteKeeps ==
    ASSUME CepmInv, NEW t \in Registrations, t \in Threads, Request(t), conn[t] = "deleting"
    PROVE  (\E c : Outcome(t, c) /\ StillKeeps(t, c)) /\ ~Creates(t)
  <1>1. calls[t].op = "delete" /\ MmInv
    BY CepmBasics DEF CepmInv, ConnInv, RegistrationInv
  <1>2. Delete(t)
    BY <1>1, ExistsOutcome, GetOutcome, SetOutcome, CreateOutcome, FetchOutcome DEF Request
  <1>3. /\ calls[t].pc = "delete"
        /\ \E c : /\ Outcome(t, c)
                  /\ \/ Deletes(t) /\ Written(c, calls[t])
                     \/ znodes' = znodes /\ Retried(c, calls[t], "delete")
    BY <1>1, <1>2, DeleteOutcome
  <1>4. Deletes(t) => calls[t].path \notin DOMAIN znodes'
    BY DEF Deletes, There, Restrict
  <1>. QED
    BY <1>3, <1>4 DEF Retried, StillKeeps, Creates

\* A goroutine that is at a request is registering, deleting, or asking.
LEMMA RequestConn ==
    ASSUME CepmInv, NEW t \in Threads, calls[t].pc \in RequestsOf(calls[t].op)
    PROVE  /\ calls[t].pc # "idle" /\ calls[t].op # "none" /\ calls[t].path = NameOf[t]
           /\ t \in Registrations => conn[t] \in {"calling", "deleting", "closed"}
           /\ t \in Queries => calls[t].op = "get"
           /\ t \in Queries \/ conn[t] \in {"deleting", "closed"} => ~Creates(t)
  <1>1. calls[t] \in Call /\ ConnInv(t) /\ conn[t] \in {"none", "calling", "registered", "deleting", "notfound", "port", "error", "closed"}
    BY CepmBasics DEF CepmInv, ConnTypes
  <1>2. /\ calls[t].op # "none" /\ calls[t].pc # "idle"
        /\ calls[t].op \in {"get", "delete"} => calls[t].pc # "create"
    BY <1>1 DEF RequestsOf, Call
  <1>3. conn[t] # "none" /\ calls[t].path = NameOf[t]
    BY <1>1, <1>2 DEF ConnInv
  <1>4. t \in Registrations => /\ conn[t] \in {"calling", "deleting", "closed"}
                               /\ conn[t] \in {"deleting", "closed"} => calls[t].op = "delete"
    BY <1>1, <1>2, <1>3 DEF ConnInv, RegistrationInv
  <1>5. t \in Queries => calls[t].op = "get"
    BY <1>1, <1>2 DEF ConnInv
  <1>6. t \in Registrations \/ t \in Queries
    BY CepmAssumption
  <1>7. t \in Queries \/ conn[t] \in {"deleting", "closed"} => calls[t].pc # "create"
    BY <1>2, <1>4, <1>5, <1>6
  <1>8. Creates(t) => calls[t].pc = "create"
    BY DEF Creates
  <1>. QED
    BY <1>2, <1>3, <1>4, <1>5, <1>7, <1>8

\* The name that a registration makes is its own to keep.
LEMMA CreatesKept ==
    ASSUME CepmInv, MmInv', NEW t \in Registrations, t \in Threads, conn[t] = "calling", conn' = conn,
           NEW c, Outcome(t, c), StillKeeps(t, c), Creates(t), NEW p \in Paths, p = calls[t].path
    PROVE  Kept(p)'
  <1>1. /\ calls[t].ephemeral /\ calls[t].op = "put" /\ calls[t].path = NameOf[t] /\ ProcOf[t] \in Procs
        /\ calls \in [Threads -> Call]
    BY CepmBasics DEF ConnInv, RegistrationInv, CepmInv, MmInv, MmTypeOK
  <1>2. session[ProcOf[t]] \in 0 .. MaxSessions
    BY <1>1 DEF CepmInv, MmInv, MmTypeOK
  <1>3. There(p)' /\ znodes'[p].owner = <<ProcOf[t], session[ProcOf[t]]>>
    BY <1>1 DEF Creates, There, Owner
  <1>4. znodes'[p].owner \in Sessions /\ znodes'[p].owner[1] = ProcOf[t]
    <2>1. PICK q \in Procs, n \in 0 .. MaxSessions : q = ProcOf[t] /\ n = session[ProcOf[t]]
      BY <1>1, <1>2
    <2>2. znodes'[p].owner = <<q, n>>
      BY <1>3, <2>1
    <2>. QED
      BY <2>1, <2>2 DEF Sessions
  <1>5. calls'[t] = c /\ (c.result = "panic" => ProcOf[t] \notin up')
    BY <1>1 DEF Outcome
  <1>6. CASE c.result = "panic"
    BY <1>4, <1>5, <1>6 DEF Kept, Abandoned
  <1>7. CASE faults' > MaxRetries
    BY <1>4, <1>7 DEF Kept
  <1>8. CASE c.result # "panic" /\ ~(faults' > MaxRetries)
    <2>1. \/ c.pc \notin {"idle", "fetch"}
          \/ c.pc = "fetch" /\ c.try <= faults'
          \/ c.pc = "idle" /\ c.result = "ok"
      BY <1>3, <1>8 DEF StillKeeps, There
    <2>2. Keeper(t)'
      BY <1>5, <2>1 DEF Keeper, Keeps
    <2>. QED
      BY <1>1, <1>4, <2>2 DEF Kept, KeptBy
  <1>. QED
    BY <1>6, <1>7, <1>8

\* A request, whatever becomes of it.
LEMMA RequestKeeps ==
    ASSUME CepmInv, NEW t \in Threads, Request(t), Unaffected
    PROVE  CepmInv'
  <1>1. UNCHANGED <<conn, open>> /\ MmInv /\ MmInv' /\ ConnTypes'
    BY RequestInv DEF Unaffected, CepmInv, ConnTypes
  <1>2. Touches(t) /\ \E c : Outcome(t, c)
    BY <1>1, RequestOutcome
  <1>3. PICK d : Outcome(t, d)
    BY <1>2
  <1>4. calls[t].pc \in RequestsOf(calls[t].op) /\ calls \in [Threads -> Call] /\ up' \subseteq up
    BY <1>1, <1>3 DEF Outcome, MmInv, MmTypeOK
  <1>5. /\ \A q \in Procs : session'[q] >= session[q]
        /\ faults \in Nat /\ faults' \in Nat /\ faults' >= faults
    <2>1. session \in [Procs -> 0 .. MaxSessions] /\ faults \in 0 .. MaxFaults
      BY <1>1 DEF MmInv, MmTypeOK
    <2>2. /\ \A p \in Procs : p # ProcOf[t] => session'[p] = session[p]
          /\ session'[ProcOf[t]] >= session[ProcOf[t]]
          /\ faults' = faults \/ faults' = faults + 1
      BY <1>1, <1>3, CountsStep DEF MmInv, Outcome
    <2>. QED
      BY <2>1, <2>2, MetadataAssumption
  <1>6. ASSUME NEW u \in Threads PROVE ConnInv(u)' /\ (u # t => calls'[u] = calls[u])
    <2>1. ConnInv(u)
      BY DEF CepmInv
    <2>2. CASE u # t
      <3>1. calls'[u] = calls[u]
        BY <1>3, <1>4, <2>2 DEF Outcome
      <3>. QED
        BY <1>1, <2>1, <3>1 DEF ConnInv, RegistrationInv
    <2>3. CASE u = t
      <3>1. SameArgs(calls'[t], calls[t]) /\ calls[t].pc # "idle"
        BY <1>3, <1>4, RequestConn DEF Outcome, Follows
      <3>2. t \in Registrations => conn[t] \notin {"registered", "error"}
        BY <1>4, RequestConn
      <3>. QED
        BY <1>1, <2>1, <2>3, <3>1, <3>2 DEF ConnInv, RegistrationInv, SameArgs
    <2>. QED
      BY <2>2, <2>3
  <1>7. \A u \in Registrations : u # t /\ Keeper(u) => Keeper(u)'
    <2>. SUFFICES ASSUME NEW u \in Registrations, u # t, Keeper(u) PROVE Keeper(u)'
      OBVIOUS
    <2>1. u \in Threads /\ calls'[u] = calls[u] /\ calls[u].try \in Nat
      BY <1>4, <1>6, CepmAssumption, MetadataAssumption DEF Call
    <2>. QED
      BY <1>1, <1>5, <2>1 DEF Keeper, Keeps
  <1>8. ASSUME NEW p \in Paths PROVE Kept(p)'
    <2>1. CASE p # calls[t].path
      <3>1. (There(p)' <=> There(p)) /\ (There(p) => znodes'[p] = znodes[p])
        BY <1>2, <2>1, OthersKept
      <3>2. calls[t].path = NameOf[t]
        BY <1>4, RequestConn
      <3>. QED
        BY <1>1, <1>4, <1>5, <1>7, <2>1, <3>1, <3>2, KeptFrame
    <2>2. CASE p = calls[t].path /\ Creates(t)
      <3>1. t \in Registrations /\ conn[t] = "calling"
        BY <1>4, <2>2, RequestConn, CepmAssumption
      <3>2. PICK c : Outcome(t, c) /\ StillKeeps(t, c)
        BY <2>2, <3>1, PutKeeps
      <3>. QED
        BY <1>1, <2>2, <3>1, <3>2, CreatesKept
    <2>3. CASE p = calls[t].path /\ ~Creates(t)
      <3>1. There(p)' => There(p) /\ znodes'[p].owner = znodes[p].owner
        <4>1. CASE Sets(t)
          <5>1. /\ p \in DOMAIN znodes
                /\ znodes' = [znodes EXCEPT ![p].data = calls[t].data, ![p].version = @ + 1]
            BY <2>3, <4>1 DEF Sets, There
          <5>2. znodes'[p] = [znodes[p] EXCEPT !.data = calls[t].data, !.version = @ + 1] /\ znodes[p] \in Znode
            BY <1>1, <5>1 DEF MmInv, MmTypeOK
          <5>. QED
            BY <5>1, <5>2 DEF There, Znode
        <4>2. CASE Deletes(t)
          BY <4>2 DEF Deletes, There, Restrict
        <4>. QED
          BY <1>2, <2>3, <4>1, <4>2 DEF Touches, There
      <3>2. ASSUME t \in Registrations, Keeper(t), There(p)'
            PROVE  Keeper(t)' \/ ProcOf[t] \notin up' \/ faults' > MaxRetries
        <4>1. conn[t] \in {"calling", "deleting"}
          BY <1>4, <3>2, RequestConn DEF Keeper, Keeps
        <4>2. PICK c : Outcome(t, c) /\ StillKeeps(t, c)
          BY <3>2, <4>1, PutKeeps, DeleteKeeps
        <4>3. calls'[t] = c /\ (c.result = "panic" => ProcOf[t] \notin up')
          BY <1>4, <4>2 DEF Outcome
        <4>4. conn[t] = "deleting" => calls[t].op = "delete"
          BY <3>2, CepmBasics DEF ConnInv, RegistrationInv
        <4>5. \/ c.pc \notin {"idle", "fetch"}
              \/ c.pc = "fetch" /\ c.try <= faults'
              \/ c.pc = "idle" /\ c.result = "ok" /\ calls[t].op = "put"
              \/ c.result = "panic"
              \/ faults' > MaxRetries
          BY <2>3, <3>2, <4>2 DEF StillKeeps, There
        <4>. QED
          BY <1>1, <4>1, <4>3, <4>4, <4>5 DEF Keeper, Keeps
      <3>. QED
        BY <1>1, <1>4, <1>5, <1>7, <3>1, <3>2, KeptFrame
    <2>. QED
      BY <2>1, <2>2, <2>3
  <1>. QED
    BY <1>1, <1>6, <1>8 DEF CepmInv

\* A session that expires takes its names with it.
LEMMA ExpireKeeps ==
    ASSUME CepmInv, NEW s \in Sessions, Expire(s), Unaffected
    PROVE  CepmInv'
  <1>1. UNCHANGED <<conn, open>> /\ MmInv /\ ConnTypes' /\ SessionEnds(s)
    BY DEF Unaffected, CepmInv, ConnTypes, Expire
  <1>2. /\ MmInv' /\ UNCHANGED <<up, faults, calls>>
        /\ \A q \in Procs : session'[q] >= session[q]
        /\ \A p : There(p)' => There(p) /\ znodes'[p] = znodes[p]
    BY <1>1, SessionEndsInv
  <1>3. \A t \in Threads : ConnInv(t)'
    BY <1>1, <1>2 DEF CepmInv, ConnInv, RegistrationInv
  <1>4. \A t \in Registrations : Keeper(t) => Keeper(t)'
    BY <1>1, <1>2 DEF Keeper, Keeps
  <1>5. up' \subseteq up /\ faults' >= faults
    BY <1>1, <1>2, MetadataAssumption DEF MmInv, MmTypeOK
  <1>6. \A p \in Paths : Kept(p)'
    BY <1>2, <1>4, <1>5, KeptFrame
  <1>. QED
    BY <1>1, <1>2, <1>3, <1>6 DEF CepmInv

\* A process that ends leaves its sessions to expire.
LEMMA CrashKeeps ==
    ASSUME CepmInv, NEW p \in Procs, Crash(p), open' = {t \in open : ProcOf[t] # p}, UNCHANGED conn
    PROVE  CepmInv'
  <1>1. up' \subseteq up /\ UNCHANGED <<znodes, session, faults, calls, conn>> /\ MmInv /\ MmInv' /\ ConnTypes'
    BY CrashInv DEF CepmInv, Crash, ConnTypes
  <1>2. \A t \in Threads : ConnInv(t)'
    BY <1>1 DEF CepmInv, ConnInv, RegistrationInv
  <1>3. \A t \in Registrations : Keeper(t) => Keeper(t)'
    BY <1>1 DEF Keeper, Keeps
  <1>4. faults' >= faults /\ \A q \in Procs : session'[q] >= session[q]
    BY <1>1, MetadataAssumption DEF MmInv, MmTypeOK
  <1>5. \A q : There(q)' => There(q) /\ znodes'[q].owner = znodes[q].owner
    BY <1>1 DEF There
  <1>6. \A q \in Paths : Kept(q)'
    BY <1>1, <1>3, <1>4, <1>5, KeptFrame
  <1>. QED
    BY <1>1, <1>2, <1>6 DEF CepmInv

-----------------------------------------------------------------------------
(* The theorems *)

\* There is nothing to keep at first.
LEMMA CepmInitially == Init => CepmInv
  <1>. SUFFICES ASSUME Init PROVE CepmInv
    OBVIOUS
  <1>1. /\ session = [p \in Procs |-> 0] /\ up = Procs /\ faults = 0 /\ calls = [t \in Threads |-> NoCall]
        /\ DOMAIN znodes = {} /\ conn = [t \in Threads |-> "none"] /\ open = {}
    BY DEF Init, MmInit
  <1>2. NoCall \in Call
    <2>1. 0 \in 0 .. MaxRetries
      BY MetadataAssumption
    <2>. QED
      BY <2>1 DEF NoCall, Call, Result, NoStat
  <1>3. MmTypeOK
    BY <1>1, <1>2, MetadataAssumption DEF MmTypeOK
  <1>4. NoCall.op = "none" /\ NoCall.pc = "idle" /\ NoCall.result = "none"
    BY DEF NoCall
  <1>5. MmInv
    BY <1>1, <1>3, <1>4 DEF MmInv, CallOK
  <1>6. ConnTypes /\ \A t \in Threads : ConnInv(t)
    BY <1>1, <1>4 DEF ConnTypes, ConnInv, RegistrationInv
  <1>7. \A p \in Paths : Kept(p)
    BY <1>1 DEF Kept, There
  <1>. QED
    BY <1>5, <1>6, <1>7 DEF CepmInv

\* Every step keeps it.
LEMMA CepmStep == CepmInv /\ [Next]_vars => CepmInv'
  <1>. SUFFICES ASSUME CepmInv, [Next]_vars PROVE CepmInv'
    OBVIOUS
  <1>1. ASSUME NEW t \in Registrations, Register(t) \/ Handler(t) PROVE CepmInv'
    BY <1>1, RegisterKeeps, RegisteredKeeps, DeregisterKeeps, CloseKeeps DEF Handler
  <1>2. ASSUME NEW t \in Queries, PortPlease(t) \/ Answer(t) PROVE CepmInv'
    BY <1>2, PortPleaseKeeps, AnswerKeeps
  <1>3. ASSUME NEW t \in Threads, HangUp(t) \/ (Request(t) /\ Unaffected) PROVE CepmInv'
    BY <1>3, HangUpKeeps, RequestKeeps
  <1>4. ASSUME NEW s \in Sessions, Expire(s) /\ Unaffected PROVE CepmInv'
    BY <1>4, ExpireKeeps
  <1>5. ASSUME NEW p \in Procs, Crash(p), open' = {t \in open : ProcOf[t] # p}, UNCHANGED conn PROVE CepmInv'
    BY <1>5, CrashKeeps
  <1>6. CASE UNCHANGED vars
    <2>1. UNCHANGED <<znodes, session, up, faults, calls, conn, open>>
      BY <1>6 DEF vars, mmVars
    <2>2. MmInv' /\ ConnTypes' /\ \A t \in Threads : ConnInv(t)'
      BY <2>1 DEF CepmInv, MmInv, MmTypeOK, ConnTypes, ConnInv, RegistrationInv
    <2>3. \A p \in Paths : Kept(p)'
      BY <2>1 DEF CepmInv, Kept, KeptBy, Keeper, Keeps, There, Abandoned
    <2>. QED
      BY <2>2, <2>3 DEF CepmInv
  <1>. QED
    BY <1>1, <1>2, <1>3, <1>4, <1>5, <1>6 DEF Next

\* cepmd's invariant.
LEMMA CepmInvariant == Spec => []CepmInv
  BY CepmInitially, CepmStep, PTL DEF Spec

\* Every connection's handler and every call it makes of the metadata manager stay
\* well formed, whatever is lost, however often.
THEOREM CepmTypes == Spec => []TypeOK
  <1>1. CepmInv => TypeOK
    BY DEF CepmInv, ConnTypes, MmInv, TypeOK
  <1>. QED
    BY <1>1, CepmInvariant, PTL

\* cepm.go registers a name and defers its Delete in one goroutine, which a lost
\* answer, a retry, another connection or a panic may disturb: a name that is
\* registered has a goroutine of its process that is still to delete it, or a session
\* that was given up, unless more answers were lost than a read is repeated.
THEOREM NameHasKeeperSafe == Spec => []NameHasKeeper
  <1>1. CepmInv => NameHasKeeper
    <2>. SUFFICES ASSUME CepmInv, NEW p \in DOMAIN znodes
                  PROVE  \/ Abandoned(znodes[p].owner)
                         \/ \E t \in Registrations : NameOf[t] = p /\ ProcOf[t] = znodes[p].owner[1] /\ Keeps(t)
                         \/ faults > MaxRetries
      BY DEF NameHasKeeper
    <2>1. Kept(p) /\ There(p)
      BY DEF CepmInv, MmInv, MmTypeOK, There
    <2>. QED
      BY <2>1 DEF Kept, KeptBy, Keeper
  <1>. QED
    BY <1>1, CepmInvariant, PTL
=============================================================================
