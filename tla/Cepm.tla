-------------------------------- MODULE Cepm --------------------------------
(***************************************************************************)
(* cepmd/cepm/cepm.go: the port mapper that every executor and scheduler   *)
(* runs for the Erlang nodes on its agent. A goroutine per connection: a   *)
(* registration lasts as long as its TCP connection, in an ephemeral znode *)
(* named after the Erlang node; queries read the znodes of all agents. The *)
(* clients (erlang_dist/src/erl_epmd.erl) hang up when their virtual       *)
(* machine ends, or after five seconds without an answer.                  *)
(***************************************************************************)
EXTENDS MetadataManager

CONSTANTS
    Registrations, Queries, \* the connections, by their first line
    NameOf, PortOf          \* what they ask for

ASSUME CepmAssumption ==
    /\ Threads = Registrations \cup Queries
    /\ Registrations \cap Queries = {}
    /\ NameOf \in [Threads -> Paths] /\ PortOf \in [Registrations -> Data]

VARIABLES
    conn,       \* handleConn, for each connection
    open        \* the connections that their client has not closed

vars == <<mmVars, conn, open>>

\* The connections of cepmd/ and their calls are well typed, retries within MaxRetries.
TypeOK ==
    /\ MmTypeOK
    /\ conn \in [Threads -> {"none", "calling", "registered", "deleting", "notfound", "port", "error", "closed"}]
    /\ open \subseteq Threads

Init ==
    /\ MmInit(Procs)
    /\ znodes = [p \in {} |-> {}]
    /\ conn = [t \in Threads |-> "none"]
    /\ open = {}

Goes(t, to) == conn' = [conn EXCEPT ![t] = to]

\* A name belongs to one virtual machine at a time, and that one registers once.
Connects(t) ==
    /\ Idle(t) /\ conn[t] = "none"
    /\ open' = open \cup {t}
    /\ Goes(t, "calling")

\* register_node: REGISTER.
Register(t) ==
    /\ Connects(t)
    /\ \A u \in open \cap Registrations : NameOf[u] # NameOf[t]
    /\ Calls(t, "put", NameOf[t], PortOf[t], TRUE)

\* Mutant: the answer cannot be written, and handleConn returns before its defer.
RegisteredIfOpen(t) ==
    /\ Idle(t) /\ conn[t] = "calling"
    /\ IF calls[t].result = "ok" /\ t \in open
       THEN Goes(t, "registered") /\ UNCHANGED open
       ELSE Goes(t, "error") /\ open' = open \ {t}
    /\ UNCHANGED mmVars

\* OK; ERROR closes the connection.
Registered(t) ==
    /\ Idle(t) /\ conn[t] = "calling"
    /\ IF calls[t].result = "ok"
       THEN Goes(t, "registered") /\ UNCHANGED open
       ELSE Goes(t, "error") /\ open' = open \ {t}
    /\ UNCHANGED mmVars

HangUp(t) ==
    /\ t \in open
    /\ open' = open \ {t}
    /\ UNCHANGED <<mmVars, conn>>

\* conn.Read returns: the deferred node.Delete().
Deregister(t) ==
    /\ Idle(t) /\ conn[t] = "registered" /\ t \notin open
    /\ Calls(t, "delete", NameOf[t], PortOf[t], FALSE)
    /\ Goes(t, "deleting")
    /\ UNCHANGED open

Close(t) ==
    /\ Idle(t) /\ conn[t] = "deleting"
    /\ Goes(t, "closed")
    /\ UNCHANGED <<mmVars, open>>

\* port_please: PORT_PLEASE, and its answer.
PortPlease(t) ==
    /\ Connects(t)
    /\ Calls(t, "get", NameOf[t], "none", FALSE)

Answer(t) ==
    /\ Idle(t) /\ conn[t] = "calling"
    /\ Goes(t, IF calls[t].result = "ok" THEN "port" ELSE "notfound")
    /\ open' = open \ {t}
    /\ UNCHANGED mmVars

Unaffected == UNCHANGED <<conn, open>>

Handler(t) == Registered(t) \/ Deregister(t) \/ Close(t)

Next ==
    \/ \E t \in Registrations : Register(t) \/ Handler(t)
    \/ \E t \in Queries : PortPlease(t) \/ Answer(t)
    \/ \E t \in Threads : HangUp(t) \/ (Request(t) /\ Unaffected)
    \/ \E s \in Sessions : Expire(s) /\ Unaffected
    \/ \E p \in Procs : Crash(p) /\ open' = {t \in open : ProcOf[t] # p} /\ UNCHANGED conn

Spec == Init /\ [][Next]_vars

\* Goroutines run, and ZooKeeper ends the sessions that nobody keeps alive.
Fairness ==
    /\ \A t \in Threads : WF_vars(Request(t) /\ Unaffected)
    /\ \A t \in Registrations : WF_vars(Handler(t))
    /\ \A s \in Sessions : WF_vars(Abandoned(s) /\ Expire(s) /\ Unaffected)

FairSpec == Spec /\ Fairness

-----------------------------------------------------------------------------
(* Properties *)

Held(name) == \E t \in open \cap Registrations : NameOf[t] = name /\ ProcOf[t] \in up

\* A goroutine that is to delete its name: while it registers, once it has, and until
\* its Delete is over.
Keeps(t) ==
    \/ conn[t] = "calling" /\ (calls[t].pc # "idle" \/ calls[t].result = "ok")
    \/ conn[t] = "registered"
    \/ conn[t] = "deleting" /\ calls[t].pc # "idle"

\* No registration is left to nobody: as long as a znode is there, a goroutine of
\* the process that made it is still to delete it, or the session it belongs to has
\* been given up and will expire. It takes a connection, its retries, a second
\* connection with the same name and the end of sessions or processes to break it,
\* and more lost answers than there are retries for it to fail.
NameHasKeeper ==
    \A p \in DOMAIN znodes :
        \/ Abandoned(znodes[p].owner)
        \/ \E t \in Registrations : NameOf[t] = p /\ ProcOf[t] = znodes[p].owner[1] /\ Keeps(t)
        \/ faults > MaxRetries

\* A name that nobody holds any more is forgotten, also when the answer to the
\* Delete is lost, when its connection ends while it is being registered, when
\* another connection's Delete comes first and makes this one panic, and when the
\* executor crashes at any point in between. It takes more lost answers than there
\* are retries (a registration that is written, cannot be read back, and is refused)
\* for a name to stay.
NameIsForgotten ==
    \A name \in Paths :
        (There(name) /\ ~Held(name)) ~> (~There(name) \/ Held(name) \/ faults > MaxRetries)

\* cepmd/protocol.txt:8, "TCP disconnect unregisters node": nothing else does. A
\* node that has its OK stays registered, with its port, until it disconnects.
RegisteredUntilDisconnect ==
    \A t \in Registrations : conn[t] = "registered" /\ t \in open /\ ProcOf[t] \in up =>
        There(NameOf[t]) /\ znodes[NameOf[t]].data = PortOf[t]

\* cepmd/cepm/cepm.go:58, "Right now, if this fails, we blow up the entire process":
\* if the process is still there, the registration has been written.
RegistrationIsWritten ==
    \A t \in Registrations : conn[t] = "registered" => calls[t].wrote > 0 \/ calls[t].op = "delete"
=============================================================================
