--------------------------- MODULE MetadataProofs ----------------------------
(***************************************************************************)
(* What any program may rely on that is written with the operations of     *)
(* metadata_manager/manager.go: calls stay well formed, no call is tried   *)
(* more often than it should be, a panic ends its process, and a request   *)
(* touches no znode but its own.                                           *)
(***************************************************************************)
EXTENDS MetadataManager, TLAPS

\* The requests that a call can be at.
RequestsOf(op) ==
    CASE op = "none" -> {}
      [] op = "set" -> {"get", "set"}
      [] op = "ensure" -> {"exists", "create"}
      [] op = "make" -> {"create", "fetch"}
      [] op = "put" -> {"exists", "get", "set", "create", "fetch"}
      [] op = "get" -> {"fetch"}
      [] op = "delete" -> {"delete"}

\* A call is at one of its requests and has no result yet, or it is over.
CallOK(call) ==
    \/ call.pc \in RequestsOf(call.op) /\ call.result = "none"
    \/ call.pc = "idle" /\ (call.op # "none" => call.result # "none")

\* Types, and a goroutine that has panicked has no process any more.
MmInv ==
    /\ MmTypeOK
    /\ \A t \in Threads :
          /\ CallOK(calls[t])
          /\ calls[t].op # "none" => calls[t].path \in Paths
          /\ calls[t].op \notin {"none", "get"} => calls[t].data \in Data
          /\ calls[t].result = "panic" => ProcOf[t] \notin up

\* The arguments of a call never change.
SameArgs(c, d) == c.op = d.op /\ c.path = d.path /\ c.data = d.data /\ c.ephemeral = d.ephemeral

\* c is a later stage of call d.
Follows(c, d) == c \in Call /\ SameArgs(c, d) /\ CallOK(c)

-----------------------------------------------------------------------------
(* The parts that requests are made of *)

\* The end of a call.
LEMMA DoneStep ==
    ASSUME NEW call \in Call, NEW r \in Result \ {"none"}
    PROVE  /\ Follows(Done(call, r), call)
           /\ Done(call, r).pc = "idle" /\ Done(call, r).result = r
           /\ Done(call, r).wrote = call.wrote /\ Done(call, r).try = call.try
  <1>. DEFINE c == Done(call, r)
  <1>1. c \in Call
    BY DEF Done, Call
  <1>2. /\ SameArgs(c, call)
        /\ c.pc = "idle" /\ c.result = r /\ c.wrote = call.wrote /\ c.try = call.try
    BY DEF Done, Call, SameArgs
  <1>. QED
    BY <1>1, <1>2 DEF Follows, CallOK

\* Once more, or a panic after MaxRetries.
LEMMA AgainStep ==
    ASSUME NEW call \in Call, NEW pc \in RequestsOf(call.op), call.result = "none"
    PROVE  LET c == Again(call, pc)
           IN  /\ Follows(c, call) /\ c.wrote = call.wrote
               /\ \/ c.pc = pc /\ c.result = "none" /\ c.try = call.try + 1
                  \/ c.pc = "idle" /\ c.result = "panic" /\ c.try = call.try /\ call.try >= MaxRetries
  <1>1. CASE call.try >= MaxRetries
    <2>1. Again(call, pc) = Done(call, "panic")
      BY <1>1 DEF Again
    <2>. QED
      BY <1>1, <2>1, DoneStep DEF Result
  <1>2. CASE ~(call.try >= MaxRetries)
    <2>. DEFINE c == [call EXCEPT !.pc = pc, !.try = @ + 1]
    <2>1. Again(call, pc) = c
      BY <1>2 DEF Again
    <2>2. pc \in {"exists", "get", "set", "create", "fetch", "delete"}
      BY DEF RequestsOf, Call
    <2>3. c \in Call
      <3>1. call.try + 1 \in 0 .. MaxRetries
        BY <1>2, MetadataAssumption DEF Call
      <3>. QED
        BY <2>2, <3>1 DEF Call
    <2>4. /\ c.pc = pc /\ c.result = "none" /\ c.try = call.try + 1 /\ c.wrote = call.wrote
          /\ SameArgs(c, call)
      BY DEF Call, SameArgs
    <2>5. CallOK(c)
      BY <2>4 DEF CallOK, SameArgs
    <2>. QED
      BY <2>1, <2>3, <2>4, <2>5 DEF Follows
  <1>. QED
    BY <1>1, <1>2

\* On to another request of the call.
LEMMA GoesOn ==
    ASSUME NEW call \in Call, NEW pc \in RequestsOf(call.op), call.result = "none"
    PROVE  LET c == [call EXCEPT !.pc = pc]
           IN  /\ Follows(c, call)
               /\ c.pc = pc /\ c.result = "none" /\ c.wrote = call.wrote /\ c.try = call.try
  <1>. DEFINE c == [call EXCEPT !.pc = pc]
  <1>1. pc \in {"exists", "get", "set", "create", "fetch", "delete"}
    BY DEF RequestsOf, Call
  <1>2. c \in Call
    BY <1>1 DEF Call
  <1>3. /\ SameArgs(c, call)
        /\ c.pc = pc /\ c.result = "none" /\ c.wrote = call.wrote /\ c.try = call.try
    BY DEF Call, SameArgs
  <1>. QED
    BY <1>2, <1>3 DEF Follows, CallOK, SameArgs

\* Fetch returns the data it has read.
LEMMA GotStep ==
    ASSUME NEW call \in Call, NEW got \in Data
    PROVE  LET c == [call EXCEPT !.got = got]
           IN  c \in Call /\ SameArgs(c, call) /\ c.pc = call.pc /\ c.wrote = call.wrote /\ c.got = got
  BY DEF Call, SameArgs

\* Writing counts.
LEMMA WroteStep ==
    ASSUME NEW call \in Call
    PROVE  LET c == Wrote(call)
           IN  /\ c \in Call /\ SameArgs(c, call)
               /\ c.pc = call.pc /\ c.result = call.result /\ c.try = call.try
               /\ c.wrote = call.wrote + 1
  <1>1. call.wrote + 1 \in Nat
    BY DEF Call
  <1>. QED
    BY <1>1 DEF Wrote, Call, SameArgs

\* getNode, and its retries.
LEMMA FetchStep ==
    ASSUME NEW call \in Call, call.result = "none", "fetch" \in RequestsOf(call.op), NEW e \in {"nonode", "lost"}
    PROVE  /\ Follows(Fetching(call), call)
           /\ Fetching(call).pc = "fetch" /\ Fetching(call).result = "none" /\ Fetching(call).wrote = call.wrote
           /\ Fetching(call).try = 0
           /\ call.pc = "fetch" =>
                 LET c == FetchAgain(call, e)
                 IN  /\ Follows(c, call) /\ c.wrote = call.wrote
                     /\ \/ c.pc = "fetch" /\ c.result = "none" /\ c.try = call.try + 1
                        \/ c.pc = "idle" /\ c.result = e /\ call.try >= MaxRetries
  <1>1. /\ Fetching(call) \in Call /\ SameArgs(Fetching(call), call)
        /\ Fetching(call).pc = "fetch" /\ Fetching(call).result = "none" /\ Fetching(call).wrote = call.wrote
        /\ Fetching(call).try = 0
    <2>1. 0 \in 0 .. MaxRetries
      BY MetadataAssumption
    <2>. QED
      BY <2>1 DEF Fetching, Call, SameArgs
  <1>2. Follows(Fetching(call), call)
    BY <1>1 DEF Follows, CallOK, SameArgs
  <1>3. ASSUME call.pc = "fetch"
        PROVE  LET c == FetchAgain(call, e)
               IN  /\ Follows(c, call) /\ c.wrote = call.wrote
                   /\ \/ c.pc = "fetch" /\ c.result = "none" /\ c.try = call.try + 1
                      \/ c.pc = "idle" /\ c.result = e /\ call.try >= MaxRetries
    <2>1. CASE call.try >= MaxRetries
      <3>1. FetchAgain(call, e) = Done(call, e)
        BY <2>1 DEF FetchAgain
      <3>. QED
        BY <2>1, <3>1, DoneStep DEF Result
    <2>2. CASE ~(call.try >= MaxRetries)
      <3>. DEFINE c == [call EXCEPT !.try = @ + 1]
      <3>1. FetchAgain(call, e) = c
        BY <2>2 DEF FetchAgain
      <3>2. call.try + 1 \in 0 .. MaxRetries
        BY <2>2, MetadataAssumption DEF Call
      <3>3. /\ c \in Call /\ SameArgs(c, call)
            /\ c.pc = "fetch" /\ c.result = "none" /\ c.wrote = call.wrote /\ c.try = call.try + 1
        BY <1>3, <3>2 DEF Call, SameArgs
      <3>4. CallOK(c)
        BY <3>3 DEF CallOK, SameArgs
      <3>. QED
        BY <3>1, <3>3, <3>4 DEF Follows
    <2>. QED
      BY <2>1, <2>2
  <1>. QED
    BY <1>1, <1>2, <1>3

\* Stages of a call follow one another.
LEMMA FollowsTransitive ==
    ASSUME NEW b, NEW c, NEW d, Follows(c, b), SameArgs(b, d)
    PROVE  Follows(c, d)
  BY DEF Follows, SameArgs

\* c is d again after a failed request: at pc, or a panic.
Retried(c, d, pc) ==
    /\ Follows(c, d) /\ c.wrote = d.wrote
    /\ \/ c.pc = pc /\ c.result = "none" /\ c.try = d.try + 1
       \/ c.pc = "idle" /\ c.result = "panic" /\ d.try >= MaxRetries

\* c is d on its way, at pc.
Moved(c, d, pc) ==
    Follows(c, d) /\ c.wrote = d.wrote /\ c.pc = pc /\ c.result = "none"

\* Get remembers the version it has read.
Found(call, stat) == [call EXCEPT !.pc = "set", !.stat = stat]

\* It goes on to the set.
LEMMA FoundStep ==
    ASSUME NEW call \in Call, call.result = "none", NEW stat \in Nat, "set" \in RequestsOf(call.op)
    PROVE  Moved(Found(call, stat), call, "set") /\ Found(call, stat).stat = stat /\ Found(call, stat).try = call.try
  <1>. DEFINE c == Found(call, stat)
  <1>1. c \in Call
    BY DEF Call, Found
  <1>2. /\ SameArgs(c, call) /\ c.pc = "set" /\ c.result = "none" /\ c.wrote = call.wrote
        /\ c.stat = stat /\ c.try = call.try
    BY DEF Call, SameArgs, Found
  <1>. QED
    BY <1>1, <1>2 DEF Follows, CallOK, SameArgs, Moved

\* After a failed get or set: SetData starts again, makeNodeWithData reads.
LEMMA SetFailsStep ==
    ASSUME NEW call \in Call, call.op \in {"set", "put"}, call.result = "none"
    PROVE  /\ call.op = "set" => Retried(SetFails(call), call, "get")
           /\ call.op = "put" => Moved(SetFails(call), call, "fetch") /\ SetFails(call).try = 0
  <1>1. ASSUME call.op = "set" PROVE Retried(SetFails(call), call, "get")
    <2>1. SetFails(call) = Again(call, "get") /\ "get" \in RequestsOf(call.op)
      BY <1>1 DEF SetFails, RequestsOf
    <2>. QED
      BY <2>1, AgainStep DEF Retried
  <1>2. ASSUME call.op = "put" PROVE Moved(SetFails(call), call, "fetch") /\ SetFails(call).try = 0
    <2>1. SetFails(call) = Fetching(call) /\ "fetch" \in RequestsOf(call.op)
      BY <1>2 DEF SetFails, RequestsOf
    <2>. QED
      BY <2>1, FetchStep DEF Moved
  <1>. QED
    BY <1>1, <1>2

\* After a failed create: createIfNotExists and makeNodeWithData look again, the others create.
LEMMA CreateFailsStep ==
    ASSUME NEW call \in Call, call.op \in {"ensure", "make", "put"}, call.result = "none"
    PROVE  Retried(CreateFails(call), call, IF call.op \in {"ensure", "put"} THEN "exists" ELSE "create")
  <1>. DEFINE pc == IF call.op \in {"ensure", "put"} THEN "exists" ELSE "create"
  <1>1. CreateFails(call) = Again(call, pc)
    BY DEF CreateFails, FirstRequest
  <1>2. pc \in RequestsOf(call.op)
    BY DEF RequestsOf
  <1>. HIDE DEF pc
  <1>3. Retried(Again(call, pc), call, pc)
    BY <1>2, AgainStep DEF Retried
  <1>. QED
    BY <1>1, <1>3 DEF pc

\* c is what d becomes at the end, with a result.
Ended(c, d, result) == Follows(c, d) /\ c.wrote = d.wrote /\ c.pc = "idle" /\ c.result = result

\* After a create that was performed and answered.
LEMMA CreateSucceedsStep ==
    ASSUME NEW call \in Call, call.op \in {"ensure", "make", "put"}, call.result = "none"
    PROVE  /\ call.op = "ensure" => Ended(CreateSucceeds(call), call, "ok")
           /\ call.op \in {"make", "put"} => Moved(CreateSucceeds(call), call, "fetch") /\ CreateSucceeds(call).try = 0
  <1>1. ASSUME call.op = "ensure" PROVE Ended(CreateSucceeds(call), call, "ok")
    <2>1. CreateSucceeds(call) = Done(call, "ok")
      BY <1>1 DEF CreateSucceeds
    <2>. QED
      BY <2>1, DoneStep DEF Ended, Result
  <1>2. ASSUME call.op \in {"make", "put"} PROVE Moved(CreateSucceeds(call), call, "fetch") /\ CreateSucceeds(call).try = 0
    <2>1. CreateSucceeds(call) = Fetching(call) /\ "fetch" \in RequestsOf(call.op)
      BY <1>2 DEF CreateSucceeds, RequestsOf
    <2>. QED
      BY <2>1, FetchStep DEF Moved
  <1>. QED
    BY <1>1, <1>2

\* After a set that was performed and answered.
LEMMA SetSucceedsStep ==
    ASSUME NEW call \in Call, call.op \in {"set", "put"}, call.result = "none"
    PROVE  /\ call.op = "set" => Ended(SetSucceeds(call), call, "ok")
           /\ call.op = "put" => Moved(SetSucceeds(call), call, "fetch") /\ SetSucceeds(call).try = 0
  <1>1. ASSUME call.op = "set" PROVE Ended(SetSucceeds(call), call, "ok")
    <2>1. SetSucceeds(call) = Done(call, "ok")
      BY <1>1 DEF SetSucceeds
    <2>. QED
      BY <2>1, DoneStep DEF Ended, Result
  <1>2. ASSUME call.op = "put" PROVE Moved(SetSucceeds(call), call, "fetch") /\ SetSucceeds(call).try = 0
    <2>1. SetSucceeds(call) = Fetching(call) /\ "fetch" \in RequestsOf(call.op)
      BY <1>2 DEF SetSucceeds, RequestsOf
    <2>. QED
      BY <2>1, FetchStep DEF Moved
  <1>. QED
    BY <1>1, <1>2

-----------------------------------------------------------------------------
(* The requests *)

\* A request of t, performed or not: its call goes on as c.
Outcome(t, c) ==
    /\ ProcOf[t] \in up
    /\ calls' = [calls EXCEPT ![t] = c]
    /\ up' = IF c.result = "panic" THEN up \ {ProcOf[t]} ELSE up
    /\ Follows(c, calls[t])
    /\ calls[t].pc \in RequestsOf(calls[t].op)
    /\ Answered \/ Lost(t)

\* What a set, a create and a delete do when they are performed.
Sets(t) ==
    LET path == calls[t].path
    IN  /\ calls[t].pc = "set" /\ There(path) /\ znodes[path].version = calls[t].stat
        /\ znodes' = [znodes EXCEPT ![path].data = calls[t].data, ![path].version = @ + 1]

Creates(t) ==
    LET path == calls[t].path
        new == [data |-> calls[t].data, version |-> 0, owner |-> Owner(t)]
    IN  /\ calls[t].pc = "create" /\ ~There(path)
        /\ znodes' = [p \in DOMAIN znodes \cup {path} |-> IF p = path THEN new ELSE znodes[p]]

Deletes(t) ==
    /\ calls[t].pc = "delete" /\ There(calls[t].path)
    /\ znodes' = Restrict(znodes, DOMAIN znodes \ {calls[t].path})

\* The call of a goroutine that is at a request.
LEMMA AtRequest ==
    ASSUME MmInv, NEW t \in Threads, NEW pc, Requests(t, pc), pc # "idle"
    PROVE  /\ calls[t] \in Call /\ calls[t].pc = pc /\ ProcOf[t] \in up
           /\ calls[t].pc \in RequestsOf(calls[t].op) /\ calls[t].result = "none"
           /\ pc = "exists" => calls[t].op \in {"ensure", "put"}
           /\ pc \in {"get", "set"} => calls[t].op \in {"set", "put"}
           /\ pc = "create" => calls[t].op \in {"ensure", "make", "put"}
           /\ pc = "fetch" => calls[t].op \in {"make", "put", "get"}
           /\ pc = "delete" => calls[t].op = "delete"
  <1>1. calls[t] \in Call /\ calls[t].pc = pc /\ ProcOf[t] \in up /\ CallOK(calls[t])
    BY DEF MmInv, MmTypeOK, Requests
  <1>2. calls[t].pc \in RequestsOf(calls[t].op) /\ calls[t].result = "none"
    BY <1>1 DEF CallOK
  <1>3. calls[t].op \in {"none", "set", "ensure", "make", "put", "get", "delete"}
    BY <1>1 DEF Call
  <1>. QED
    BY <1>1, <1>2, <1>3 DEF RequestsOf

\* Exists, of createIfNotExists and makeNodeWithData.
LEMMA ExistsOutcome ==
    ASSUME MmInv, NEW t \in Threads, Exists(t)
    PROVE  /\ znodes' = znodes /\ calls[t].op \in {"ensure", "put"} /\ calls[t].pc = "exists"
           /\ \E c : /\ Outcome(t, c)
                     /\ \/ Answered /\ ~There(calls[t].path) /\ Moved(c, calls[t], "create") /\ c.try = calls[t].try
                        \/ Answered /\ There(calls[t].path) /\ calls[t].op = "ensure" /\ Ended(c, calls[t], "ok")
                        \/ Answered /\ There(calls[t].path) /\ calls[t].op = "put" /\ Moved(c, calls[t], "get")
                        \/ Lost(t) /\ Retried(c, calls[t], "exists")
  <1>. DEFINE call == calls[t]
              good == IF ~There(call.path) THEN [call EXCEPT !.pc = "create"]
                      ELSE IF call.op = "ensure" THEN Done(call, "ok") ELSE [call EXCEPT !.pc = "get"]
              bad == Again(call, "exists")
  <1>1. Requests(t, "exists") /\ Read(t, good, bad)
    BY DEF Exists
  <1>2. /\ call \in Call /\ call.op \in {"ensure", "put"} /\ call.result = "none" /\ ProcOf[t] \in up
        /\ call.pc = "exists" /\ call.pc \in RequestsOf(call.op)
    BY <1>1, AtRequest
  <1>. HIDE DEF call
  <1>3. "exists" \in RequestsOf(call.op) /\ "create" \in RequestsOf(call.op) /\ (call.op = "put" => "get" \in RequestsOf(call.op))
    BY <1>2 DEF RequestsOf
  <1>4. Retried(bad, call, "exists")
    BY <1>2, <1>3, AgainStep DEF Retried
  <1>5. CASE ~There(call.path)
    <2>1. Moved(good, call, "create") /\ good.try = call.try
      BY <1>2, <1>3, <1>5, GoesOn DEF Moved
    <2>. QED
      BY <1>1, <1>2, <1>4, <1>5, <2>1 DEF Read, Becomes, Outcome, Moved, Retried, call
  <1>6. CASE There(call.path) /\ call.op = "ensure"
    <2>1. Ended(good, call, "ok")
      BY <1>2, <1>6, DoneStep DEF Ended, Result
    <2>. QED
      BY <1>1, <1>2, <1>4, <1>6, <2>1 DEF Read, Becomes, Outcome, Ended, Retried, call
  <1>7. CASE There(call.path) /\ call.op = "put"
    <2>1. Moved(good, call, "get")
      BY <1>2, <1>3, <1>7, GoesOn DEF Moved
    <2>. QED
      BY <1>1, <1>2, <1>4, <1>7, <2>1 DEF Read, Becomes, Outcome, Moved, Retried, call
  <1>. QED
    BY <1>2, <1>5, <1>6, <1>7

\* Get, before a set.
LEMMA GetOutcome ==
    ASSUME MmInv, NEW t \in Threads, Get(t)
    PROVE  /\ znodes' = znodes /\ calls[t].op \in {"set", "put"} /\ calls[t].pc = "get"
           /\ \E c : /\ Outcome(t, c)
                     /\ \/ /\ There(calls[t].path) /\ Moved(c, calls[t], "set") /\ Answered
                           /\ c.stat = znodes[calls[t].path].version /\ c.try = calls[t].try
                        \/ /\ calls[t].op = "set" /\ Retried(c, calls[t], "get")
                           /\ Lost(t) \/ (Answered /\ ~There(calls[t].path))
                        \/ calls[t].op = "put" /\ Moved(c, calls[t], "fetch") /\ c.try = 0
  <1>. DEFINE call == calls[t]
              found == [call EXCEPT !.pc = "set", !.stat = znodes[call.path].version]
              bad == SetFails(call)
              good == IF There(call.path) THEN found ELSE bad
  <1>1. Requests(t, "get") /\ Read(t, good, bad)
    BY DEF Get
  <1>2. /\ call \in Call /\ call.op \in {"set", "put"} /\ call.result = "none" /\ ProcOf[t] \in up
        /\ call.pc = "get" /\ call.pc \in RequestsOf(call.op)
    BY <1>1, AtRequest
  <1>3. There(call.path) => znodes[call.path].version \in Nat
    BY DEF There, MmInv, MmTypeOK, Znode
  <1>. HIDE DEF call
  <1>4. "set" \in RequestsOf(call.op)
    BY <1>2 DEF RequestsOf
  <1>5. /\ call.op = "set" => Retried(bad, call, "get")
        /\ call.op = "put" => Moved(bad, call, "fetch") /\ bad.try = 0
    BY <1>2, SetFailsStep
  <1>6. There(call.path) => Moved(found, call, "set") /\ found.stat = znodes[call.path].version /\ found.try = call.try
    <2>1. ASSUME There(call.path)
          PROVE  Moved(found, call, "set") /\ found.stat = znodes[call.path].version /\ found.try = call.try
      <3>. DEFINE stat == znodes[call.path].version
      <3>1. stat \in Nat
        BY <1>3, <2>1
      <3>. HIDE DEF stat
      <3>2. Moved(Found(call, stat), call, "set") /\ Found(call, stat).stat = stat /\ Found(call, stat).try = call.try
        BY <1>2, <1>4, <3>1, FoundStep
      <3>. QED
        BY <3>2 DEF stat, Found
    <2>. QED
      BY <2>1
  <1>. HIDE DEF found, bad
  <1>7. CASE Answered /\ Becomes(t, good) /\ There(call.path)
    BY <1>1, <1>2, <1>6, <1>7 DEF Read, Becomes, Outcome, Moved, call
  <1>8. CASE (Lost(t) \/ (Answered /\ ~There(call.path))) /\ Becomes(t, bad)
    BY <1>1, <1>2, <1>5, <1>8 DEF Read, Becomes, Outcome, Moved, Retried, call
  <1>. QED
    BY <1>1, <1>7, <1>8 DEF Read

\* What a write makes of the call: performed, and answered or not.
Written(c, d) == Follows(c, d) /\ c.wrote = d.wrote + 1

\* A stage after a write.
LEMMA WrittenStep ==
    ASSUME NEW d \in Call, NEW c, Follows(c, Wrote(d)), c.wrote = Wrote(d).wrote
    PROVE  Written(c, d)
  BY WroteStep, FollowsTransitive DEF Written

\* Set: one write at most.
LEMMA SetOutcome ==
    ASSUME MmInv, NEW t \in Threads, Set(t)
    PROVE  /\ calls[t].op \in {"set", "put"} /\ calls[t].pc = "set"
           /\ \E c : /\ Outcome(t, c)
                     /\ \/ /\ Sets(t) /\ Written(c, calls[t])
                           /\ calls[t].op = "set" =>
                                 \/ Answered /\ c.pc = "idle" /\ c.result = "ok"
                                 \/ Lost(t) /\ c.pc = "get" /\ c.result = "none" /\ c.try = calls[t].try + 1
                                 \/ Lost(t) /\ c.pc = "idle" /\ c.result = "panic" /\ calls[t].try >= MaxRetries
                           /\ calls[t].op = "put" => c.pc = "fetch" /\ c.result = "none" /\ c.try = 0
                        \/ /\ znodes' = znodes /\ calls[t].op = "set" /\ Retried(c, calls[t], "get")
                           /\ \/ Lost(t)
                              \/ Answered /\ ~(There(calls[t].path) /\ znodes[calls[t].path].version = calls[t].stat)
                        \/ znodes' = znodes /\ calls[t].op = "put" /\ Moved(c, calls[t], "fetch") /\ c.try = 0
  <1>. DEFINE call == calls[t]
              possible == There(call.path) /\ znodes[call.path].version = call.stat
              after == [znodes EXCEPT ![call.path].data = call.data, ![call.path].version = @ + 1]
              good == SetSucceeds(Wrote(call))
              late == SetFails(Wrote(call))
              bad == SetFails(call)
  <1>1. Requests(t, "set") /\ Write(t, possible, after, good, late, bad)
    BY DEF Set
  <1>2. /\ call \in Call /\ call.op \in {"set", "put"} /\ call.result = "none" /\ ProcOf[t] \in up
        /\ call.pc = "set" /\ call.pc \in RequestsOf(call.op)
    BY <1>1, AtRequest
  <1>3. Sets(t) <=> possible /\ znodes' = after
    BY <1>2 DEF Sets
  <1>. HIDE DEF call, possible, after
  <1>4. /\ Wrote(call) \in Call /\ Wrote(call).op = call.op /\ Wrote(call).result = "none"
        /\ Wrote(call).op \in {"set", "put"} /\ Wrote(call).try = call.try
    BY <1>2, WroteStep DEF SameArgs
  <1>5. /\ call.op = "set" => Ended(good, Wrote(call), "ok") /\ Retried(late, Wrote(call), "get")
        /\ call.op = "put" => /\ Moved(good, Wrote(call), "fetch") /\ good.try = 0
                              /\ Moved(late, Wrote(call), "fetch") /\ late.try = 0
    BY <1>4, SetSucceedsStep, SetFailsStep
  <1>6. /\ call.op = "set" => Retried(bad, call, "get")
        /\ call.op = "put" => Moved(bad, call, "fetch") /\ bad.try = 0
    BY <1>2, SetFailsStep
  <1>. HIDE DEF good, late, bad
  <1>7. /\ Written(good, call) /\ Written(late, call)
        /\ call.op = "set" => /\ good.pc = "idle" /\ good.result = "ok"
                              /\ \/ late.pc = "idle" /\ late.result = "panic" /\ call.try >= MaxRetries
                                 \/ late.pc = "get" /\ late.result = "none" /\ late.try = call.try + 1
        /\ call.op = "put" => /\ good.pc = "fetch" /\ good.result = "none" /\ good.try = 0
                              /\ late.pc = "fetch" /\ late.result = "none" /\ late.try = 0
    BY <1>2, <1>4, <1>5, WrittenStep DEF Ended, Retried, Moved
  <1>8. CASE possible /\ znodes' = after /\ Answered /\ Becomes(t, good)
    BY <1>2, <1>3, <1>7, <1>8 DEF Becomes, Outcome, Written, call
  <1>9. CASE possible /\ znodes' = after /\ Lost(t) /\ Becomes(t, late)
    BY <1>2, <1>3, <1>7, <1>9 DEF Becomes, Outcome, Written, call
  <1>10. CASE ((~possible /\ Answered) \/ Lost(t)) /\ Becomes(t, bad) /\ UNCHANGED znodes
    <2>1. Outcome(t, bad)
      BY <1>2, <1>6, <1>10 DEF Becomes, Outcome, Moved, Retried, call
    <2>. QED
      BY <1>2, <1>6, <1>10, <2>1 DEF call, possible
  <1>. QED
    BY <1>1, <1>8, <1>9, <1>10 DEF Write

\* Create: refused if the node is there.
LEMMA CreateOutcome ==
    ASSUME MmInv, NEW t \in Threads, Create(t)
    PROVE  LET op == calls[t].op
               again == IF op \in {"ensure", "put"} THEN "exists" ELSE "create"
           IN  /\ op \in {"ensure", "make", "put"} /\ calls[t].pc = "create"
               /\ \E c : /\ Outcome(t, c)
                         /\ \/ /\ Creates(t) /\ Written(c, calls[t])
                               /\ \/ /\ Answered
                                     /\ op = "ensure" => c.pc = "idle" /\ c.result = "ok"
                                     /\ op \in {"make", "put"} => c.pc = "fetch" /\ c.result = "none" /\ c.try = 0
                                  \/ Lost(t) /\ c.pc = again /\ c.result = "none" /\ c.try = calls[t].try + 1
                                  \/ Lost(t) /\ c.pc = "idle" /\ c.result = "panic" /\ calls[t].try >= MaxRetries
                            \/ /\ znodes' = znodes /\ Retried(c, calls[t], again)
                               /\ (Lost(t) \/ (Answered /\ There(calls[t].path)))
  <1>. DEFINE call == calls[t]
              again == IF call.op \in {"ensure", "put"} THEN "exists" ELSE "create"
              new == [data |-> call.data, version |-> 0, owner |-> Owner(t)]
              possible == ~There(call.path)
              after == [p \in DOMAIN znodes \cup {call.path} |-> IF p = call.path THEN new ELSE znodes[p]]
              good == CreateSucceeds(Wrote(call))
              late == CreateFails(Wrote(call))
              bad == CreateFails(call)
  <1>1. Requests(t, "create") /\ Write(t, possible, after, good, late, bad)
    BY DEF Create
  <1>2. /\ call \in Call /\ call.op \in {"ensure", "make", "put"} /\ call.result = "none"
        /\ ProcOf[t] \in up /\ call.pc = "create" /\ call.pc \in RequestsOf(call.op)
    BY <1>1, AtRequest
  <1>3. Creates(t) <=> possible /\ znodes' = after
    BY <1>2 DEF Creates
  <1>. HIDE DEF call, after
  <1>4. /\ Wrote(call) \in Call /\ Wrote(call).op = call.op /\ Wrote(call).result = "none"
        /\ Wrote(call).op \in {"ensure", "make", "put"} /\ Wrote(call).try = call.try
    BY <1>2, WroteStep DEF SameArgs
  <1>5. Retried(late, Wrote(call), again) /\ Retried(bad, call, again)
    BY <1>2, <1>4, CreateFailsStep
  <1>6. /\ call.op = "ensure" => Ended(good, Wrote(call), "ok")
        /\ call.op \in {"make", "put"} => Moved(good, Wrote(call), "fetch") /\ good.try = 0
    BY <1>4, CreateSucceedsStep
  <1>. HIDE DEF good, late, bad
  <1>7. /\ Written(good, call) /\ Written(late, call)
        /\ \/ late.pc = "idle" /\ late.result = "panic" /\ call.try >= MaxRetries
           \/ late.pc = again /\ late.result = "none" /\ late.try = call.try + 1
        /\ call.op = "ensure" => good.pc = "idle" /\ good.result = "ok"
        /\ call.op \in {"make", "put"} => good.pc = "fetch" /\ good.result = "none" /\ good.try = 0
    <2>1. Follows(good, Wrote(call)) /\ good.wrote = Wrote(call).wrote
      BY <1>2, <1>6 DEF Ended, Moved
    <2>2. Follows(late, Wrote(call)) /\ late.wrote = Wrote(call).wrote
      BY <1>5 DEF Retried
    <2>3. Written(good, call) /\ Written(late, call)
      BY <1>2, <2>1, <2>2, WrittenStep
    <2>4. \/ late.pc = "idle" /\ late.result = "panic" /\ call.try >= MaxRetries
          \/ late.pc = again /\ late.result = "none" /\ late.try = call.try + 1
      BY <1>4, <1>5 DEF Retried
    <2>. QED
      BY <1>6, <2>3, <2>4 DEF Ended, Moved
  <1>8. CASE possible /\ znodes' = after /\ Answered /\ Becomes(t, good)
    BY <1>2, <1>3, <1>7, <1>8 DEF Becomes, Outcome, Written, call
  <1>9. CASE possible /\ znodes' = after /\ Lost(t) /\ Becomes(t, late)
    BY <1>2, <1>3, <1>7, <1>9 DEF Becomes, Outcome, Written, call
  <1>10. CASE ((~possible /\ Answered) \/ Lost(t)) /\ Becomes(t, bad) /\ UNCHANGED znodes
    <2>1. Outcome(t, bad)
      BY <1>2, <1>5, <1>10 DEF Becomes, Outcome, Retried, call
    <2>2. znodes' = znodes /\ (Lost(t) \/ (Answered /\ There(call.path)))
      BY <1>10 DEF There
    <2>. QED
      BY <1>2, <1>5, <2>1, <2>2 DEF call
  <1>. QED
    BY <1>1, <1>8, <1>9, <1>10 DEF Write

\* getNode: what it returns without an error is what it read.
LEMMA FetchOutcome ==
    ASSUME MmInv, NEW t \in Threads, Fetch(t)
    PROVE  /\ znodes' = znodes /\ calls[t].op \in {"make", "put", "get"} /\ calls[t].pc = "fetch"
           /\ \E c : /\ Outcome(t, c)
                     /\ \/ There(calls[t].path) /\ Ended(c, calls[t], "ok") /\ c.got = znodes[calls[t].path].data
                        \/ Answered /\ ~There(calls[t].path) /\ (Ended(c, calls[t], "nonode") \/ Moved(c, calls[t], "fetch"))
                        \/ Lost(t) /\ Ended(c, calls[t], "lost") /\ calls[t].try >= MaxRetries
                        \/ Lost(t) /\ Moved(c, calls[t], "fetch") /\ c.try = calls[t].try + 1
  <1>. DEFINE call == calls[t]
              data == znodes[call.path].data
              read == [call EXCEPT !.got = data]
              nonode == FetchAgain(call, "nonode")
              lost == FetchAgain(call, "lost")
              good == IF There(call.path) THEN Done(read, "ok") ELSE nonode
  <1>1. Requests(t, "fetch") /\ Read(t, good, lost)
    BY DEF Fetch
  <1>2. /\ call \in Call /\ call.op \in {"make", "put", "get"} /\ call.result = "none" /\ ProcOf[t] \in up
        /\ call.pc = "fetch" /\ call.pc \in RequestsOf(call.op)
    BY <1>1, AtRequest
  <1>3. There(call.path) => data \in Data
    BY DEF There, MmInv, MmTypeOK, Znode
  <1>. HIDE DEF call, data
  <1>4. There(call.path) => Ended(Done(read, "ok"), call, "ok") /\ Done(read, "ok").got = data
    <2>. SUFFICES ASSUME There(call.path)
                  PROVE  Ended(Done(read, "ok"), call, "ok") /\ Done(read, "ok").got = data
      OBVIOUS
    <2>1. read \in Call /\ SameArgs(read, call) /\ read.wrote = call.wrote /\ read.got = data
      BY <1>2, <1>3 DEF Call, SameArgs
    <2>. HIDE DEF read
    <2>2. Ended(Done(read, "ok"), read, "ok")
      BY <2>1, DoneStep DEF Ended, Result
    <2>3. Done(read, "ok").got = data
      BY <2>1 DEF Done, Call
    <2>. QED
      BY <2>1, <2>2, <2>3, FollowsTransitive DEF Ended
  <1>5. \A e \in {"nonode", "lost"} :
            \/ Ended(FetchAgain(call, e), call, e) /\ call.try >= MaxRetries
            \/ Moved(FetchAgain(call, e), call, "fetch") /\ FetchAgain(call, e).try = call.try + 1
    BY <1>2, FetchStep DEF Ended, Moved
  <1>. HIDE DEF read
  <1>6. CASE Answered /\ Becomes(t, good) /\ There(call.path)
    BY <1>1, <1>2, <1>4, <1>6 DEF Read, Becomes, Outcome, Ended, call, data
  <1>7. CASE Answered /\ Becomes(t, good) /\ ~There(call.path)
    <2>1. good = nonode /\ (Ended(nonode, call, "nonode") \/ Moved(nonode, call, "fetch"))
      BY <1>5, <1>7
    <2>. HIDE DEF good, nonode
    <2>. QED
      BY <1>1, <1>2, <1>7, <2>1 DEF Read, Becomes, Outcome, Ended, Moved, call
  <1>8. CASE Lost(t) /\ Becomes(t, lost)
    <2>1. \/ Ended(lost, call, "lost") /\ call.try >= MaxRetries
          \/ Moved(lost, call, "fetch") /\ lost.try = call.try + 1
      BY <1>5
    <2>. HIDE DEF lost
    <2>. QED
      BY <1>1, <1>2, <1>8, <2>1 DEF Read, Becomes, Outcome, Ended, Moved, call
  <1>. QED
    BY <1>1, <1>6, <1>7, <1>8 DEF Read

\* Delete.
LEMMA DeleteOutcome ==
    ASSUME MmInv, NEW t \in Threads, Delete(t)
    PROVE  /\ calls[t].op = "delete" /\ calls[t].pc = "delete"
           /\ \E c : /\ Outcome(t, c)
                     /\ \/ Deletes(t) /\ Written(c, calls[t])
                        \/ znodes' = znodes /\ Retried(c, calls[t], "delete")
  <1>. DEFINE call == calls[t]
              after == Restrict(znodes, DOMAIN znodes \ {call.path})
              good == Done(Wrote(call), "ok")
              late == Again(Wrote(call), "delete")
              bad == Again(call, "delete")
  <1>1. Requests(t, "delete") /\ Write(t, There(call.path), after, good, late, bad)
    BY DEF Delete, DeleteSucceeds, DeleteFails
  <1>2. /\ call \in Call /\ call.op = "delete" /\ call.result = "none" /\ ProcOf[t] \in up
        /\ call.pc = "delete" /\ call.pc \in RequestsOf(call.op)
    BY <1>1, AtRequest
  <1>3. Deletes(t) <=> There(call.path) /\ znodes' = after
    BY <1>2 DEF Deletes
  <1>. HIDE DEF call, after
  <1>4. /\ Wrote(call) \in Call /\ Wrote(call).result = "none"
        /\ "delete" \in RequestsOf(call.op) /\ "delete" \in RequestsOf(Wrote(call).op)
    BY <1>2, WroteStep DEF SameArgs, RequestsOf
  <1>5. Retried(late, Wrote(call), "delete") /\ Retried(bad, call, "delete")
    BY <1>2, <1>4, AgainStep DEF Retried
  <1>6. Ended(good, Wrote(call), "ok")
    BY <1>4, DoneStep DEF Ended, Result
  <1>. HIDE DEF good, late, bad
  <1>7. Written(good, call) /\ Written(late, call)
    BY <1>2, <1>5, <1>6, WrittenStep DEF Ended, Retried
  <1>8. CASE There(call.path) /\ znodes' = after /\ Answered /\ Becomes(t, good)
    BY <1>2, <1>3, <1>7, <1>8 DEF Becomes, Outcome, Written, call
  <1>9. CASE There(call.path) /\ znodes' = after /\ Lost(t) /\ Becomes(t, late)
    BY <1>2, <1>3, <1>7, <1>9 DEF Becomes, Outcome, Written, call
  <1>10. CASE (Answered \/ Lost(t)) /\ Becomes(t, bad) /\ UNCHANGED znodes
    BY <1>2, <1>5, <1>10 DEF Becomes, Outcome, Retried, call
  <1>. QED
    BY <1>1, <1>8, <1>9, <1>10 DEF Write

-----------------------------------------------------------------------------
(* What every request does *)

\* What can become of the znodes.
Touches(t) == znodes' = znodes \/ Sets(t) \/ Creates(t) \/ Deletes(t)

\* Every request is one of those above.
LEMMA RequestOutcome ==
    ASSUME MmInv, NEW t \in Threads, Request(t)
    PROVE  Touches(t) /\ \E c : Outcome(t, c)
  BY ExistsOutcome, GetOutcome, SetOutcome, CreateOutcome, FetchOutcome, DeleteOutcome
     DEF Request, Touches

\* It touches no znode but that of its call.
LEMMA OthersKept ==
    ASSUME NEW t, Touches(t), NEW p, p # calls[t].path
    PROVE  /\ There(p)' <=> There(p)
           /\ There(p) => znodes'[p] = znodes[p]
  BY DEF Touches, Sets, Creates, Deletes, There, Restrict

\* Sessions and lost answers are counted within their bounds.
LEMMA CountsStep ==
    ASSUME MmTypeOK, NEW t \in Threads, Answered \/ Lost(t)
    PROVE  /\ session' \in [Procs -> 0 .. MaxSessions] /\ faults' \in 0 .. MaxFaults
           /\ \A p \in Procs : p # ProcOf[t] => session'[p] = session[p]
           /\ session'[ProcOf[t]] >= session[ProcOf[t]]
           /\ faults' = faults \/ faults' = faults + 1
           /\ Lost(t) => faults' = faults + 1
           /\ Answered => faults' = faults
  <1>1. ProcOf[t] \in Procs /\ session \in [Procs -> 0 .. MaxSessions] /\ faults \in 0 .. MaxFaults
    BY MetadataAssumption DEF MmTypeOK
  <1>2. CASE Answered
    BY <1>1, <1>2 DEF Answered, Lost
  <1>3. CASE Lost(t)
    <2>1. faults' = faults + 1 /\ faults' \in 0 .. MaxFaults
      BY <1>1, <1>3, MetadataAssumption DEF Lost
    <2>2. \/ session' = session
          \/ session[ProcOf[t]] < MaxSessions /\ session' = [session EXCEPT ![ProcOf[t]] = @ + 1]
      BY <1>3 DEF Lost, CreateConnection
    <2>3. session' \in [Procs -> 0 .. MaxSessions]
      BY <1>1, <2>2, MetadataAssumption
    <2>4. \A p \in Procs : p # ProcOf[t] => session'[p] = session[p]
      BY <1>1, <2>2
    <2>5. session'[ProcOf[t]] >= session[ProcOf[t]]
      BY <1>1, <2>2
    <2>. QED
      BY <1>1, <2>1, <2>3, <2>4, <2>5 DEF Answered
  <1>. QED
    BY <1>2, <1>3

\* The znodes stay well typed.
LEMMA ZnodesTyped ==
    ASSUME MmInv, NEW t \in Threads, calls[t].pc \in RequestsOf(calls[t].op), Touches(t)
    PROVE  DOMAIN znodes' \subseteq Paths /\ \A p \in DOMAIN znodes' : znodes'[p] \in Znode
  <1>1. DOMAIN znodes \subseteq Paths /\ \A p \in DOMAIN znodes : znodes[p] \in Znode
    BY DEF MmInv, MmTypeOK
  <1>2. /\ calls[t].path \in Paths
        /\ calls[t].pc \in {"set", "create"} => calls[t].data \in Data
    BY DEF MmInv, MmTypeOK, Call, RequestsOf
  <1>3. CASE Sets(t)
    <2>. DEFINE path == calls[t].path
    <2>1. path \in DOMAIN znodes /\ znodes' = [znodes EXCEPT ![path].data = calls[t].data, ![path].version = @ + 1]
      BY <1>3 DEF Sets, There
    <2>2. DOMAIN znodes' = DOMAIN znodes /\ \A p \in DOMAIN znodes : p # path => znodes'[p] = znodes[p]
      BY <2>1
    <2>3. znodes'[path] = [znodes[path] EXCEPT !.data = calls[t].data, !.version = @ + 1]
      BY <2>1
    <2>4. znodes'[path] \in Znode
      BY <1>1, <1>2, <1>3, <2>1, <2>3 DEF Znode, Sets
    <2>. QED
      BY <1>1, <2>2, <2>4
  <1>4. CASE Creates(t)
    <2>1. Owner(t) \in Sessions \cup {Persistent}
      BY MetadataAssumption DEF Owner, Sessions, MmInv, MmTypeOK
    <2>. QED
      BY <1>1, <1>2, <1>4, <2>1 DEF Creates, Znode
  <1>5. CASE Deletes(t)
    BY <1>1, <1>5 DEF Deletes, Restrict
  <1>. QED
    BY <1>1, <1>3, <1>4, <1>5 DEF Touches

\* Requests keep calls well formed, and the process of a panic ends.
LEMMA RequestInv ==
    ASSUME MmInv, NEW t \in Threads, Request(t)
    PROVE  MmInv'
  <1>1. PICK c : Outcome(t, c)
    BY RequestOutcome
  <1>2. Touches(t)
    BY RequestOutcome
  <1>3. /\ calls \in [Threads -> Call] /\ c \in Call /\ up \subseteq Procs
        /\ calls' = [calls EXCEPT ![t] = c] /\ CallOK(c) /\ SameArgs(c, calls[t])
        /\ up' = IF c.result = "panic" THEN up \ {ProcOf[t]} ELSE up
        /\ calls[t].pc \in RequestsOf(calls[t].op)
    BY <1>1 DEF Outcome, Follows, MmInv, MmTypeOK
  <1>4. calls[t].op # "none"
    BY <1>3 DEF RequestsOf
  <1>5. calls' \in [Threads -> Call] /\ up' \subseteq Procs
    BY <1>3
  <1>6. session' \in [Procs -> 0 .. MaxSessions] /\ faults' \in 0 .. MaxFaults
    BY <1>1, CountsStep DEF Outcome, MmInv
  <1>7. MmTypeOK'
    BY <1>2, <1>3, <1>5, <1>6, ZnodesTyped DEF MmTypeOK
  <1>8. ASSUME NEW u \in Threads
        PROVE  /\ CallOK(calls'[u])
               /\ calls'[u].op # "none" => calls'[u].path \in Paths
               /\ calls'[u].op \notin {"none", "get"} => calls'[u].data \in Data
               /\ calls'[u].result = "panic" => ProcOf[u] \notin up'
    <2>1. CASE u = t
      <3>1. calls'[u] = c /\ calls[t].path \in Paths /\ (calls[t].op # "get" => calls[t].data \in Data)
        BY <1>3, <1>4, <2>1 DEF MmInv
      <3>. QED
        BY <1>3, <2>1, <3>1 DEF SameArgs
    <2>2. CASE u # t
      <3>1. calls'[u] = calls[u] /\ up' \subseteq up
        BY <1>3, <2>2
      <3>. QED
        BY <3>1 DEF MmInv
    <2>. QED
      BY <2>1, <2>2
  <1>. QED
    BY <1>7, <1>8 DEF MmInv

-----------------------------------------------------------------------------
(* New calls, and the end of sessions and processes *)

\* A call that was just made.
NewCall(op, path, data, ephemeral) ==
    [NoCall EXCEPT !.op = op, !.path = path, !.data = data, !.ephemeral = ephemeral, !.pc = FirstRequest[op]]

\* A new call is at its first request, and has written nothing.
LEMMA NewCallStep ==
    ASSUME NEW op \in {"set", "ensure", "make", "put", "get", "delete"}, NEW path \in Paths,
           NEW data \in Data \cup {"none"}, NEW ephemeral \in BOOLEAN
    PROVE  LET c == NewCall(op, path, data, ephemeral)
           IN  /\ c \in Call /\ CallOK(c)
               /\ c.op = op /\ c.path = path /\ c.data = data /\ c.ephemeral = ephemeral
               /\ c.pc = FirstRequest[op] /\ c.try = 0 /\ c.wrote = 0 /\ c.result = "none"
  <1>. DEFINE c == NewCall(op, path, data, ephemeral)
  <1>1. /\ c.op = op /\ c.path = path /\ c.data = data /\ c.ephemeral = ephemeral
        /\ c.pc = FirstRequest[op] /\ c.try = 0 /\ c.wrote = 0 /\ c.result = "none"
    BY DEF NewCall, NoCall
  <1>2. FirstRequest[op] \in RequestsOf(op) /\ FirstRequest[op] \in {"get", "exists", "create", "fetch", "delete"}
    BY DEF FirstRequest, RequestsOf
  <1>3. c \in Call
    <2>1. 0 \in 0 .. MaxRetries
      BY MetadataAssumption
    <2>. QED
      BY <1>2, <2>1 DEF NewCall, NoCall, Call, Result, NoStat
  <1>. QED
    BY <1>1, <1>2, <1>3 DEF CallOK

\* A goroutine makes a call.
LEMMA CallsInv ==
    ASSUME MmInv, NEW t \in Threads, Idle(t),
           NEW op \in {"set", "ensure", "make", "put", "get", "delete"}, NEW path \in Paths,
           NEW data \in Data \cup {"none"}, op = "get" \/ data \in Data,
           NEW ephemeral \in BOOLEAN, Calls(t, op, path, data, ephemeral)
    PROVE  /\ MmInv'
           /\ calls' = [calls EXCEPT ![t] = NewCall(op, path, data, ephemeral)]
           /\ UNCHANGED <<znodes, session, up, faults>>
  <1>. DEFINE c == NewCall(op, path, data, ephemeral)
  <1>1. calls' = [calls EXCEPT ![t] = c] /\ UNCHANGED <<znodes, session, up, faults>>
    BY DEF Calls, NewCall
  <1>2. c \in Call /\ CallOK(c) /\ c.op = op /\ c.path = path /\ c.data = data /\ c.result = "none"
    BY NewCallStep
  <1>. HIDE DEF c
  <1>3. MmTypeOK'
    BY <1>1, <1>2 DEF MmInv, MmTypeOK
  <1>4. calls \in [Threads -> Call]
    BY DEF MmInv, MmTypeOK
  <1>5. \A u \in Threads : calls'[u] = IF u = t THEN c ELSE calls[u]
    BY <1>1, <1>4
  <1>6. MmInv'
    BY <1>1, <1>2, <1>3, <1>5 DEF MmInv
  <1>. QED
    BY <1>1, <1>6 DEF c

\* A session ends: its znodes are gone, and others are not.
LEMMA SessionEndsInv ==
    ASSUME MmInv, NEW s \in Sessions, SessionEnds(s)
    PROVE  /\ MmInv'
           /\ UNCHANGED <<up, faults, calls>>
           /\ \A p \in Procs : session'[p] >= session[p] /\ (p # s[1] => session'[p] = session[p])
           /\ s[1] \in up /\ s[2] = session[s[1]] => session'[s[1]] = session[s[1]] + 1
           /\ \A p : There(p)' <=> (There(p) /\ znodes[p].owner # s)
           /\ \A p : There(p)' => znodes'[p] = znodes[p]
  <1>1. /\ UNCHANGED <<up, faults, calls>>
        /\ znodes' = Restrict(znodes, {p \in DOMAIN znodes : znodes[p].owner # s})
        /\ IF s[1] \in up /\ s[2] = session[s[1]]
           THEN s[2] < MaxSessions /\ session' = [session EXCEPT ![s[1]] = @ + 1]
           ELSE session' = session
    BY DEF SessionEnds
  <1>2. session \in [Procs -> 0 .. MaxSessions] /\ s[1] \in Procs
    BY DEF MmInv, MmTypeOK, Sessions
  <1>3. /\ \A p : There(p)' <=> (There(p) /\ znodes[p].owner # s)
        /\ \A p : There(p)' => znodes'[p] = znodes[p]
    BY <1>1 DEF There, Restrict
  <1>4. session' \in [Procs -> 0 .. MaxSessions]
    BY <1>1, <1>2, MetadataAssumption
  <1>5. /\ \A p \in Procs : session'[p] >= session[p] /\ (p # s[1] => session'[p] = session[p])
        /\ s[1] \in up /\ s[2] = session[s[1]] => session'[s[1]] = session[s[1]] + 1
    BY <1>1, <1>2
  <1>6. MmTypeOK'
    <2>1. DOMAIN znodes' \subseteq DOMAIN znodes /\ \A p \in DOMAIN znodes' : znodes'[p] = znodes[p]
      BY <1>1 DEF Restrict
    <2>. QED
      BY <1>1, <1>4, <2>1 DEF MmInv, MmTypeOK
  <1>. QED
    BY <1>1, <1>3, <1>5, <1>6 DEF MmInv

\* A process ends.
LEMMA CrashInv ==
    ASSUME MmInv, NEW p, Crash(p)
    PROVE  MmInv'
  BY DEF Crash, MmInv, MmTypeOK
=============================================================================
