--------------------------- MODULE ProcessManager ---------------------------
(***************************************************************************)
(* process_manager/: the goroutine that starts Riak and supervises it, the *)
(* reaper that collects dead children for it, and the channels between     *)
(* them and their client. There is one client, the executor's runLoop, and *)
(* one process, Riak; `cp`, which KillEPMD runs before, is the only other   *)
(* child of the same Unix process. Every goroutine is a process of its own  *)
(* and every channel operation, system call or select branch a step.       *)
(***************************************************************************)
EXTENDS Integers, Sequences

CONSTANT MaxTicks   \* iterations of the start loop, 60 in the code

ASSUME ProcessManagerAssumption == MaxTicks \in Nat \ {0}

VARIABLES
    riak,       \* the child: alive ("booting", "up"), "zombie" or "reaped"
    consoleLog, \* root/riak/log/console.log is readable
    cp,         \* the child of KillEPMD
    sigchlds,   \* SIGCHLDs in the reaper's channel
    reaper,     \* processManagerLoop: in its select, or in Wait4
    requests,   \* what is in its two request channels
    subscribed, \* whether it would send the death of Riak on waitChan
    waitChan,   \* that channel
    loop,       \* startProcessManager and background: where they are
    tick,       \* how often the start loop has gone round
    why,        \* why the manager ends
    listen,     \* runLoop's channel: not sent, queued, accepted or told
    teardown,   \* TearDown's request: not sent, queued, accepted or replied
    executor    \* the Unix process that all of this is part of

reaperVars == <<reaper, requests, subscribed>>
loopVars == <<loop, tick, why>>
pmVars == <<riak, consoleLog, cp, sigchlds, reaperVars, waitChan, loopVars, listen, teardown, executor>>

Alive == {"booting", "up"}

PmTypeOK ==
    /\ riak \in {"none", "booting", "up", "zombie", "reaped"}
    /\ consoleLog \in BOOLEAN
    /\ cp \in {"none", "up", "zombie", "reaped"}
    /\ sigchlds \in Nat
    /\ reaper \in {"select", "wait4"}
    /\ requests \subseteq {"subscribe", "unsubscribe"}
    /\ subscribed \in BOOLEAN
    /\ waitChan \in {"empty", "full", "closed"}
    /\ loop \in {"off", "forked", "starting", "background", "kill", "term", "killed", "return", "done"}
    /\ tick \in 0 .. MaxTicks
    /\ why \in {"none", "death", "signal", "teardown", "timeout"}
    /\ listen \in {"none", "queued", "accepted", "told"}
    /\ teardown \in {"none", "queued", "accepted", "replied"}
    /\ executor \in {"up", "stopped", "crashed", "reaperPanic"}

\* The persistent volume is mounted over "root": the log of an earlier run of
\* the same node may be there from the beginning.
PmInit ==
    /\ riak = "none"
    /\ consoleLog \in BOOLEAN
    /\ cp = "none"
    /\ sigchlds = 0
    /\ reaper = "select"
    /\ requests = {}
    /\ subscribed = FALSE
    /\ waitChan = "empty"
    /\ loop = "off"
    /\ tick = 0
    /\ why = "none"
    /\ listen = "none"
    /\ teardown = "none"
    /\ executor = "up"

-----------------------------------------------------------------------------
(* The children *)

\* SIGCHLDs that are not yet delivered are one.
Sigchld == sigchlds' \in IF sigchlds = 0 THEN {1} ELSE {sigchlds, sigchlds + 1}

RiakLogs ==
    /\ executor = "up"
    /\ riak = "booting"
    /\ ~consoleLog
    /\ consoleLog' = TRUE
    /\ UNCHANGED <<riak, cp, sigchlds, reaperVars, waitChan, loopVars, listen, teardown, executor>>

RiakComesUp ==
    /\ executor = "up"
    /\ riak = "booting"
    /\ consoleLog
    /\ riak' = "up"
    /\ UNCHANGED <<consoleLog, cp, sigchlds, reaperVars, waitChan, loopVars, listen, teardown, executor>>

RiakDies ==
    /\ executor = "up"
    /\ riak \in Alive
    /\ riak' = "zombie"
    /\ Sigchld
    /\ UNCHANGED <<consoleLog, cp, reaperVars, waitChan, loopVars, listen, teardown, executor>>

CpExits ==
    /\ executor = "up"
    /\ cp = "up"
    /\ cp' = "zombie"
    /\ Sigchld
    /\ UNCHANGED <<riak, consoleLog, reaperVars, waitChan, loopVars, listen, teardown, executor>>

-----------------------------------------------------------------------------
(* The reaper: processManagerLoop *)

ReaperSubscribe ==
    /\ executor = "up" /\ reaper = "select" /\ "subscribe" \in requests
    /\ requests' = requests \ {"subscribe"}
    /\ subscribed' = TRUE
    /\ UNCHANGED <<reaper, riak, consoleLog, cp, sigchlds, waitChan, loopVars, listen, teardown, executor>>

ReaperUnsubscribe ==
    /\ executor = "up" /\ reaper = "select" /\ "unsubscribe" \in requests
    /\ requests' = requests \ {"unsubscribe"}
    /\ subscribed' = FALSE
    /\ UNCHANGED <<reaper, riak, consoleLog, cp, sigchlds, waitChan, loopVars, listen, teardown, executor>>

\* Wait4(-1) returns a child that is dead, and passes its death on: to the
\* subscription, if there is one. A send on a closed channel panics.
Collect ==
    \/ /\ cp = "zombie"
       /\ cp' = "reaped"
       /\ UNCHANGED <<riak, waitChan, executor>>
    \/ /\ riak = "zombie"
       /\ riak' = "reaped"
       /\ waitChan' = IF subscribed /\ waitChan # "closed" THEN "full" ELSE waitChan
       /\ executor' = IF subscribed /\ waitChan = "closed" THEN "reaperPanic" ELSE executor
       /\ UNCHANGED cp

NoChildren == riak \in {"none", "reaped"} /\ cp \in {"none", "reaped"}

NoZombies == riak # "zombie" /\ cp # "zombie"

\* It returns at once if a child is dead, or if there is none at all.
ReaperSigchld ==
    /\ executor = "up" /\ reaper = "select" /\ sigchlds > 0
    /\ sigchlds' = sigchlds - 1
    /\ \/ /\ Collect
          /\ UNCHANGED reaper
       \/ /\ NoZombies
          /\ reaper' = IF NoChildren THEN "select" ELSE "wait4"
          /\ UNCHANGED <<riak, cp, waitChan, executor>>
    /\ UNCHANGED <<requests, subscribed, consoleLog, loopVars, listen, teardown>>

\* A Wait4 that had to wait. The last child may be collected by somebody else.
ReaperWaited ==
    /\ executor = "up" /\ reaper = "wait4"
    /\ \/ Collect
       \/ NoChildren /\ UNCHANGED <<riak, cp, waitChan, executor>>
    /\ reaper' = "select"
    /\ UNCHANGED <<requests, subscribed, consoleLog, sigchlds, loopVars, listen, teardown>>

-----------------------------------------------------------------------------
(* The process manager: startProcessManager, background *)

\* start(): ForkExec.
StartRiak ==
    /\ riak' = "booting"
    /\ loop' = "forked"
    /\ UNCHANGED <<tick, why>>

\* subscribe(pid): a request in a channel that holds one.
Subscribe ==
    /\ executor = "up" /\ loop = "forked"
    /\ requests' = requests \cup {"subscribe"}
    /\ loop' = "starting"
    /\ UNCHANGED <<reaper, subscribed, tick, why, riak, consoleLog, cp, sigchlds, waitChan, listen, teardown, executor>>

Selecting == executor = "up" /\ loop \in {"starting", "background"}

\* Mutant: nobody is told.
notifyNobody == listen' = listen

\* notify(): those whose subscription has been accepted by now.
notify == listen' = IF listen = "accepted" THEN "told" ELSE listen

EndsFor(reason) == loop' = "kill" /\ why' = reason /\ UNCHANGED tick

OnDeath ==
    /\ Selecting /\ waitChan = "full"
    /\ waitChan' = "empty"
    /\ notify
    /\ EndsFor("death")
    /\ UNCHANGED <<riak, consoleLog, cp, sigchlds, reaperVars, teardown, executor>>

\* SIGTERM or SIGINT.
OnSignal ==
    /\ Selecting
    /\ notify
    /\ EndsFor("signal")
    /\ UNCHANGED <<riak, consoleLog, cp, sigchlds, reaperVars, waitChan, teardown, executor>>

\* Nobody has the ProcessManager before it is in background.
OnTearDown ==
    /\ Selecting /\ teardown = "queued"
    /\ teardown' = "accepted"
    /\ notify
    /\ EndsFor("teardown")
    /\ UNCHANGED <<riak, consoleLog, cp, sigchlds, reaperVars, waitChan, executor>>

OnSubscribe ==
    /\ Selecting /\ listen = "queued"
    /\ listen' = "accepted"
    /\ UNCHANGED <<riak, consoleLog, cp, sigchlds, reaperVars, waitChan, loopVars, teardown, executor>>

\* HealthCheckFun returns nil whenever the log can be read.
Healthy == consoleLog

\* Mutant: the loop has no bound.
OnTickUnhealthyForever ==
    /\ executor = "up" /\ loop = "starting" /\ ~Healthy
    /\ UNCHANGED loopVars
    /\ UNCHANGED <<riak, consoleLog, cp, sigchlds, reaperVars, waitChan, listen, teardown, executor>>

\* Mutant: one iteration too many.
OnTickUnhealthyOnce ==
    /\ executor = "up" /\ loop = "starting" /\ ~Healthy
    /\ tick' = tick + 1
    /\ IF tick <= MaxTicks THEN UNCHANGED <<loop, why>> ELSE loop' = "kill" /\ why' = "timeout"
    /\ UNCHANGED <<riak, consoleLog, cp, sigchlds, reaperVars, waitChan, listen, teardown, executor>>

OnTickUnhealthy ==
    /\ executor = "up" /\ loop = "starting" /\ ~Healthy
    /\ tick' = tick + 1
    /\ IF tick + 1 < MaxTicks THEN UNCHANGED <<loop, why>> ELSE loop' = "kill" /\ why' = "timeout"
    /\ UNCHANGED <<riak, consoleLog, cp, sigchlds, reaperVars, waitChan, listen, teardown, executor>>

\* Into background, when the client takes the ProcessManager from retChan.
OnTickHealthy ==
    /\ loop = "starting" /\ Healthy
    /\ loop' = "background"
    /\ UNCHANGED <<tick, why>>

-----------------------------------------------------------------------------
(* killProcess, and the deferred calls at the end *)

MovesTo(pc) ==
    /\ loop' = pc
    /\ UNCHANGED <<tick, why, riak, consoleLog, cp, sigchlds, reaperVars, listen, teardown, executor>>

\* kill(pid, 0) finds a zombie too.
KillProcess ==
    /\ executor = "up" /\ loop = "kill"
    /\ MovesTo(IF riak = "reaped" THEN "return" ELSE "term")
    /\ UNCHANGED waitChan

\* After SIGTERM or SIGKILL, the death arrives.
KillEnds ==
    /\ executor = "up" /\ loop \in {"term", "killed"} /\ waitChan = "full"
    /\ waitChan' = "empty"
    /\ MovesTo("return")

\* Mutant: five seconds after SIGTERM the process is taken for dead.
KillTimesOutReturning ==
    /\ executor = "up" /\ loop = "term"
    /\ MovesTo("return")
    /\ UNCHANGED waitChan

KillTimesOut ==
    /\ executor = "up" /\ loop = "term"
    /\ MovesTo("killed")
    /\ UNCHANGED waitChan

\* close(waitChan), unsubscribe(pid), and all channels of the manager closed.
Return ==
    /\ executor = "up" /\ loop = "return"
    /\ teardown' = IF why = "teardown" THEN "replied" ELSE teardown
    /\ waitChan' = "closed"
    /\ requests' = requests \cup {"unsubscribe"}
    /\ loop' = "done"
    /\ UNCHANGED <<reaper, subscribed, tick, why, riak, consoleLog, cp, sigchlds, listen, executor>>

\* What happens to a child once the executor is gone is its agent's business.
ChildStep == RiakLogs \/ RiakComesUp \/ RiakDies \/ CpExits

ReaperStep == ReaperSubscribe \/ ReaperUnsubscribe \/ ReaperSigchld \/ ReaperWaited

LoopStep ==
    \/ Subscribe \/ OnDeath \/ OnTearDown \/ OnSubscribe \/ OnTickUnhealthy
    \/ KillProcess \/ KillEnds \/ KillTimesOut \/ Return

\* SIGKILL is obeyed.
RiakObeys == loop = "killed" /\ RiakDies

PmNext == ChildStep \/ ReaperStep \/ LoopStep \/ OnSignal
=============================================================================
