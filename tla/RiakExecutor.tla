---------------------------- MODULE RiakExecutor ----------------------------
(***************************************************************************)
(* executor/: the driver's callbacks, which share one lock, the goroutine  *)
(* runLoop and the signal watcher, on top of the process manager. Mesos    *)
(* launches one task per executor (ExecutorStartedOnce in Scheduler) and   *)
(* may deliver "finish" and kill messages at any time, also repeatedly.    *)
(***************************************************************************)
EXTENDS ProcessManager

CONSTANTS
    MaxFinish,  \* bound: "finish" messages
    MaxNext     \* bound: SIGUSR2s

ASSUME ExecutorAssumption == MaxFinish \in Nat /\ MaxNext \in Nat

VARIABLES
    lock,       \* who holds ExecutorCore.lock
    launch,     \* LaunchTask: where it is
    runLoop,    \* runLoop: where it is
    finish,     \* FrameworkMessage: idle, or in ForceFinish
    finishes,   \* "finish" messages handled
    killStatus, \* the status that runLoop will send
    watcher,    \* signalWatcher: ready or blocked
    nexts,      \* SIGUSR2s handled
    updates,    \* the updates given to SendStatusUpdate by any goroutine, in order
    coordinated \* the task's znode below coordinatedNodes exists

exVars == <<lock, launch, runLoop, finish, finishes, killStatus, watcher, nexts, updates, coordinated>>
vars == <<pmVars, exVars>>

Status == {"STARTING", "RUNNING", "FINISHED", "FAILED", "KILLED"}

\* The state of executor/ is well typed; the start loop goes round MaxTicks times at most.
TypeOK ==
    /\ PmTypeOK
    /\ lock \in {"free", "launch", "finish", "kill"}
    /\ launch \in {"idle", "configure", "epmd", "fork", "newpm", "coordinate", "report", "failed", "done"}
    /\ runLoop \in {"off", "listen", "wait", "delete", "sleep"}
    /\ finish \in {"idle", "send", "reply"}
    /\ finishes \in 0 .. MaxFinish
    /\ killStatus \in {"FAILED", "FINISHED"}
    /\ watcher \in {"ready", "blocked"}
    /\ nexts \in 0 .. MaxNext
    /\ updates \in Seq(Status)
    /\ coordinated \in BOOLEAN

Init ==
    /\ PmInit
    /\ lock = "free"
    /\ launch = "idle"
    /\ runLoop = "off"
    /\ finish = "idle"
    /\ finishes = 0
    /\ killStatus = "FAILED"
    /\ watcher = "ready"
    /\ nexts = 0
    /\ updates = <<>>
    /\ coordinated = FALSE

Send(status) == updates' = Append(updates, status)

Crash == executor' = "crashed"

-----------------------------------------------------------------------------
(* LaunchTask, NewRiakNode and Run, under the lock from start to end *)

LaunchTask ==
    /\ executor = "up" /\ lock = "free" /\ launch = "idle"
    /\ lock' = "launch"
    /\ Send("STARTING")
    /\ launch' = "configure"
    /\ UNCHANGED <<pmVars, runLoop, finish, finishes, killStatus, watcher, nexts, coordinated>>

\* configureRiak, configureAdvanced, cepmd; then KillEPMD starts `cp`.
Configure ==
    /\ executor = "up" /\ launch = "configure"
    /\ cp' = "up"
    /\ launch' = "epmd"
    /\ UNCHANGED <<riak, consoleLog, sigchlds, reaperVars, waitChan, loopVars, listen, teardown, executor>>
    /\ UNCHANGED <<lock, runLoop, finish, finishes, killStatus, watcher, nexts, updates, coordinated>>

\* exec.Cmd.Run waits for its own child: the reaper may have been faster, and
\* log.Fatal then ends the executor.
KillEPMD ==
    /\ executor = "up" /\ launch = "epmd"
    /\ \/ /\ cp = "zombie"
          /\ cp' = "reaped"
          /\ launch' = "fork"
          /\ UNCHANGED executor
       \/ /\ cp = "reaped"
          /\ Crash
          /\ UNCHANGED <<cp, launch>>
    /\ UNCHANGED <<riak, consoleLog, sigchlds, reaperVars, waitChan, loopVars, listen, teardown>>
    /\ UNCHANGED <<lock, runLoop, finish, finishes, killStatus, watcher, nexts, updates, coordinated>>

NewProcessManager ==
    /\ executor = "up" /\ launch = "fork"
    /\ StartRiak
    /\ launch' = "newpm"
    /\ UNCHANGED <<consoleLog, cp, sigchlds, reaperVars, waitChan, listen, teardown, executor>>
    /\ UNCHANGED <<lock, runLoop, finish, finishes, killStatus, watcher, nexts, updates, coordinated>>

\* retFuture yields the manager.
Started ==
    /\ executor = "up" /\ launch = "newpm"
    /\ OnTickHealthy
    /\ launch' = "coordinate"
    /\ UNCHANGED <<riak, consoleLog, cp, sigchlds, reaperVars, waitChan, listen, teardown, executor>>
    /\ UNCHANGED <<lock, runLoop, finish, finishes, killStatus, watcher, nexts, updates, coordinated>>

\* retFuture is closed: the manager has given up. The lock is kept for the
\* fifteen minutes before Stop.
StartFailed ==
    /\ executor = "up" /\ launch = "newpm" /\ loop = "done"
    /\ Send("FAILED")
    /\ launch' = "failed"
    /\ UNCHANGED <<pmVars, lock, runLoop, finish, finishes, killStatus, watcher, nexts, coordinated>>

\* getCoordinatedChild, setCoordinatedData.
Coordinate ==
    /\ executor = "up" /\ launch = "coordinate"
    /\ coordinated' = TRUE
    /\ launch' = "report"
    /\ UNCHANGED <<pmVars, lock, runLoop, finish, finishes, killStatus, watcher, nexts, updates>>

ReportRunning ==
    /\ executor = "up" /\ launch = "report"
    /\ Send("RUNNING")
    /\ runLoop' = "listen"
    /\ launch' = "done"
    /\ lock' = "free"
    /\ UNCHANGED <<pmVars, finish, finishes, killStatus, watcher, nexts, coordinated>>

\* The configuration cannot be fetched, Riak not be executed, or ZooKeeper not
\* be written: a panic.
LaunchPanics ==
    /\ executor = "up" /\ launch \in {"configure", "fork", "coordinate"}
    /\ Crash
    /\ UNCHANGED <<riak, consoleLog, cp, sigchlds, reaperVars, waitChan, loopVars, listen, teardown, exVars>>

-----------------------------------------------------------------------------
(* runLoop *)

\* Listen() sends on a channel that is closed once the manager has ended.
RunListen ==
    /\ executor = "up" /\ runLoop = "listen"
    /\ IF loop = "done"
       THEN Crash /\ UNCHANGED <<listen, runLoop>>
       ELSE listen' = "queued" /\ runLoop' = "wait" /\ UNCHANGED executor
    /\ UNCHANGED <<riak, consoleLog, cp, sigchlds, reaperVars, waitChan, loopVars, teardown>>
    /\ UNCHANGED <<lock, launch, finish, finishes, killStatus, watcher, nexts, updates, coordinated>>

RunTold ==
    /\ executor = "up" /\ runLoop = "wait" /\ listen = "told"
    /\ Send(killStatus)
    /\ runLoop' = "delete"
    /\ UNCHANGED <<pmVars, lock, launch, finish, finishes, killStatus, watcher, nexts, coordinated>>

\* child.Delete(), which panics when it gives up.
RunDelete ==
    /\ executor = "up" /\ runLoop = "delete"
    /\ \/ coordinated' = FALSE /\ runLoop' = "sleep" /\ UNCHANGED executor
       \/ Crash /\ UNCHANGED <<coordinated, runLoop>>
    /\ UNCHANGED <<riak, consoleLog, cp, sigchlds, reaperVars, waitChan, loopVars, listen, teardown>>
    /\ UNCHANGED <<lock, launch, finish, finishes, killStatus, watcher, nexts, updates>>

\* Driver.Stop(), at the end of runLoop or of a failed start: main returns.
Stop ==
    /\ executor = "up" /\ (runLoop = "sleep" \/ launch = "failed")
    /\ executor' = "stopped"
    /\ UNCHANGED <<riak, consoleLog, cp, sigchlds, reaperVars, waitChan, loopVars, listen, teardown, exVars>>

-----------------------------------------------------------------------------
(* Messages and signals *)

\* exec.riakNode is nil until LaunchTask has the lock.
NilNode == launch = "idle"

\* FrameworkMessage "finish".
ForceFinish ==
    /\ executor = "up" /\ lock = "free" /\ finishes < MaxFinish
    /\ finishes' = finishes + 1
    /\ IF NilNode
       THEN Crash /\ UNCHANGED <<lock, finish, killStatus>>
       ELSE lock' = "finish" /\ finish' = "send" /\ killStatus' = "FINISHED" /\ UNCHANGED executor
    /\ UNCHANGED <<riak, consoleLog, cp, sigchlds, reaperVars, waitChan, loopVars, listen, teardown>>
    /\ UNCHANGED <<launch, runLoop, watcher, nexts, updates, coordinated>>

\* pm.TearDown() sends on a channel that is closed once the manager has ended.
TearDown ==
    /\ executor = "up" /\ finish = "send"
    /\ IF loop = "done"
       THEN Crash /\ UNCHANGED <<teardown, finish>>
       ELSE teardown' = "queued" /\ finish' = "reply" /\ UNCHANGED executor
    /\ UNCHANGED <<riak, consoleLog, cp, sigchlds, reaperVars, waitChan, loopVars, listen>>
    /\ UNCHANGED <<lock, launch, runLoop, finishes, killStatus, watcher, nexts, updates, coordinated>>

TearDownReturns ==
    /\ executor = "up" /\ finish = "reply" /\ teardown = "replied"
    /\ finish' = "idle"
    /\ lock' = "free"
    /\ UNCHANGED <<pmVars, launch, runLoop, finishes, killStatus, watcher, nexts, updates, coordinated>>

\* TASK_KILLED; finish() then sends on a channel that was never made, with the
\* lock held.
KillTask ==
    /\ executor = "up" /\ lock = "free"
    /\ IF NilNode
       THEN Crash /\ UNCHANGED <<lock, updates>>
       ELSE lock' = "kill" /\ Send("KILLED") /\ UNCHANGED executor
    /\ UNCHANGED <<riak, consoleLog, cp, sigchlds, reaperVars, waitChan, loopVars, listen, teardown>>
    /\ UNCHANGED <<launch, runLoop, finish, finishes, killStatus, watcher, nexts, coordinated>>

\* SIGUSR1: the same finish(), in the goroutine of the signal watcher.
SignalFinish ==
    /\ executor = "up" /\ watcher = "ready"
    /\ IF NilNode THEN Crash /\ UNCHANGED watcher ELSE watcher' = "blocked" /\ UNCHANGED executor
    /\ UNCHANGED <<riak, consoleLog, cp, sigchlds, reaperVars, waitChan, loopVars, listen, teardown>>
    /\ UNCHANGED <<lock, launch, runLoop, finish, finishes, killStatus, nexts, updates, coordinated>>

\* Mutant: next() without the lock, as Shutdown is.
SignalNextUnlocked ==
    /\ executor = "up" /\ watcher = "ready"
    /\ \/ NilNode /\ Crash /\ UNCHANGED <<nexts, updates>>
       \/ ~NilNode /\ nexts < MaxNext /\ nexts' = nexts + 1 /\ Send("RUNNING") /\ UNCHANGED executor
    /\ UNCHANGED <<riak, consoleLog, cp, sigchlds, reaperVars, waitChan, loopVars, listen, teardown>>
    /\ UNCHANGED <<lock, launch, runLoop, finish, finishes, killStatus, watcher, coordinated>>

\* SIGUSR2: next() sends TASK_RUNNING once more, with a generation.
SignalNext ==
    /\ executor = "up" /\ watcher = "ready"
    /\ \/ NilNode /\ Crash /\ UNCHANGED <<nexts, updates>>
       \/ ~NilNode /\ lock = "free" /\ nexts < MaxNext /\ nexts' = nexts + 1 /\ Send("RUNNING") /\ UNCHANGED executor
    /\ UNCHANGED <<riak, consoleLog, cp, sigchlds, reaperVars, waitChan, loopVars, listen, teardown>>
    /\ UNCHANGED <<lock, launch, runLoop, finish, finishes, killStatus, watcher, coordinated>>

\* Shutdown(): os.Exit, whatever the state, without the lock.
Shutdown ==
    /\ executor = "up"
    /\ executor' = "stopped"
    /\ UNCHANGED <<riak, consoleLog, cp, sigchlds, reaperVars, waitChan, loopVars, listen, teardown, exVars>>

-----------------------------------------------------------------------------
LaunchStep ==
    \/ Configure \/ KillEPMD \/ NewProcessManager \/ Started \/ StartFailed
    \/ Coordinate \/ ReportRunning

RunStep == RunListen \/ RunTold \/ RunDelete \/ Stop

FinishStep == TearDown \/ TearDownReturns

Next ==
    \/ PmNext /\ UNCHANGED exVars
    \/ LaunchTask \/ LaunchStep \/ LaunchPanics
    \/ RunStep
    \/ ForceFinish \/ FinishStep \/ KillTask
    \/ SignalFinish \/ SignalNext \/ Shutdown

Spec == Init /\ [][Next]_vars

\* Goroutines that can run do run, and processes that are sent SIGKILL die.
Fairness ==
    /\ WF_vars(CpExits /\ UNCHANGED exVars)
    /\ WF_vars(RiakObeys /\ UNCHANGED exVars)
    /\ WF_vars(ReaperStep /\ UNCHANGED exVars)
    /\ WF_vars(LoopStep /\ UNCHANGED exVars)
    /\ WF_vars(LaunchStep)
    /\ WF_vars(RunStep)
    /\ WF_vars(FinishStep)

FairSpec == Spec /\ Fairness

-----------------------------------------------------------------------------
(* Properties *)

\* However the manager ends, by a death, a signal, TearDown or a failed start,
\* it leaves no child behind (process_manager/manager_test.go, TestTeardown):
\* killProcess has to wait for the reaper, not just for its own time-outs.
NoChildLeftOver == loop = "done" => riak = "reaped"

\* The reaper, one goroutine for the whole process, never sends the death of
\* Riak on waitChan after the manager has closed it, though its subscription is
\* removed by a request that it may get much later.
ReaperSurvives == executor # "reaperPanic"

Life == INSTANCE TaskLife
    WITH said <- updates, asked <- (killStatus = "FINISHED"), gone <- (executor # "up")

\* The updates that LaunchTask, runLoop, KillTask and next() send, in whatever order
\* these goroutines get to it, are those of a TaskLife: the lock keeps next() from
\* announcing a task that has not started, or that KillTask has reported killed, and
\* runLoop, which sends without it, reports the end once, after TASK_RUNNING, as a
\* finish if ForceFinish came first. That nothing follows a terminal update is not
\* claimed: the code does say TASK_FAILED after TASK_KILLED, and TASK_RUNNING or
\* TASK_KILLED after the end.
ImplementsTaskLife == Life!Spec

\* The reaper has subscribed while Riak was alive, and runLoop with the manager.
DeathNoticed == waitChan = "full" \/ (subscribed /\ riak = "zombie")

\* A Riak whose death is noticed, or that is asked to finish, takes the executor
\* with it: reaper, manager and runLoop each pass the news on, whatever callbacks
\* are blocked for ever with the lock, and no news is dropped by a select that
\* had something else to do.
SupervisedTaskEnds == (listen = "accepted" /\ (DeathNoticed \/ finish = "reply")) ~> (executor # "up")

\* LaunchTask gets its answer from the manager, good or bad, if the reaper knew
\* the child before it died.
SupervisedStartEnds ==
    (launch = "newpm" /\ subscribed /\ riak \in Alive) ~> (launch # "newpm" \/ executor # "up")
=============================================================================
