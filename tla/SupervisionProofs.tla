------------------------- MODULE SupervisionProofs -------------------------
(***************************************************************************)
(* The executor and its process manager, for any number of ticks, messages *)
(* and signals: the types, that no manager ends before its child is        *)
(* collected, that the reaper never sends on a closed channel, and that    *)
(* what the executor says of its task is a TaskLife.                       *)
(*                                                                         *)
(* NoChildLeftOver is not inductive: it needs that a death in waitChan is  *)
(* that of a child already collected, and that Riak is started once.       *)
(* ReaperSurvives follows, because waitChan is closed only at the very end.*)
(***************************************************************************)
EXTENDS RiakExecutor, SequenceTheorems, TLAPS

\* Riak is started once, by NewProcessManager, and the start loop is left as soon
\* as its ticks are used up.
StartedOnce ==
    /\ launch \in {"idle", "configure", "epmd", "fork"} => loop = "off"
    /\ loop = "off" <=> riak = "none"
    /\ loop \in {"off", "forked", "starting"} => tick < MaxTicks

\* What the manager knows of its child is true.
Collected ==
    /\ waitChan = "full" => riak = "reaped"
    /\ loop \in {"return", "done"} => riak = "reaped"
    /\ waitChan = "closed" => loop = "done"

SupervisionInv == StartedOnce /\ Collected /\ ReaperSurvives

\* What was said, as far as the goroutines have come.
Launching == {"configure", "epmd", "fork", "newpm", "coordinate", "report"}

SaidInv ==
    /\ launch = "idle" => updates = <<>>
    /\ launch \in Launching => updates = <<"STARTING">>
    /\ runLoop # "off" <=> launch = "done"
    /\ launch = "done" => "RUNNING" \in Life!Said
    /\ runLoop \in {"listen", "wait"} => Life!Said \cap {"FINISHED", "FAILED"} = {}
    /\ "KILLED" \in Life!Said => lock = "kill"

\* Whose the lock is.
LockInv ==
    /\ lock = "launch" <=> launch \in Launching \cup {"failed"}
    /\ lock = "finish" <=> finish \in {"send", "reply"}

-----------------------------------------------------------------------------
(* The process manager *)

\* Steps of children, reaper and loop keep types and supervision, whatever the
\* executor does.
LEMMA ManagerStep ==
    ASSUME TypeOK, SupervisionInv, PmNext, UNCHANGED exVars
    PROVE  TypeOK' /\ SupervisionInv'
  <1>. USE ProcessManagerAssumption DEF TypeOK, PmTypeOK, SupervisionInv, StartedOnce, Collected, ReaperSurvives, exVars, reaperVars, loopVars
  <1>1. CASE RiakLogs
    BY <1>1 DEF RiakLogs
  <1>2. CASE RiakComesUp
    BY <1>2 DEF RiakComesUp
  <1>3. CASE RiakDies
    BY <1>3 DEF RiakDies, Alive, Sigchld
  <1>4. CASE CpExits
    BY <1>4 DEF CpExits, Sigchld
  <1>5. CASE ReaperSubscribe
    BY <1>5 DEF ReaperSubscribe
  <1>6. CASE ReaperUnsubscribe
    <2>1. subscribed' \in BOOLEAN
      BY <1>6, Zenon DEF ReaperUnsubscribe
    <2>2. requests' \subseteq {"subscribe", "unsubscribe"}
      BY <1>6 DEF ReaperUnsubscribe
    <2>3. UNCHANGED <<reaper, riak, consoleLog, cp, sigchlds, waitChan, loopVars, listen, teardown, executor>>
      BY <1>6, Zenon DEF ReaperUnsubscribe
    <2>4. QED
      BY <2>1, <2>2, <2>3
  <1>7. CASE ReaperSigchld
    BY <1>7 DEF ReaperSigchld, Collect, NoZombies, NoChildren
  <1>8. CASE ReaperWaited
    BY <1>8 DEF ReaperWaited, Collect, NoChildren
  <1>9. CASE Subscribe
    BY <1>9 DEF Subscribe
  <1>10. CASE OnDeath
    BY <1>10 DEF OnDeath, Selecting, notify, EndsFor
  <1>11. CASE OnTearDown
    BY <1>11 DEF OnTearDown, Selecting, notify, EndsFor
  <1>12. CASE OnSubscribe
    BY <1>12 DEF OnSubscribe, Selecting
  <1>13. CASE OnTickUnhealthy
    BY <1>13 DEF OnTickUnhealthy, Healthy
  <1>14. CASE KillProcess
    BY <1>14 DEF KillProcess, MovesTo
  <1>15. CASE KillEnds
    BY <1>15 DEF KillEnds, MovesTo
  <1>16. CASE KillTimesOut
    BY <1>16 DEF KillTimesOut, MovesTo
  <1>17. CASE Return
    BY <1>17 DEF Return
  <1>18. CASE OnSignal
    BY <1>18 DEF OnSignal, Selecting, notify, EndsFor
  <1>19. QED
    BY <1>1, <1>2, <1>3, <1>4, <1>5, <1>6, <1>7, <1>8, <1>9, <1>10, <1>11, <1>12, <1>13, <1>14, <1>15, <1>16, <1>17, <1>18
       DEF PmNext, ChildStep, ReaperStep, LoopStep

-----------------------------------------------------------------------------
(* The executor *)

ExecutorNext ==
    \/ LaunchTask \/ LaunchStep \/ LaunchPanics \/ RunStep
    \/ ForceFinish \/ FinishStep \/ KillTask \/ SignalFinish \/ SignalNext \/ Shutdown

\* An update is appended to the sequence of those before it.
LEMMA SendType ==
    ASSUME updates \in Seq(Status), NEW s \in Status, Send(s)
    PROVE  updates' \in Seq(Status)
  BY DEF Send

\* Steps of callbacks, runLoop and signal watcher keep types and supervision: of
\* what the manager owns, they fork Riak and put requests in channels.
LEMMA ExecutorStep ==
    ASSUME TypeOK, SupervisionInv, ExecutorNext
    PROVE  TypeOK' /\ SupervisionInv'
  <1>. USE ProcessManagerAssumption, ExecutorAssumption
       DEF TypeOK, PmTypeOK, SupervisionInv, StartedOnce, Collected, ReaperSurvives,
           pmVars, exVars, reaperVars, loopVars, Crash
  <1>0. {"STARTING", "RUNNING", "FAILED", "KILLED", killStatus} \subseteq Status
    BY DEF Status
  <1>1. CASE LaunchTask
    <2>1. updates' \in Seq(Status)
      BY <1>0, <1>1, SendType DEF LaunchTask
    <2>2. QED
      BY <2>1, <1>1 DEF LaunchTask
  <1>2. CASE Configure
    BY <1>2 DEF Configure
  <1>3. CASE KillEPMD
    BY <1>3 DEF KillEPMD
  <1>4. CASE NewProcessManager
    BY <1>4 DEF NewProcessManager, StartRiak
  <1>5. CASE Started
    BY <1>5 DEF Started, OnTickHealthy
  <1>6. CASE StartFailed
    <2>1. updates' \in Seq(Status)
      BY <1>0, <1>6, SendType DEF StartFailed
    <2>2. QED
      BY <2>1, <1>6 DEF StartFailed
  <1>7. CASE Coordinate
    BY <1>7 DEF Coordinate
  <1>8. CASE ReportRunning
    <2>1. updates' \in Seq(Status)
      BY <1>0, <1>8, SendType DEF ReportRunning
    <2>2. QED
      BY <2>1, <1>8 DEF ReportRunning
  <1>9. CASE LaunchPanics
    BY <1>9 DEF LaunchPanics
  <1>10. CASE RunListen
    BY <1>10 DEF RunListen
  <1>11. CASE RunTold
    <2>1. updates' \in Seq(Status)
      BY <1>0, <1>11, SendType DEF RunTold
    <2>2. QED
      BY <2>1, <1>11 DEF RunTold
  <1>12. CASE RunDelete
    <2>1. coordinated' \in BOOLEAN
      BY <1>12, Zenon DEF RunDelete
    <2>2. runLoop' \in {runLoop, "sleep"} /\ executor' \in {executor, "crashed"}
      BY <1>12, Zenon DEF RunDelete
    <2>3. /\ UNCHANGED <<riak, consoleLog, cp, sigchlds, reaperVars, waitChan, loopVars, listen, teardown>>
          /\ UNCHANGED <<lock, launch, finish, finishes, killStatus, watcher, nexts, updates>>
      BY <1>12, Zenon DEF RunDelete
    <2>4. QED
      BY <2>1, <2>2, <2>3
  <1>13. CASE Stop
    BY <1>13 DEF Stop
  <1>14. CASE ForceFinish
    BY <1>14 DEF ForceFinish, NilNode
  <1>15. CASE TearDown
    BY <1>15 DEF TearDown
  <1>16. CASE TearDownReturns
    BY <1>16 DEF TearDownReturns
  <1>17. CASE KillTask
    <2>1. updates' \in Seq(Status)
      <3>1. UNCHANGED updates \/ Send("KILLED")
        BY <1>17, Zenon DEF KillTask
      <3>2. QED
        BY <1>0, <3>1, SendType
    <2>2. lock' \in {lock, "kill"} /\ executor' \in {executor, "crashed"}
      BY <1>17, Zenon DEF KillTask
    <2>3. /\ UNCHANGED <<riak, consoleLog, cp, sigchlds, reaperVars, waitChan, loopVars, listen, teardown>>
          /\ UNCHANGED <<launch, runLoop, finish, finishes, killStatus, watcher, nexts, coordinated>>
      BY <1>17, Zenon DEF KillTask
    <2>4. QED
      BY <2>1, <2>2, <2>3
  <1>18. CASE SignalFinish
    BY <1>18 DEF SignalFinish, NilNode
  <1>19. CASE SignalNext
    <2>1. updates' \in Seq(Status)
      <3>1. UNCHANGED updates \/ Send("RUNNING")
        BY <1>19, Zenon DEF SignalNext
      <3>2. QED
        BY <1>0, <3>1, SendType
    <2>2. nexts' \in 0 .. MaxNext
      BY <1>19 DEF SignalNext
    <2>3. executor' \in {executor, "crashed"}
      BY <1>19, Zenon DEF SignalNext
    <2>4. /\ UNCHANGED <<riak, consoleLog, cp, sigchlds, reaperVars, waitChan, loopVars, listen, teardown>>
          /\ UNCHANGED <<lock, launch, runLoop, finish, finishes, killStatus, watcher, coordinated>>
      BY <1>19, Zenon DEF SignalNext
    <2>5. QED
      BY <2>1, <2>2, <2>3, <2>4
  <1>20. CASE Shutdown
    BY <1>20 DEF Shutdown
  <1>21. QED
    BY <1>1, <1>2, <1>3, <1>4, <1>5, <1>6, <1>7, <1>8, <1>9, <1>10, <1>11, <1>12, <1>13, <1>14, <1>15, <1>16, <1>17, <1>18, <1>19, <1>20
       DEF ExecutorNext, LaunchStep, RunStep, FinishStep

-----------------------------------------------------------------------------
(* Theorems *)

\* No update has been sent at the start.
LEMMA EmptySeqType == <<>> \in Seq(Status)
  OBVIOUS

\* An executor that has just started satisfies the invariant.
LEMMA SupervisionInit ==
    ASSUME Init
    PROVE  TypeOK /\ SupervisionInv
  <1>1. /\ subscribed \in BOOLEAN /\ coordinated \in BOOLEAN
        /\ consoleLog \in BOOLEAN /\ updates \in Seq(Status)
    BY Zenon, EmptySeqType DEF Init, PmInit
  <1>2. /\ riak = "none" /\ cp = "none" /\ sigchlds = 0 /\ reaper = "select" /\ requests = {}
        /\ waitChan = "empty" /\ loop = "off" /\ tick = 0 /\ why = "none" /\ listen = "none"
        /\ teardown = "none" /\ executor = "up" /\ lock = "free" /\ launch = "idle"
        /\ runLoop = "off" /\ finish = "idle" /\ finishes = 0 /\ killStatus = "FAILED"
        /\ watcher = "ready" /\ nexts = 0
    BY Zenon DEF Init, PmInit
  <1>3. QED
    BY <1>1, <1>2, ProcessManagerAssumption, ExecutorAssumption
       DEF TypeOK, PmTypeOK, SupervisionInv, StartedOnce, Collected, ReaperSurvives

\* Every step of executor/ and process_manager/ keeps it.
LEMMA SupervisionNext ==
    ASSUME TypeOK, SupervisionInv, [Next]_vars
    PROVE  TypeOK' /\ SupervisionInv'
  <1>1. CASE PmNext /\ UNCHANGED exVars
    BY <1>1, ManagerStep
  <1>2. CASE ExecutorNext
    BY <1>2, ExecutorStep
  <1>3. CASE UNCHANGED vars
    BY <1>3 DEF vars, pmVars, exVars, reaperVars, loopVars, TypeOK, PmTypeOK, SupervisionInv, StartedOnce, Collected, ReaperSurvives
  <1>4. QED
    BY <1>1, <1>2, <1>3 DEF Next, ExecutorNext

\* The inductive invariant: types, one start of Riak, what the manager knows of its
\* child is true, and the reaper of process_manager/ has not panicked.
THEOREM Supervision == Spec => [](TypeOK /\ SupervisionInv)
  <1>1. Init => TypeOK /\ SupervisionInv
    BY SupervisionInit
  <1>2. (TypeOK /\ SupervisionInv) /\ [Next]_vars => (TypeOK /\ SupervisionInv)'
    BY SupervisionNext
  <1>3. QED
    BY <1>1, <1>2, PTL DEF Spec

\* TypeOK holds of every reachable state, for every MaxTicks, MaxFinish and MaxNext.
THEOREM Types == Spec => []TypeOK
  BY Supervision, PTL

\* No manager of process_manager/ ends before the reaper has collected its child.
THEOREM NoChildIsLeftOver == Spec => []NoChildLeftOver
  <1>1. TypeOK /\ SupervisionInv => NoChildLeftOver
    BY DEF SupervisionInv, Collected, NoChildLeftOver
  <1>2. QED
    BY <1>1, Supervision, PTL

\* The reaper of process_manager/ never sends on a closed waitChan.
THEOREM ReaperAlwaysSurvives == Spec => []ReaperSurvives
  <1>1. TypeOK /\ SupervisionInv => ReaperSurvives
    BY DEF SupervisionInv
  <1>2. QED
    BY <1>1, Supervision, PTL

-----------------------------------------------------------------------------
(* What the executor says *)

LifeInv == SaidInv /\ LockInv

lifeOf == <<lock, launch, runLoop, finish, killStatus, updates>>

\* An update is said once it is given to SendStatusUpdate, and those before it stay said.
LEMMA SendSays ==
    ASSUME updates \in Seq(Status), NEW s \in Status, Send(s)
    PROVE  Life!Said' = Life!Said \cup {s}
  <1>1. /\ updates' \in Seq(Status)
        /\ Len(updates') = Len(updates) + 1
        /\ \A i \in 1 .. Len(updates) : updates'[i] = updates[i]
        /\ updates'[Len(updates) + 1] = s
    BY AppendProperties DEF Send
  <1>2. DOMAIN updates = 1 .. Len(updates) /\ DOMAIN updates' = 1 .. (Len(updates) + 1) /\ Len(updates) \in Nat
    BY <1>1
  <1>3. ASSUME NEW t
        PROVE  t \in Life!Said' <=> t \in Life!Said \/ t = s
    BY <1>1, <1>2 DEF Life!Said, Life!Range
  <1>4. QED
    BY <1>3

\* What is said of a task that has only started, and of one that has not.
LEMMA SaidEarly ==
    /\ updates = <<>> => Life!Said = {}
    /\ updates = <<"STARTING">> => Life!Said = {"STARTING"}
  BY DEF Life!Said, Life!Range

\* The steps that neither say anything nor move the callbacks.
LEMMA QuietStep ==
    ASSUME LifeInv, UNCHANGED lifeOf
    PROVE  LifeInv'
  <1>1. Life!Said' = Life!Said
    BY DEF lifeOf, Life!Said
  <1>2. QED
    BY <1>1 DEF LifeInv, SaidInv, LockInv, lifeOf

\* What was said, and whose the lock is, agree with where the goroutines are.
LEMMA LifeInvStep ==
    ASSUME TypeOK, LifeInv, Next
    PROVE  LifeInv'
  <1>. USE DEF LifeInv, SaidInv, LockInv, Launching
  <1>0. UNCHANGED updates => UNCHANGED Life!Said
    BY DEF Life!Said
  <1>1. CASE PmNext /\ UNCHANGED exVars
    BY <1>1, QuietStep DEF exVars, lifeOf
  <1>2. CASE LaunchPanics
    BY <1>2, QuietStep DEF LaunchPanics, exVars, lifeOf
  <1>3. CASE Stop
    BY <1>3, QuietStep DEF Stop, exVars, lifeOf
  <1>4. CASE Shutdown
    BY <1>4, QuietStep DEF Shutdown, exVars, lifeOf
  <1>5. CASE SignalFinish
    BY <1>5, QuietStep DEF SignalFinish, lifeOf
  <1>t. updates \in Seq(Status) /\ {"STARTING", "RUNNING", "FAILED", "KILLED", killStatus} \subseteq Status
    BY DEF TypeOK, Status
  <1>6. CASE SignalNext
    <2>1. CASE UNCHANGED updates
      BY <1>6, <2>1, QuietStep DEF SignalNext, lifeOf
    <2>2. CASE launch # "idle" /\ lock = "free" /\ Send("RUNNING")
      <3>1. Life!Said' = Life!Said \cup {"RUNNING"}
        BY <1>t, <2>2, SendSays
      <3>2. UNCHANGED <<lock, launch, runLoop, finish, killStatus>>
        BY <1>6 DEF SignalNext
      <3>3. QED
        BY <2>2, <3>1, <3>2 DEF TypeOK
    <2>3. QED
      BY <1>6, <2>1, <2>2 DEF SignalNext, NilNode
  <1>7. CASE LaunchTask
    <2>1. Life!Said = {} /\ Life!Said' = Life!Said \cup {"STARTING"}
      BY <1>t, <1>7, SaidEarly, SendSays DEF LaunchTask
    <2>2. updates' = <<"STARTING">>
      BY <1>7 DEF LaunchTask, Send
    <2>3. QED
      BY <1>7, <2>1, <2>2 DEF LaunchTask
  <1>8. CASE Configure
    BY <1>0, <1>8 DEF Configure
  <1>9. CASE KillEPMD
    BY <1>0, <1>9 DEF KillEPMD
  <1>10. CASE NewProcessManager
    BY <1>0, <1>10 DEF NewProcessManager
  <1>11. CASE Started
    BY <1>0, <1>11 DEF Started
  <1>12. CASE StartFailed
    <2>1. Life!Said = {"STARTING"} /\ Life!Said' = Life!Said \cup {"FAILED"}
      BY <1>t, <1>12, SaidEarly, SendSays DEF StartFailed
    <2>2. QED
      BY <1>12, <2>1 DEF StartFailed
  <1>13. CASE Coordinate
    BY <1>0, <1>13 DEF Coordinate
  <1>14. CASE ReportRunning
    <2>1. Life!Said = {"STARTING"} /\ Life!Said' = Life!Said \cup {"RUNNING"}
      BY <1>t, <1>14, SaidEarly, SendSays DEF ReportRunning
    <2>2. QED
      BY <1>14, <2>1 DEF ReportRunning
  <1>15. CASE RunListen
    BY <1>0, <1>15 DEF RunListen
  <1>16. CASE RunTold
    <2>1. Life!Said' = Life!Said \cup {killStatus} /\ killStatus # "KILLED"
      BY <1>t, <1>16, SendSays DEF RunTold, TypeOK
    <2>2. QED
      BY <1>16, <2>1 DEF RunTold
  <1>17. CASE RunDelete
    BY <1>0, <1>17 DEF RunDelete
  <1>18. CASE ForceFinish
    BY <1>0, <1>18 DEF ForceFinish, NilNode
  <1>19. CASE TearDown
    BY <1>0, <1>19 DEF TearDown
  <1>20. CASE TearDownReturns
    BY <1>0, <1>20 DEF TearDownReturns
  <1>21. CASE KillTask
    <2>1. CASE NilNode
      BY <1>21, <2>1, QuietStep DEF KillTask, lifeOf
    <2>2. CASE ~NilNode
      <3>1. Life!Said' = Life!Said \cup {"KILLED"}
        BY <1>t, <1>21, <2>2, SendSays DEF KillTask
      <3>2. lock = "free" /\ lock' = "kill" /\ launch # "idle" /\ UNCHANGED <<launch, runLoop, finish>>
        BY <1>21, <2>2 DEF KillTask, NilNode
      <3>3. QED
        BY <3>1, <3>2 DEF TypeOK
    <2>3. QED
      BY <2>1, <2>2
  <1>22. QED
    BY <1>1, <1>2, <1>3, <1>4, <1>5, <1>6, <1>7, <1>8, <1>9, <1>10, <1>11, <1>12, <1>13, <1>14, <1>15, <1>16, <1>17, <1>18, <1>19, <1>20, <1>21 DEF Next, LaunchStep, RunStep, FinishStep

\* So they do at the start.
LEMMA LifeInvInit ==
    ASSUME Init
    PROVE  LifeInv
  <1>1. lock = "free" /\ launch = "idle" /\ runLoop = "off" /\ finish = "idle" /\ updates = <<>>
    BY Zenon DEF Init
  <1>2. Life!Said = {}
    BY <1>1, SaidEarly
  <1>3. QED
    BY <1>1, <1>2 DEF LifeInv, SaidInv, LockInv, Launching

\* A free lock is taken by messages and signals of an executor whose task has run
\* and is not reported killed.
LEMMA FreeLockServes ==
    ASSUME TypeOK, LifeInv, lock = "free", launch # "idle"
    PROVE  Life!Serving
  BY DEF TypeOK, LifeInv, LockInv, SaidInv, Launching, Life!Serving

\* Every step of the executor is one of TaskLife, or does not show.
LEMMA LifeStep ==
    ASSUME TypeOK, LifeInv, Next
    PROVE  [Life!Next]_(Life!lifeVars)
  <1>0. executor = "up"
    BY DEF Next, PmNext, ChildStep, ReaperStep, LoopStep, LaunchStep, RunStep, FinishStep,
       RiakLogs, RiakComesUp, RiakDies, CpExits, ReaperSubscribe, ReaperUnsubscribe, ReaperSigchld,
       ReaperWaited, Subscribe, Selecting, OnDeath, OnSignal, OnTearDown, OnSubscribe, OnTickUnhealthy,
       KillProcess, KillEnds, KillTimesOut, Return, LaunchTask, Configure, KillEPMD, NewProcessManager,
       Started, StartFailed, Coordinate, ReportRunning, LaunchPanics, RunListen, RunTold, RunDelete, Stop,
       ForceFinish, TearDown, TearDownReturns, KillTask, SignalFinish, SignalNext, Shutdown
  <1>1. ASSUME UNCHANGED <<updates, killStatus>>
        PROVE  [Life!Next]_(Life!lifeVars)
    <2>1. CASE executor' = "up"
      BY <1>0, <1>1, <2>1 DEF Life!lifeVars
    <2>2. CASE executor' # "up"
      BY <1>0, <1>1, <2>2, Zenon DEF Life!Next, Life!Exit
    <2>3. QED
      BY <2>1, <2>2
  <1>2. ASSUME NEW s, UNCHANGED <<killStatus, executor>>, Send(s)
        PROVE  Life!Says(s)
    BY <1>2, Zenon DEF Life!Says, Send
  <1>3. CASE PmNext /\ UNCHANGED exVars
    BY <1>1, <1>3 DEF exVars
  <1>4. CASE LaunchTask
    <2>1. updates = <<>>
      BY <1>4 DEF LaunchTask, LifeInv, SaidInv
    <2>2. Life!Says("STARTING")
      BY <1>2, <1>4, Zenon DEF LaunchTask, pmVars
    <2>3. QED
      BY <1>0, <2>1, <2>2, Zenon DEF Life!Next, Life!Start
  <1>5. CASE StartFailed
    <2>1. updates = <<"STARTING">>
      BY <1>5 DEF StartFailed, LifeInv, SaidInv, Launching
    <2>2. Life!Says("FAILED")
      BY <1>2, <1>5, Zenon DEF StartFailed, pmVars
    <2>3. QED
      BY <1>0, <2>1, <2>2, Zenon DEF Life!Next, Life!Abort
  <1>6. CASE ReportRunning
    <2>1. updates = <<"STARTING">>
      BY <1>6 DEF ReportRunning, LifeInv, SaidInv, Launching
    <2>2. Life!Says("RUNNING")
      BY <1>2, <1>6, Zenon DEF ReportRunning, pmVars
    <2>3. QED
      BY <1>0, <2>1, <2>2, Zenon DEF Life!Next, Life!Run
  <1>7. CASE RunTold
    <2>1. killStatus = IF killStatus = "FINISHED" THEN "FINISHED" ELSE "FAILED"
      BY DEF TypeOK
    <2>2. "RUNNING" \in Life!Said /\ Life!Said \cap {"FINISHED", "FAILED"} = {}
      BY <1>7 DEF RunTold, LifeInv, SaidInv
    <2>3. Life!Says(killStatus)
      BY <1>2, <1>7, Zenon DEF RunTold, pmVars
    <2>4. QED
      BY <1>0, <2>1, <2>2, <2>3, Zenon DEF Life!Next, Life!End
  <1>8. CASE ForceFinish
    <2>1. CASE NilNode
      BY <1>1, <1>8, <2>1, Zenon DEF ForceFinish
    <2>2. CASE ~NilNode
      <3>1. lock = "free" /\ launch # "idle" /\ killStatus' = "FINISHED" /\ UNCHANGED <<updates, executor>>
        BY <1>8, <2>2, Zenon DEF ForceFinish, NilNode
      <3>2. Life!Ask
        BY <3>1, FreeLockServes, Zenon DEF Life!Ask
      <3>3. QED
        BY <1>0, <3>2, Zenon DEF Life!Next
    <2>3. QED
      BY <2>1, <2>2
  <1>9. CASE KillTask
    <2>1. CASE NilNode
      BY <1>1, <1>9, <2>1, Zenon DEF KillTask
    <2>2. CASE ~NilNode
      <3>1. lock = "free" /\ launch # "idle" /\ Send("KILLED") /\ UNCHANGED <<killStatus, executor>>
        BY <1>9, <2>2, Zenon DEF KillTask, NilNode
      <3>2. Life!Kill
        BY <1>2, <3>1, FreeLockServes, Zenon DEF Life!Kill
      <3>3. QED
        BY <1>0, <3>2, Zenon DEF Life!Next
    <2>3. QED
      BY <2>1, <2>2
  <1>10. CASE LaunchPanics \/ Stop \/ Shutdown
    BY <1>1, <1>10, Zenon DEF LaunchPanics, Stop, Shutdown, exVars
  <1>11. CASE Configure \/ KillEPMD \/ NewProcessManager \/ Started \/ Coordinate
    BY <1>1, <1>11, Zenon DEF Configure, KillEPMD, NewProcessManager, Started, Coordinate
  <1>12. CASE RunListen \/ RunDelete
    BY <1>1, <1>12, Zenon DEF RunListen, RunDelete
  <1>13. CASE TearDown \/ TearDownReturns \/ SignalFinish
    BY <1>1, <1>13, Zenon DEF TearDown, TearDownReturns, SignalFinish
  <1>14. CASE SignalNext
    <2>1. CASE UNCHANGED updates
      BY <1>1, <1>14, <2>1, Zenon DEF SignalNext
    <2>2. CASE launch # "idle" /\ lock = "free" /\ Send("RUNNING") /\ UNCHANGED <<killStatus, executor>>
      <3>1. Life!Repeat
        BY <1>2, <2>2, FreeLockServes, Zenon DEF Life!Repeat
      <3>2. QED
        BY <1>0, <3>1, Zenon DEF Life!Next
    <2>3. QED
      BY <1>14, <2>1, <2>2, Zenon DEF SignalNext, NilNode
  <1>15. QED
    BY <1>3, <1>4, <1>5, <1>6, <1>7, <1>8, <1>9, <1>10, <1>11, <1>12, <1>13, <1>14
       DEF Next, LaunchStep, RunStep, FinishStep

\* Every update that LaunchTask, runLoop, KillTask and next() give to SendStatusUpdate
\* has its place in a TaskLife, for any number of ticks, messages and signals: the
\* executor's lock orders next() and KillTask, and runLoop, which sends without it,
\* reports one end, of a task that ran.
THEOREM TaskLifeIsImplemented == Spec => ImplementsTaskLife
  <1>1. Init => Life!Init
    BY DEF Init, PmInit, Life!Init
  <1>2. Init => LifeInv
    BY LifeInvInit
  <1>3. TypeOK /\ LifeInv /\ [Next]_vars => LifeInv'
    <2>1. CASE Next
      BY <2>1, LifeInvStep
    <2>2. CASE UNCHANGED vars
      BY <2>2, QuietStep DEF vars, exVars, lifeOf
    <2>3. QED
      BY <2>1, <2>2
  <1>4. TypeOK /\ LifeInv /\ [Next]_vars => [Life!Next]_(Life!lifeVars)
    <2>1. CASE Next
      BY <2>1, LifeStep
    <2>2. CASE UNCHANGED vars
      BY <2>2 DEF vars, exVars, pmVars, Life!lifeVars
    <2>3. QED
      BY <2>1, <2>2
  <1>5. QED
    BY <1>1, <1>2, <1>3, <1>4, Types, PTL DEF Spec, ImplementsTaskLife, Life!Spec
=============================================================================
