--------------------------- MODULE ExecutorClaims ---------------------------
(***************************************************************************)
(* What messages, comments and tests of executor/ and process_manager/ say *)
(* of the executor, and the code does not keep.                            *)
(***************************************************************************)
EXTENDS RiakExecutor, SequencesExt

Dead == riak \in {"zombie", "reaped"}

\* process_manager/manager_test.go:47, `status := <-re.Listen()`: whoever listens
\* is told of the death of the process.
ListenerIsTold == (runLoop = "wait" /\ Dead) ~> (runLoop # "wait" \/ executor # "up")

\* process_manager/manager.go:72, "Wait 60 seconds for the process to start, and
\* pass its healthcheck.": NewProcessManager ends.
StartEnds == (launch = "newpm") ~> (launch # "newpm" \/ executor # "up")

\* executor/node.go:97, "Finish channel says to shut down Riak", which KillTask
\* writes to: after TASK_KILLED, Riak is shut down.
KilledRiakIsShutDown == (lock = "kill") ~> (Dead \/ executor # "up")

\* executor/node.go:89, "Riak Died, finishing with status": it has.
ReportedRiakIsDead == runLoop \in {"delete", "sleep"} => Dead

\* executor/node.go:266, "Riak started, waiting 10 seconds to avoid race
\* conditions", before which "Riak KV not yet started": TASK_RUNNING is announced
\* when Riak has started.
RunningRiakHasStarted == [][Last(<<"STAGING">> \o updates') = "RUNNING" /\ updates' # updates => riak # "booting"]_vars
=============================================================================
