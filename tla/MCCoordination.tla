--------------------------- MODULE MCCoordination ---------------------------
(***************************************************************************)
(* Two schedulers, or two executors, for TLC.                              *)
(***************************************************************************)
EXTENDS Coordination

MCThreads == Schedulers \cup Executors
MCProcOf == [t \in Schedulers \cup Executors |-> t]
MCPaths == {"SchedulerState", "cepmd", "coordinator", "coordinatedNodes"} \cup Executors

\* They write different znodes: running them together would add nothing.
MCTeams == {Schedulers, Executors}
=============================================================================
