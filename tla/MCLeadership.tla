---------------------------- MODULE MCLeadership ----------------------------
(***************************************************************************)
(* A scheduler and its standby, for TLC.                                   *)
(***************************************************************************)
EXTENDS Leadership

MCIds == <<"fw1", "fw2", "fw3", "fw4">>
MCProcOf == [t \in Threads |-> t]
=============================================================================
