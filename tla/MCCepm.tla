------------------------------- MODULE MCCepm -------------------------------
(***************************************************************************)
(* One Erlang node that is registered, restarts and is registered again by *)
(* the same or by another executor, and somebody who looks for it.         *)
(***************************************************************************)
EXTENDS Cepm

CONSTANTS first, second, query, here, there

MCThreads == Registrations \cup Queries
MCProcOf == [t \in MCThreads |-> IF t = first THEN here ELSE IF t = second THEN there ELSE here]
MCNameOf == [t \in MCThreads |-> "riak"]
MCPortOf == [t \in Registrations |-> IF t = first THEN "port1" ELSE "port2"]
=============================================================================
