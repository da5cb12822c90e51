---------------------------- MODULE MCScheduler -----------------------------
(***************************************************************************)
(* Small instances of Scheduler for TLC. Agents are interchangeable: no    *)
(* definition and no property names one of them.                           *)
(***************************************************************************)
EXTENDS Scheduler, TLC

AgentSymmetry == Permutations(Slaves)
=============================================================================
