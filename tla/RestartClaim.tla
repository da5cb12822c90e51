---------------------------- MODULE RestartClaim -----------------------------
(***************************************************************************)
(* What scheduler/cluster.go says of the end of a rolling restart, checked *)
(* with a history variable that remembers which launch of each node was    *)
(* the last one when the restart was requested.                            *)
(***************************************************************************)
EXTENDS Scheduler

VARIABLE before     \* Generation of each node when the restart began

RestartBegins(c) == ~clusters[c].IsRestarting /\ clusters'[c].IsRestarting

ClaimInit == Init /\ before = [i \in Id |-> 0]

ClaimNext ==
    /\ Next
    /\ before' = [i \in Id |-> IF RestartBegins(i[1]) THEN nodes[i].Generation ELSE before[i]]

ClaimSpec == ClaimInit /\ [][ClaimNext]_<<vars, before>>

\* scheduler/cluster.go:192: "If IsRestarting but all nodes already restarted,
\* we're no longer restarting". When a rolling restart ends, every node was
\* launched again since it began. (Run() makes HasRestarted true without that.)
AllNodesRestarted ==
    [][\A c \in Names :
          clusters[c].IsRestarting /\ clusters'[c].assigned /\ ~clusters'[c].IsRestarting =>
              \A i \in NodesOf(nodes', c) : nodes'[i].Generation > before[i]]_<<vars, before>>
=============================================================================
