--------------------------- MODULE ClusterRegistry ---------------------------
(***************************************************************************)
(* What the scheduler promises its users about clusters and nodes, without *)
(* saying how: a register with a saved copy. Offers, status updates and    *)
(* lost messages are not visible in it; a crash is visible only after a    *)
(* request that got no answer.                                             *)
(***************************************************************************)
EXTENDS Integers

CONSTANTS Names, MaxNodes, MaxUuid

VARIABLES
    registry,   \* the clusters and nodes there are
    saved,      \* the copy that a crash goes back to
    unsaved,    \* a request got no answer, and nothing was saved since
    issued      \* UUIDs given out so far

registryVars == <<registry, saved, unsaved, issued>>

Ids == Names \X (1..MaxNodes)

\* existing clusters, those that somebody asked to remove, per id the UUID of
\* the node that has or had it (0 if none), and the ids of nodes not buried.
Contents(existing, killed, owner, alive) ==
    [existing |-> existing, killed |-> killed, owner |-> owner, alive |-> alive]

Empty == Contents({}, {}, [i \in Ids |-> 0], {})

Init ==
    /\ registry = Empty
    /\ saved = Empty
    /\ unsaved = FALSE
    /\ issued = {}

Save == saved' = registry' /\ unsaved' = FALSE

\* A request is saved, or its user gets no answer.
SaveRequest == Save \/ (saved' = saved /\ unsaved' = TRUE)

CreateCluster(c) ==
    /\ c \notin registry.existing
    /\ registry' = Contents(registry.existing \union {c}, registry.killed, registry.owner, registry.alive)
    /\ SaveRequest
    /\ UNCHANGED issued

KillCluster(c) ==
    /\ c \in registry.existing
    /\ registry' = Contents(registry.existing, registry.killed \union {c}, registry.owner, registry.alive)
    /\ SaveRequest
    /\ UNCHANGED issued

\* A node gets the first id its cluster has never used, and a fresh UUID.
AddNode(c, n, uuid) ==
    /\ c \in registry.existing
    /\ registry.owner[<<c, n>>] = 0
    /\ \A m \in 1..(n - 1) : registry.owner[<<c, m>>] # 0
    /\ uuid \notin issued
    /\ issued' = issued \union {uuid}
    /\ registry' = Contents(registry.existing, registry.killed,
                            [registry.owner EXCEPT ![<<c, n>>] = uuid], registry.alive \union {<<c, n>>})
    /\ SaveRequest

\* Any other request, or any other occasion to save.
Other ==
    /\ UNCHANGED <<registry, issued>>
    /\ SaveRequest

\* Some nodes are buried; killed clusters without a node left may go, and only
\* then are their ids free again.
Retire(buried, gone) ==
    /\ buried \subseteq registry.alive
    /\ gone \subseteq registry.killed
    /\ \A i \in registry.alive \ buried : i[1] \notin gone
    /\ registry' = Contents(registry.existing \ gone, registry.killed \ gone,
                            [i \in Ids |-> IF i[1] \in gone THEN 0 ELSE registry.owner[i]],
                            registry.alive \ buried)
    /\ Save
    /\ UNCHANGED issued

\* UUIDs are not given out again, whatever is forgotten.
Crash ==
    /\ registry' = saved
    /\ Save
    /\ UNCHANGED issued

Next ==
    \/ Other \/ Crash
    \/ \E c \in Names : CreateCluster(c) \/ KillCluster(c)
    \/ \E c \in Names, n \in 1..MaxNodes, uuid \in 1..MaxUuid : AddNode(c, n, uuid)
    \/ \E buried \in SUBSET Ids, gone \in SUBSET Names : Retire(buried, gone)

Spec == Init /\ [][Next]_registryVars
=============================================================================
