--------------------------- MODULE MCOfferHelper ----------------------------
(***************************************************************************)
(* Offers of one agent for TLC: with room for no, one or two nodes, exact  *)
(* fits, ports in one piece, in pieces and out of order, and reservations  *)
(* with the volume of one node, of two, or of none of the nodes.           *)
(***************************************************************************)
EXTENDS OfferHelper

CONSTANTS n1, n2, n3, old

MCNeed == [n \in Nodes |-> IF n = n1 THEN [cpus |-> 1, mem |-> 2, disk |-> 3]
                           ELSE [cpus |-> 2, mem |-> 3, disk |-> 2]]

PortResources ==
    {<<Ports(<< <<1, 3>> >>)>>, <<Ports(<< <<1, 7>> >>)>>,
     <<Ports(<< <<6, 8>>, <<1, 3>> >>)>>, <<Ports(<< <<1, 2>>, <<4, 4>>, <<6, 6>> >>), Ports(<< <<9, 10>> >>)>>}

Unreserved ==
    {<<Scalar("cpus", c, FALSE, NoId), Scalar("mem", m, FALSE, NoId), Scalar("disk", d, FALSE, NoId)>> :
        c \in {1, 2, 5}, m \in {3, 4, 7}, d \in {3, 5}}

\* What a node has reserved on the agent: cpus and memory, and its volume.
Owned(n, size) ==
    <<Scalar("cpus", size.cpus, TRUE, NoId), Scalar("mem", size.mem, TRUE, NoId),
      Scalar("disk", size.disk, TRUE, n)>>

Reservations ==
    {<<>>, Owned(n1, MCNeed[n1]), Owned(n2, MCNeed[n2]), Owned(n1, MCNeed[n1]) \o Owned(n2, MCNeed[n2]),
     Owned(old, MCNeed[n2])}

MCOffers == {u \o p \o r : u \in Unreserved, p \in PortResources, r \in Reservations}
=============================================================================
