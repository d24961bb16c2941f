------------------------ MODULE MCClusterMembership ------------------------
(* Model-checking instances of ClusterMembership.                          *)
EXTENDS ClusterMembership, TLC

CONSTANTS a1, a2, a3, p1, p2, p3, c1, c2, c3, c4

Descriptor(n, a, p, c, ok) ==
    [node_id |-> n, peer_address |-> a, weight |-> 1, state |-> "JOINING",
     current_pin |-> p, overlap_pin |-> None, join_capability |-> c, capable |-> ok]

\* Three well-formed nodes, and a second descriptor for the third whose binary
\* is too old and whose address is taken; a rotation may stage the third's key.
JoinCandidates ==
    {Descriptor(1, a1, p1, c1, TRUE), Descriptor(2, a2, p2, c2, TRUE),
     Descriptor(3, a3, p3, c3, TRUE), Descriptor(3, a1, p3, c3, FALSE)}
=============================================================================
