--------------------------- MODULE MCServingLease ---------------------------
(* Model-checking instance of ServingLease.  A tick is one second rounded  *)
(* up: proofs live one tick, leases two, and the cutover waits three, the  *)
(* tightest values the timing assumption allows.                           *)
EXTENDS ServingLease, TLC

CONSTANTS n1, n2

Symmetry == Permutations(Nodes)
=============================================================================
