------------------------- MODULE MCAtomicDecisions -------------------------
(* Model-checking instance of AtomicDecisions: two executors and two       *)
(* invocations compete over a replay window of two entries.                *)
EXTENDS AtomicDecisions, TLC

CONSTANTS n1, n2, i1, i2

Symmetry == Permutations({n1, n2}) \cup Permutations({i1, i2})
=============================================================================
