-------------------------- MODULE MCAtomicPrograms --------------------------
(* Model-checking instance of AtomicPrograms: two nodes, so that every     *)
(* replica must acknowledge, and two paths with different authorities.     *)
(* Program wide writes x and reads y; the other two, which are alike,      *)
(* write x.  A behaviour has room for one wide batch or for both others,   *)
(* the second over the first.                                              *)
EXTENDS AtomicPrograms

CONSTANTS n1, n2, x, y, first, second, wide

Authority == [p \in {x, y} |-> IF p = x THEN n1 ELSE n2]
ProgramPaths == [i \in {first, second, wide} |-> IF i = wide THEN <<x, y>> ELSE <<x>>]
ProgramWrites == [i \in {first, second, wide} |-> <<x>>]
Alike == Permutations({first, second})
=============================================================================
