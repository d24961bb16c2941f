------------------------- MODULE MCObjectReplication --------------------------
(***************************************************************************)
(* Instances of ObjectReplication.  A process may be any operation, so one *)
(* run has every mix of retried commands, rival commands and reads.        *)
(***************************************************************************)
EXTENDS ObjectReplication, TLC

CONSTANTS A, B, C, p1, p2, p3, c1, c2

\* Processes differ only in what they do, commands only in their identity.
Symmetry == Permutations(Procs) \cup Permutations(Commands)
=============================================================================
