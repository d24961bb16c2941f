--------------------------- MODULE MCJoinHandoff ---------------------------
(* Model-checking instance of JoinHandoff. *)
EXTENDS JoinHandoff

CONSTANTS A, B, J, w1
=============================================================================
