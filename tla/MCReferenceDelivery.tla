------------------------ MODULE MCReferenceDelivery ------------------------
(* Model-checking instance of ReferenceDelivery.                           *)
EXTENDS ReferenceDelivery

CONSTANTS n1, n2, p1

\* One path, coordinated by the node that owns no payload.
MCCoordinator == [p \in Paths |-> n1]
=============================================================================
