------------------------ MODULE MCAssignmentDelivery ------------------------
(* Instances of AssignmentDelivery for TLC. *)
EXTENDS AssignmentDelivery, TLC

CONSTANTS s1, s2

SlotSymmetry == Permutations({s1, s2})
=============================================================================
