-------------------------- MODULE MCPlaneLifecycle --------------------------
(* Instances of PlaneLifecycle for TLC. *)
EXTENDS PlaneLifecycle, TLC

CONSTANTS t1, t2

ThreadSymmetry == Permutations({t1, t2})
=============================================================================
