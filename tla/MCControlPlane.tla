--------------------------- MODULE MCControlPlane ---------------------------
(* Small instances of ControlPlane for TLC. *)
EXTENDS ControlPlane, TLC

Symmetry == Permutations(Runs) \cup Permutations(Sessions)
=============================================================================
