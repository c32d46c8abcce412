------------------------------ MODULE MCCutover ------------------------------
(* Small instances of Cutover for TLC. *)
EXTENDS Cutover, TLC

\* For instances where each session may be started either way, or none with it.
Symmetry == Permutations(Sessions)
=============================================================================
