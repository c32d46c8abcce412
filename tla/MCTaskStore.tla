---------------------------- MODULE MCTaskStore ----------------------------
(* Small instances of TaskStore for TLC. *)
EXTENDS TaskStore, TLC

Symmetry == Permutations(Runs) \cup Permutations(Agents) \cup Permutations(Contents)
=============================================================================
