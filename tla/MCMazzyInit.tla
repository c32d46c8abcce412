----------------------------- MODULE MCMazzyInit -----------------------------
EXTENDS MazzyInit, TLC
Symmetry == Permutations(Procs) \cup Permutations(Roots) \cup Permutations(Dirs) \cup Permutations(Ids) \cup Permutations(Versions)
=============================================================================
