---------------------------- MODULE MCDiscussion ----------------------------
(* A small instance of Discussion for TLC: two sessions of one project and  *)
(* a project that the server of either can post to as well.                 *)
EXTENDS Discussion, TLC

CONSTANTS s1, s2, here, there

MCHome == [s \in {s1, s2} |-> here]
=============================================================================
