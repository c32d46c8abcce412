----------------------------- MODULE MCDataMove -----------------------------
(* Two moves into one project from a checkout and its copy, which share    *)
(* their identity and a task; the copy's other task has been edited.       *)
EXTENDS DataMove, TLC

CONSTANTS here, copied, t1, t2, c1, c2, low, high, id1

MCProjects == { here, copied }
MCTasks == { t1, t2 }
MCContents == { c1, c2 }
MCMetas == { low, high }
MCIds == { id1 }

MCShelf ==
    here :> ( t1 :> [ content |-> c1, meta |-> low, comments |-> 0 ] @@ t2 :> NoTask )
    @@ copied :> ( t1 :> [ content |-> c1, meta |-> low, comments |-> 1 ]
                   @@ t2 :> [ content |-> c1, meta |-> high, comments |-> 1 ] )

\* cp -r copies project.json too, unless the original had none yet.
MCTwins == here :> id1 @@ copied :> id1
MCMixed == here :> id1 @@ copied :> Null

Symmetry == Permutations(Movers)
=============================================================================
