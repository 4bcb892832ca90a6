-------------------------- MODULE MCDetailHydration --------------------------
EXTENDS HydrationRefinement, TLC

CONSTANTS k1, k2, w1, w2, s1

\* Nothing enqueued yet; and both listings enqueued by an earlier run.
NoBacklog == [k \in Keys |-> 0]
FullBacklog == (k1 :> 1) @@ (k2 :> 2)

Symmetry == Permutations(Keys) \cup Permutations(Workers)
=============================================================================
