----------------------------- MODULE MCLifecycle -----------------------------
(* Instances of Lifecycle for TLC.                                          *)
EXTENDS Lifecycle, TLC

CONSTANTS n1, n2, n3, none

MCThree == {n1, n2, n3}
MCTwo == {n1, n2}

\* The secret of a running cluster, and of one whose bootstrap is not over.
Good == {"good"}
AnyToken == {"none", "stale", "good"}

\* Nodes are interchangeable: no definition of Lifecycle names one.
Symmetry == Permutations(Nodes)
=============================================================================
