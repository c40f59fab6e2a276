---------------------------- MODULE MCSnapshots ----------------------------
(* Instances of Snapshots for TLC.                                         *)
EXTENDS Snapshots, TLC

CONSTANTS n1, n2, admin, none, cut

TwoNodes == {n1, n2}
OneAdmin == {admin}
BothStores == {"s3", "dir"}
S3Only == {"s3"}

\* Nodes are interchangeable: no definition of Snapshots names one.
Symmetry == Permutations({n1, n2})
=============================================================================
