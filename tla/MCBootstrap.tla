----------------------------- MODULE MCBootstrap -----------------------------
(* Instances of Bootstrap for TLC.                                          *)
EXTENDS Bootstrap, TLC

CONSTANTS n1, n2, n3, none, empty, gone

MCThree == {n1, n2, n3}
MCTwo == {n1, n2}
Both == {"aws", "local"}
AwsOnly == {"aws"}

\* What a first deployment finds, and what a rebuilt one may find.
Fresh == {none}
Leftover == {gone}
FreshOrLeftover == {none, gone}

\* Nodes are interchangeable: no definition of Bootstrap names one.
Symmetry == Permutations(Nodes)
=============================================================================
