----------------------------- MODULE MCServices -----------------------------
(* Instances of Services for TLC.                                           *)
EXTENDS Services

CONSTANTS n1, n2

TwoNodes == {n1, n2}
OneNode == {n1}
AllKinds == {"health", "schedule", "lifecycle"}
TwoKinds == {"health", "lifecycle"}
AnyStart == {"none", "earlier"}
=============================================================================
