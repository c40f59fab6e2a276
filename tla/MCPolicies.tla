----------------------------- MODULE MCPolicies -----------------------------
(* Instance of Policies for TLC.                                           *)
EXTENDS Policies

\* One name of each kind begins with the other.
TwoEnvs == {<<"pr">>, <<"pr", "-1">>}
TwoIds  == {<<"acme">>, <<"acme", "-eu">>}
Both    == {TRUE, FALSE}
=============================================================================
