----------------------------- MODULE MCTenants -----------------------------
(* Instances of Tenants for TLC.                                           *)
EXTENDS Tenants, TLC

CONSTANTS p1, p2, e1, e2, x, y, none, implicit

TwoPipelines == {p1, p2}
TwoEnvs == {e1, e2}
OneId == {x}
Both == {TRUE, FALSE}

\* Pipelines and envs are interchangeable: no definition of Tenants names one.
Symmetry == Permutations({p1, p2}) \union Permutations({e1, e2})
=============================================================================
