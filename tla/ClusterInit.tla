---------------------------- MODULE ClusterInit ----------------------------
(***************************************************************************)
(* What bootstrapping promises, whatever the nodes do to get there: one    *)
(* cluster is initialised; its key material is stored; then it is          *)
(* configured; then the provisioning token and then the operator token are *)
(* stored; and only then may its root token stop working.  Each variable   *)
(* is the set of clusters that got so far: empty, or the only cluster.     *)
(***************************************************************************)
CONSTANT Nodes

VARIABLES owners, custody, ready, granted, retired
vars == <<owners, custody, ready, granted, retired>>

Init ==
    /\ owners = {} /\ custody = {} /\ ready = {} /\ retired = {}
    /\ granted = [p \in {"provisioning", "operator"} |-> {}]

\* One Vault is initialised, once.
Initialise ==
    /\ owners = {}
    /\ \E n \in Nodes : owners' = {n}
    /\ UNCHANGED <<custody, ready, granted, retired>>

\* Its key material reaches the key store and stays there.
Entrust ==
    /\ owners # {} /\ custody' = owners
    /\ UNCHANGED <<owners, ready, granted, retired>>

Prepare ==
    /\ custody # {} /\ ready' = custody
    /\ UNCHANGED <<owners, custody, granted, retired>>

Grant(p) ==
    /\ ready # {}
    /\ p = "operator" => granted["provisioning"] # {}
    /\ granted' = [granted EXCEPT ![p] = ready]
    /\ UNCHANGED <<owners, custody, ready, retired>>

\* The root token is given up only when both tokens can take over from it.
Retire ==
    /\ \A p \in {"provisioning", "operator"} : granted[p] # {}
    /\ retired' = owners
    /\ UNCHANGED <<owners, custody, ready, granted>>

Next ==
    \/ Initialise \/ Entrust \/ Prepare \/ Retire
    \/ \E p \in {"provisioning", "operator"} : Grant(p)

Spec == Init /\ [][Next]_vars
=============================================================================
