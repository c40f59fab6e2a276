------------------------------ MODULE Services ------------------------------
(***************************************************************************)
(* The services of a node that live on the operator token: vault-health,   *)
(* vault-snapshot and vault-lifecycle (vault-node/files/*.service), how    *)
(* each gets the token (useOperatorToken, withToken and the two serve      *)
(* loops of cmd/vault-utils/main.go), and RenewToken                       *)
(* (internal/vaultcluster/token.go), which keeps it alive.                 *)
(*                                                                         *)
(* Time goes by in renewal intervals: an Hour ends once every ticker that  *)
(* fired in it has been served.                                            *)
(***************************************************************************)
EXTENDS Integers

CONSTANTS
    Nodes,
    Kinds,         \* which services run: "health", "schedule" if there is a schedule, "lifecycle"
    Period,        \* the period of the operator token, in renewal intervals
    SecretStart    \* what the operator secret may hold first: "none", "earlier"

ASSUME ServiceKinds == Kinds \subseteq {"health", "schedule", "lifecycle"}
ASSUME Intervals == Period \in Nat /\ Period > 2
ASSUME Secrets == SecretStart \subseteq {"none", "earlier"}

Services == Nodes \X Kinds
Node(s) == s[1]
\* These read the token before they do anything else, and exit without one.
Loads(s) == s[2] \in {"health", "schedule"}

VARIABLES
    secret,    \* the operator secret: nothing, a token of an earlier cluster, this one's
    ttl,       \* intervals this cluster's token has left; 0: not issued yet, or expired
    reach,     \* reach[n]: Vault answers the requests of node n
    up,        \* up[s]: the process runs
    held,      \* held[s]: the token of its client
    renewing,  \* renewing[s]: its RenewToken loop runs
    due,       \* due[s]: the ticker of that loop has fired
    steady,    \* history: hours s has held the token of a Vault that answers, at most 2
    idle       \* history: hours since some service was steady; stays at Period - 1

clients == <<up, held, renewing, due, steady>>
vars    == <<secret, ttl, reach, clients, idle>>

TokenStates == {"none", "earlier", "current"}

TypeOK ==
    /\ secret \in TokenStates
    /\ ttl \in 0..Period
    /\ reach \in [Nodes -> BOOLEAN]
    /\ up \in [Services -> BOOLEAN]
    /\ held \in [Services -> TokenStates]
    /\ renewing \in [Services -> BOOLEAN]
    /\ due \in [Services -> BOOLEAN]
    /\ steady \in [Services -> 0..2]
    /\ idle \in 0..(Period - 1)

\* The units start after the first attempt of bootstrap, whatever came of it.
Init ==
    /\ secret \in SecretStart /\ ttl = 0 /\ idle = 0
    /\ reach \in [Nodes -> BOOLEAN]
    /\ up = [s \in Services |-> FALSE]
    /\ held = [s \in Services |-> "none"]
    /\ renewing = [s \in Services |-> FALSE]
    /\ due = [s \in Services |-> FALSE]
    /\ steady = [s \in Services |-> 0]

\* Vault knows the token t and answers s.
Accepted(s, t) == reach[Node(s)] /\ t = "current" /\ ttl > 0

-----------------------------------------------------------------------------
(* Processes                                                               *)

\* Fault: a missing token does not stop the service.
Start_AnyToken(s) ==
    /\ ~up[s]
    /\ up' = [up EXCEPT ![s] = TRUE]
    /\ IF Loads(s)
       THEN /\ held' = [held EXCEPT ![s] = secret]
            /\ renewing' = [renewing EXCEPT ![s] = TRUE]
       ELSE UNCHANGED <<held, renewing>>
    /\ UNCHANGED <<secret, ttl, reach, due, steady, idle>>

\* health serve and snapshot schedule load the token once.  Without one, or when
\* the read fails, they exit and systemd starts them again: no step.
Start(s) ==
    /\ ~up[s]
    /\ up' = [up EXCEPT ![s] = TRUE]
    /\ IF Loads(s)
       THEN /\ secret # "none"
            /\ held' = [held EXCEPT ![s] = secret]
            /\ renewing' = [renewing EXCEPT ![s] = TRUE]
       ELSE UNCHANGED <<held, renewing>>
    /\ UNCHANGED <<secret, ttl, reach, due, steady, idle>>

\* lifecycle has a hook to answer: the token is read when it is missing, the first
\* use starts the renewals, and a 403 makes the process forget the token.
WithToken(s) ==
    LET t == IF held[s] = "none" THEN secret ELSE held[s] IN
    /\ up[s] /\ ~Loads(s) /\ t # "none"
    /\ renewing' = [renewing EXCEPT ![s] = TRUE]
    /\ held' = [held EXCEPT ![s] = IF reach[Node(s)] /\ ~Accepted(s, t) THEN "none" ELSE t]
    /\ steady' = IF held'[s] # held[s] THEN [steady EXCEPT ![s] = 0] ELSE steady
    /\ UNCHANGED <<secret, ttl, reach, up, due, idle>>

\* Fault: a failed renewal ends the loop.
Renew_Once(s) ==
    /\ due[s]
    /\ due' = [due EXCEPT ![s] = FALSE]
    /\ IF Accepted(s, held[s])
       THEN ttl' = Period /\ UNCHANGED renewing
       ELSE renewing' = [renewing EXCEPT ![s] = FALSE] /\ UNCHANGED ttl
    /\ UNCHANGED <<secret, reach, up, held, steady, idle>>

\* RenewToken serves a tick: a failed renewal waits for the next one.
Renew(s) ==
    /\ due[s]
    /\ due' = [due EXCEPT ![s] = FALSE]
    /\ ttl' = IF Accepted(s, held[s]) THEN Period ELSE ttl
    /\ UNCHANGED <<secret, reach, up, held, renewing, steady, idle>>

\* The process ends, with its token and its ticker.
Crash(s) ==
    /\ up[s]
    /\ up' = [up EXCEPT ![s] = FALSE]
    /\ held' = [held EXCEPT ![s] = "none"]
    /\ renewing' = [renewing EXCEPT ![s] = FALSE]
    /\ due' = [due EXCEPT ![s] = FALSE]
    /\ steady' = [steady EXCEPT ![s] = 0]
    /\ UNCHANGED <<secret, ttl, reach, idle>>

-----------------------------------------------------------------------------
(* Vault, bootstrap and the clock                                          *)

\* Bootstrap issues the token and replaces whatever the secret held.
Issue ==
    /\ secret # "current"
    /\ secret' = "current" /\ ttl' = Period
    /\ UNCHANGED <<reach, clients, idle>>

\* Vault, or the network to it, fails for a node or is back.
Outage(n) ==
    /\ reach[n]
    /\ reach' = [reach EXCEPT ![n] = FALSE]
    /\ steady' = [s \in Services |-> IF Node(s) = n THEN 0 ELSE steady[s]]
    /\ UNCHANGED <<secret, ttl, up, held, renewing, due, idle>>

Back(n) ==
    /\ ~reach[n]
    /\ reach' = [reach EXCEPT ![n] = TRUE]
    /\ UNCHANGED <<secret, ttl, clients, idle>>

\* History: s is in a position to renew, whether its loop runs or not.
Placed(s) == held[s] = "current" /\ reach[Node(s)]

\* An interval goes by, and every ticker fires again.
Hour ==
    /\ \A s \in Services : ~due[s]
    /\ due' = renewing
    /\ ttl' = IF ttl > 0 THEN ttl - 1 ELSE 0
    /\ steady' = [s \in Services |-> IF ~Placed(s) THEN 0
                                     ELSE IF steady[s] = 0 THEN 1 ELSE 2]
    /\ idle' = IF secret # "current" \/ idle = Period - 1 THEN idle
               ELSE IF \E s \in Services : steady'[s] = 2 THEN 0 ELSE idle + 1
    /\ UNCHANGED <<secret, reach, up, held, renewing>>

-----------------------------------------------------------------------------
Next ==
    \/ \E s \in Services : Start(s) \/ WithToken(s) \/ Renew(s) \/ Crash(s)
    \/ \E n \in Nodes : Outage(n) \/ Back(n)
    \/ Issue \/ Hour

(***************************************************************************)
(* systemd restarts what has ended, the secret can be read now and then,   *)
(* and bootstrap ends.  Nobody owes the services a Vault that answers.     *)
(***************************************************************************)
Fairness == WF_vars(Issue) /\ \A s \in Services : WF_vars(Start(s))

Spec == Init /\ [][Next]_vars
FairSpec == Spec /\ Fairness

-----------------------------------------------------------------------------
(* Correctness                                                             *)

\* The operator token outlives a run of failed renewals: as long as, in any
\* Period - 1 hours, one service somewhere has been left in peace with it for two,
\* it does not expire, whichever services crash, restart or hold a token of an
\* earlier cluster meanwhile.  (tokenRenewInterval and RenewToken, main.go:21)
TokenLasts == secret = "current" /\ idle < Period - 1 => ttl > 0

\* A service that needs the token comes to hold this cluster's, although it was
\* started before there was one, unless it found one of an earlier cluster: that
\* one it keeps until it ends.  (useOperatorToken, vault-health.service:3-4)
ServicesComeUp ==
    \A s \in Services : Loads(s) =>
        (secret # "earlier" /\ held[s] # "earlier" ~> held[s] = "current")
=============================================================================
