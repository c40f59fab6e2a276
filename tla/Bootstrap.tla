----------------------------- MODULE Bootstrap -----------------------------
(***************************************************************************)
(* RunBootstrap of internal/vaultcluster/bootstrap.go, run by every node   *)
(* of a cluster as a systemd one-shot (vault-bootstrap.service), over the  *)
(* things the nodes share: the init claim in S3 (ClaimInit of              *)
(* internal/aws/s3/snapshot.go) and the three platform secrets of the key  *)
(* store (keystore.go, internal/aws/secretsmanager).                       *)
(*                                                                         *)
(* A Vault cluster is named by the node whose Vault was initialised to     *)
(* create it.  Key material and tokens are abstracted to the cluster they  *)
(* belong to and whether they still work.                                  *)
(***************************************************************************)
EXTENDS Integers, FiniteSets

CONSTANTS
    Nodes,          \* the nodes: each runs one Vault and one bootstrap process
    None,           \* no cluster, no claim holder
    Empty,          \* the claim object exists and its body is empty
    Gone,           \* a node or a cluster of an earlier deployment
    Platforms,      \* of "aws" (KMS seal, init claim) and "local" (Shamir, one node)
    KeepRoot,       \* BootstrapOptions.KeepRoot
    ClaimStart,     \* what the claim object may hold before the first boot
    MaterialStart,  \* the clusters whose material the init secret may hold then
    TokenStart,     \* the clusters whose tokens the token secrets may hold then
    MaxFailures,    \* bound: crashes, reboots and calls that fail on their own
    MaxTakeovers,   \* bound: waits for init material that expire without it
    MaxExpiries,    \* bound: expiries of the 24 h provisioning token
    MaxLosses,      \* bound: nodes terminated for good
    MaxTears        \* bound: files of the local key store cut short while written

Clusters == Nodes \union {Gone}

ASSUME DistinctNames ==
    /\ None \notin Clusters /\ Empty \notin Clusters
    /\ None # Empty /\ Gone \notin Nodes
ASSUME StartStates ==
    /\ ClaimStart \subseteq {None, Empty, Gone} /\ ClaimStart # {}
    /\ MaterialStart \subseteq {None, Gone} /\ MaterialStart # {}
    /\ TokenStart \subseteq {None, Gone} /\ TokenStart # {}
ASSUME Options ==
    /\ Platforms \subseteq {"aws", "local"}
    /\ KeepRoot \in BOOLEAN
ASSUME Bounds ==
    /\ MaxFailures \in Nat /\ MaxTakeovers \in Nat
    /\ MaxExpiries \in Nat /\ MaxLosses \in Nat /\ MaxTears \in Nat

VARIABLES
    pc,          \* pc[n]: where node n's bootstrap process is
    sawInit,     \* sawInit[n]: st.Initialized, read once in ensureInitialized
    found,       \* found[n]: the first LoadInit succeeded
    leader,      \* leader[n]: the result of ensureInitialized
    mem,         \* mem[n]: the init response the process holds
    name,        \* name[n]: the policy of the token loop
    vault,       \* vault[n]: the cluster n's Vault belongs to, or None
    sealed,      \* sealed[n]: n's Vault is sealed
    platform,    \* what the nodes run on
    rootLive,    \* the clusters whose initial root token still works
    configured,  \* the clusters whose Configure has completed
    claim,       \* the S3 claim object: None, Empty or the holder
    material,    \* the init secret
    token,       \* token[p]: the secret of the token with policy p
    takeover,    \* history: the nodes that stopped waiting for the claim holder
    failures, expiries, losses, tears   \* counters against their bounds

locals  == <<sawInit, found, leader, mem, name>>
vaults  == <<vault, sealed>>
grants  == <<platform, rootLive, configured>>
secrets == <<material, token>>
counts  == <<failures, expiries, losses, tears>>
vars    == <<pc, locals, vaults, grants, claim, secrets, takeover, counts>>

Policies == {"provisioning", "operator"}
Material == [cluster : Clusters \union {None}, root : {"live", "revoked"}]
Token    == [cluster : Clusters \union {None}, live : BOOLEAN]
Absent   == [cluster |-> None, root |-> "revoked"]
Blank    == [cluster |-> None, live |-> FALSE]
PCs == {"down", "status", "load", "awaitVault", "claim", "readClaim", "putClaim",
        "awaitMaterial", "init", "saveInit", "unseal", "awaitPeer", "checkToken",
        "loadRoot", "configure", "issue", "save", "revoke", "mark", "done", "lost"}

TypeOK ==
    /\ pc \in [Nodes -> PCs]
    /\ sawInit \in [Nodes -> BOOLEAN] /\ found \in [Nodes -> BOOLEAN]
    /\ leader \in [Nodes -> BOOLEAN]
    /\ mem \in [Nodes -> Material] /\ name \in [Nodes -> Policies]
    /\ vault \in [Nodes -> Nodes \union {None}] /\ sealed \in [Nodes -> BOOLEAN]
    /\ platform \in Platforms
    /\ rootLive \in SUBSET Nodes /\ configured \in SUBSET Nodes
    /\ claim \in Clusters \union {None, Empty}
    /\ material \in Material /\ token \in [Policies -> Token]
    /\ takeover \in SUBSET Nodes
    /\ failures \in 0..MaxFailures /\ expiries \in 0..MaxExpiries
    /\ losses \in 0..MaxLosses /\ tears \in 0..MaxTears

\* Vaults are uninitialised; the shared objects may survive an earlier deployment.
\* On the local platform one node takes part.
Init ==
    /\ platform \in Platforms
    /\ \E me \in Nodes :
         pc = [n \in Nodes |-> IF platform = "aws" \/ n = me THEN "down" ELSE "lost"]
    /\ sawInit = [n \in Nodes |-> FALSE] /\ found = [n \in Nodes |-> FALSE]
    /\ leader = [n \in Nodes |-> FALSE]
    /\ mem = [n \in Nodes |-> Absent] /\ name = [n \in Nodes |-> "provisioning"]
    /\ vault = [n \in Nodes |-> None] /\ sealed = [n \in Nodes |-> TRUE]
    /\ rootLive = {} /\ configured = {}
    /\ claim \in ClaimStart
    /\ material \in Material /\ material.cluster \in MaterialStart
    /\ material.cluster = None => material = Absent
    /\ \E c \in TokenStart : token = [p \in Policies |-> [cluster |-> c, live |-> c # None]]
    /\ takeover = {} /\ failures = 0 /\ expiries = 0 /\ losses = 0 /\ tears = 0

-----------------------------------------------------------------------------
(* Shared pieces of the steps.                                             *)

Goto(n, from, to) == pc[n] = from /\ pc' = [pc EXCEPT ![n] = to]

\* The process ends and forgets its variables; systemd starts it again.
Exit(n, to) ==
    /\ pc' = [pc EXCEPT ![n] = to]
    /\ sawInit' = [sawInit EXCEPT ![n] = FALSE]
    /\ found' = [found EXCEPT ![n] = FALSE]
    /\ leader' = [leader EXCEPT ![n] = FALSE]
    /\ mem' = [mem EXCEPT ![n] = Absent]
    /\ name' = [name EXCEPT ![n] = "provisioning"]

Err(n, from) ==
    /\ pc[n] = from
    /\ Exit(n, "down")
    /\ UNCHANGED <<vaults, grants, claim, secrets, takeover, expiries, losses, tears>>

Fails == failures < MaxFailures /\ failures' = failures + 1

\* A wait polls until a deadline and does not look again after its last sleep:
\* it can expire on a condition that has just come true, which counts as a failure.
Expires(n, from, met) ==
    /\ IF met THEN Fails ELSE UNCHANGED failures
    /\ Err(n, from)

\* Fault: a stored token counts without being looked up.
Accepts_NoLookup(n, t) == t.cluster # None /\ vault[n] # None /\ ~sealed[n]

\* A token is accepted by n's Vault: same cluster, not expired, not sealed.
Accepts(n, t) == t.live /\ t.cluster = vault[n] /\ vault[n] # None /\ ~sealed[n]

-----------------------------------------------------------------------------
(* ensureInitialized                                                       *)

\* systemd starts the process; WaitReady returns once Vault answers.  Locally
\* someone runs it again when Vault has restarted and stays sealed.
Start(n) ==
    /\ pc[n] = "down" \/ (platform = "local" /\ pc[n] = "done" /\ sealed[n])
    /\ Exit(n, "status")
    /\ UNCHANGED <<vaults, grants, claim, secrets, takeover, counts>>

ReadSealStatus(n) ==
    /\ Goto(n, "status", "load")
    /\ sawInit' = [sawInit EXCEPT ![n] = vault[n] # None]
    /\ UNCHANGED <<found, leader, mem, name, vaults, grants, claim, secrets, takeover, counts>>

\* ensureInitialized returns ok when the init secret was found, else goes on to initVault.
ClaimResult(n, resumes, ok) ==
    /\ leader' = [leader EXCEPT ![n] = ok]
    /\ pc' = [pc EXCEPT ![n] = CASE resumes -> "unseal"
                                 [] ~resumes /\ ok -> "init"
                                 [] OTHER -> "awaitMaterial"]

\* Without ClaimInit the process leads at once.
BeginClaim(n, resumes) ==
    IF platform = "aws"
    THEN pc' = [pc EXCEPT ![n] = "claim"] /\ UNCHANGED leader
    ELSE ClaimResult(n, resumes, TRUE)

\* Fault: found material does not keep an uninitialised Vault from being initialised.
LoadMaterial_NoWait(n) ==
    /\ pc[n] = "load" /\ material.cluster # None
    /\ found' = [found EXCEPT ![n] = sawInit[n]]
    /\ BeginClaim(n, sawInit[n])
    /\ UNCHANGED <<sawInit, mem, name, vaults, grants, claim, secrets, takeover, counts>>

LoadMaterial(n) ==
    /\ pc[n] = "load" /\ material.cluster # None
    /\ found' = [found EXCEPT ![n] = TRUE]
    /\ IF sawInit[n] THEN BeginClaim(n, TRUE)
                     ELSE pc' = [pc EXCEPT ![n] = "awaitVault"] /\ UNCHANGED leader
    /\ UNCHANGED <<sawInit, mem, name, vaults, grants, claim, secrets, takeover, counts>>

\* Fault: a node without key material initialises its Vault without a claim.
MissMaterial_NoClaim(n) ==
    /\ pc[n] = "load" /\ material.cluster = None
    /\ pc' = [pc EXCEPT ![n] = IF sawInit[n] THEN "awaitMaterial" ELSE "init"]
    /\ leader' = [leader EXCEPT ![n] = ~sawInit[n]]
    /\ UNCHANGED <<sawInit, found, mem, name, vaults, grants, claim, secrets, takeover, counts>>

\* Any error of LoadInit counts as "no key material", a failed read too.
MissMaterial(n) ==
    /\ pc[n] = "load"
    /\ \/ material.cluster = None /\ UNCHANGED failures
       \/ material.cluster # None /\ Fails
    /\ IF sawInit[n] THEN pc' = [pc EXCEPT ![n] = "awaitMaterial"] /\ UNCHANGED leader
                     ELSE BeginClaim(n, FALSE)
    /\ UNCHANGED <<sawInit, found, mem, name, vaults, grants, claim, secrets, takeover, expiries,
                   losses, tears>>

\* waitVaultInitialized: before resuming from found material, or as the loser of the claim.
VaultInitialized(n) ==
    /\ pc[n] = "awaitVault" /\ vault[n] # None
    /\ IF found[n] THEN BeginClaim(n, TRUE)
                   ELSE pc' = [pc EXCEPT ![n] = "unseal"] /\ UNCHANGED leader
    /\ UNCHANGED <<sawInit, found, mem, name, vaults, grants, claim, secrets, takeover, counts>>

WaitVaultTimeout(n) == Expires(n, "awaitVault", vault[n] # None)

\* waitInitMaterial
MaterialArrives(n) ==
    /\ material.cluster # None
    /\ Goto(n, "awaitMaterial", IF sawInit[n] THEN "unseal" ELSE "awaitVault")
    /\ UNCHANGED <<locals, vaults, grants, claim, secrets, takeover, counts>>

\* A poll that finds nothing.
MaterialPoll(n) == pc[n] = "awaitMaterial" /\ material.cluster = None /\ UNCHANGED vars

MaterialTimeout(n) ==
    sawInit[n] /\ Expires(n, "awaitMaterial", material.cluster # None)

\* The loser of the claim stops waiting and initialises its own Vault.
TakeOver(n) ==
    /\ ~sawInit[n] /\ Cardinality(takeover \union {n}) <= MaxTakeovers
    /\ Goto(n, "awaitMaterial", "init")
    /\ leader' = [leader EXCEPT ![n] = TRUE]
    /\ takeover' = takeover \union {n}
    /\ UNCHANGED <<sawInit, found, mem, name, vaults, grants, claim, secrets, counts>>

-----------------------------------------------------------------------------
(* ClaimInit                                                               *)

PutIfAbsent(n) ==
    /\ pc[n] = "claim"
    /\ \/ claim = None /\ claim' = n /\ ClaimResult(n, found[n], TRUE)
       \/ /\ claim # None
          /\ pc' = [pc EXCEPT ![n] = "readClaim"] /\ UNCHANGED <<claim, leader>>
    /\ UNCHANGED <<sawInit, found, mem, name, vaults, grants, secrets, takeover, counts>>

\* Fault: the holder is not compared with the node's own ID.
ReadClaim_AnyHolder(n) ==
    /\ Goto(n, "readClaim", "putClaim")
    /\ UNCHANGED <<locals, vaults, grants, claim, secrets, takeover, counts>>

\* Fault: a restarted holder does not recognise its own claim.
ReadClaim_NotOwn(n) ==
    /\ pc[n] = "readClaim"
    /\ IF claim = Empty
       THEN pc' = [pc EXCEPT ![n] = "putClaim"] /\ UNCHANGED leader
       ELSE ClaimResult(n, found[n], FALSE)
    /\ UNCHANGED <<sawInit, found, mem, name, vaults, grants, claim, secrets, takeover, counts>>

ReadClaim(n) ==
    /\ pc[n] = "readClaim"
    /\ IF claim \in {Empty, n}
       THEN pc' = [pc EXCEPT ![n] = "putClaim"] /\ UNCHANGED leader
       ELSE ClaimResult(n, found[n], FALSE)
    /\ UNCHANGED <<sawInit, found, mem, name, vaults, grants, claim, secrets, takeover, counts>>

\* The write is not conditional on what Get returned.
PutClaim(n) ==
    /\ pc[n] = "putClaim"
    /\ claim' = n
    /\ ClaimResult(n, found[n], TRUE)
    /\ UNCHANGED <<sawInit, found, mem, name, vaults, grants, secrets, takeover, counts>>

-----------------------------------------------------------------------------
(* initVault                                                               *)

\* When the answer is lost the seal status says initialised: not an error either, and
\* the leader goes on without the key material.
InitVault(n) ==
    /\ vault[n] = None /\ pc[n] = "init"
    /\ vault' = [vault EXCEPT ![n] = n]
    /\ rootLive' = rootLive \union {n}
    /\ \/ /\ pc' = [pc EXCEPT ![n] = "saveInit"]
          /\ mem' = [mem EXCEPT ![n] = [cluster |-> n, root |-> "live"]]
          /\ UNCHANGED failures
       \/ pc' = [pc EXCEPT ![n] = "unseal"] /\ UNCHANGED mem /\ Fails
    /\ UNCHANGED <<platform, sawInit, found, leader, name, sealed, configured, claim, secrets,
                   takeover, expiries, losses, tears>>

\* Init fails because the Vault joined a peer's cluster meanwhile: not an error.
InitRefused(n) ==
    /\ vault[n] # None
    /\ Goto(n, "init", "unseal")
    /\ UNCHANGED <<locals, vaults, grants, claim, secrets, takeover, counts>>

SaveInit(n) ==
    /\ Goto(n, "saveInit", "unseal")
    /\ material' = mem[n]
    /\ UNCHANGED <<locals, vaults, grants, claim, token, takeover, counts>>

-----------------------------------------------------------------------------
(* waitUnsealed and unseal, then the two roles                             *)

Unsealed(n) ==
    /\ ~sealed[n]
    /\ Goto(n, "unseal", IF leader[n] THEN "checkToken" ELSE "awaitPeer")
    /\ UNCHANGED <<locals, vaults, grants, claim, secrets, takeover, counts>>

\* Shamir: the stored shares open only the cluster they were made for.
SubmitShares(n) ==
    /\ platform = "local" /\ pc[n] = "unseal" /\ sealed[n]
    /\ material.cluster = vault[n]
    /\ sealed' = [sealed EXCEPT ![n] = FALSE]
    /\ UNCHANGED <<pc, locals, vault, grants, claim, secrets, takeover, counts>>

\* It stays sealed for 90 s, or the shares cannot be loaded.
UnsealTimeout(n) ==
    Expires(n, "unseal", ~sealed[n] \/ (platform = "local" /\ material.cluster = vault[n]))

\* waitPeerBootstrap
PeerBootstrapped(n) ==
    /\ Accepts(n, token["provisioning"])
    /\ Goto(n, "awaitPeer", "done")
    /\ UNCHANGED <<locals, vaults, grants, claim, secrets, takeover, counts>>

WaitPeerTimeout(n) == Expires(n, "awaitPeer", Accepts(n, token["provisioning"]))

\* A provisioning token that works ends the run; a failed read counts as none.
CheckToken(n) ==
    /\ pc[n] = "checkToken"
    /\ \/ /\ Accepts(n, token["provisioning"]) /\ pc' = [pc EXCEPT ![n] = "done"]
          /\ UNCHANGED failures
       \/ /\ IF Accepts(n, token["provisioning"]) THEN Fails ELSE UNCHANGED failures
          /\ pc' = [pc EXCEPT ![n] = "loadRoot"]
    /\ UNCHANGED <<locals, vaults, grants, claim, secrets, takeover, expiries, losses, tears>>

LoadRoot(n) ==
    /\ material.root = "live"
    /\ Goto(n, "loadRoot", "configure")
    /\ mem' = [mem EXCEPT ![n] = material]
    /\ UNCHANGED <<sawInit, found, leader, name, vaults, grants, claim, secrets, takeover, counts>>

RootMissing(n) == material.root # "live" /\ Err(n, "loadRoot") /\ UNCHANGED failures

\* The root token in hand is the live root of the cluster n's Vault is in, and
\* that Vault has not restarted since it was unsealed.
RootWorks(n) == mem[n].cluster = vault[n] /\ vault[n] \in rootLive /\ ~sealed[n]

Configure(n) ==
    /\ RootWorks(n)
    /\ Goto(n, "configure", "issue")
    /\ configured' = configured \union {vault[n]}
    /\ UNCHANGED <<platform, locals, vaults, rootLive, claim, secrets, takeover, counts>>

IssueToken(n) ==
    /\ RootWorks(n)
    /\ Goto(n, "issue", "save")
    /\ UNCHANGED <<locals, vaults, grants, claim, secrets, takeover, counts>>

RootRefused(n) ==
    /\ ~RootWorks(n) /\ UNCHANGED failures
    /\ \E at \in {"configure", "issue"} : Err(n, at)

\* Fault: the root is revoked as soon as the first token is stored.
SaveToken_OneToken(n) ==
    /\ Goto(n, "save", IF KeepRoot THEN "done" ELSE "revoke")
    /\ token' = [token EXCEPT ![name[n]] = [cluster |-> vault[n], live |-> TRUE]]
    /\ UNCHANGED <<locals, vaults, grants, claim, material, takeover, counts>>

\* Provisioning is issued and saved before operator is issued.
SaveToken(n) ==
    /\ pc[n] = "save"
    /\ token' = [token EXCEPT ![name[n]] = [cluster |-> vault[n], live |-> TRUE]]
    /\ IF name[n] = "provisioning"
       THEN pc' = [pc EXCEPT ![n] = "issue"] /\ name' = [name EXCEPT ![n] = "operator"]
       ELSE /\ pc' = [pc EXCEPT ![n] = IF KeepRoot THEN "done" ELSE "revoke"]
            /\ UNCHANGED name
    /\ UNCHANGED <<sawInit, found, leader, mem, vaults, grants, claim, material, takeover, counts>>

RevokeRoot(n) ==
    /\ RootWorks(n)
    /\ Goto(n, "revoke", "mark")
    /\ rootLive' = rootLive \ {vault[n]}
    /\ UNCHANGED <<platform, locals, vaults, configured, claim, secrets, takeover, counts>>

\* A failed revocation is logged and the run still succeeds.
RevokeFails(n) ==
    /\ Goto(n, "revoke", "done")
    /\ IF RootWorks(n) THEN Fails ELSE UNCHANGED failures
    /\ UNCHANGED <<locals, vaults, grants, claim, secrets, takeover, expiries, losses, tears>>

\* Fault: the marker is written as an empty init response.
MarkRevoked_Blank(n) ==
    /\ Goto(n, "mark", "done")
    /\ material' = [cluster |-> None, root |-> ""]
    /\ UNCHANGED <<locals, vaults, grants, claim, token, takeover, counts>>

\* The marker replaces the root token in the init secret; its error is ignored.
MarkRevoked(n) ==
    /\ Goto(n, "mark", "done")
    /\ \/ material' = [mem[n] EXCEPT !.root = "revoked"] /\ UNCHANGED failures
       \/ UNCHANGED material /\ Fails
    /\ UNCHANGED <<locals, vaults, grants, claim, token, takeover, expiries, losses, tears>>

-----------------------------------------------------------------------------
(* Vault, AWS and the machines                                             *)

\* retry_join: an uninitialised Vault joins any cluster it can reach.
JoinPeer(n) ==
    /\ platform = "aws" /\ vault[n] = None /\ pc[n] # "lost"
    /\ \E m \in Nodes :
         /\ vault[m] # None /\ ~sealed[m] /\ pc[m] # "lost"
         /\ vault' = [vault EXCEPT ![n] = vault[m]]
    /\ UNCHANGED <<pc, locals, sealed, grants, claim, secrets, takeover, counts>>

\* The KMS seal opens an initialised Vault on its own.
AutoUnseal(n) ==
    /\ platform = "aws" /\ vault[n] # None /\ sealed[n] /\ pc[n] # "lost"
    /\ sealed' = [sealed EXCEPT ![n] = FALSE]
    /\ UNCHANGED <<pc, locals, vault, grants, claim, secrets, takeover, counts>>

\* The process dies, or a call it makes fails and it returns the error.
Crash(n) ==
    /\ pc[n] \notin {"down", "done", "lost"} /\ Fails
    /\ Exit(n, "down")
    /\ UNCHANGED <<vaults, grants, claim, secrets, takeover, expiries, losses, tears>>

\* Vault alone restarts and comes back sealed; the bootstrap process goes on.
VaultRestarts(n) ==
    /\ pc[n] # "lost" /\ ~sealed[n] /\ Fails
    /\ sealed' = [sealed EXCEPT ![n] = TRUE]
    /\ UNCHANGED <<pc, locals, vault, grants, claim, secrets, takeover, expiries, losses, tears>>

\* FileKeyStore.write truncates the file first: killed there, or with the disk
\* full, it leaves nothing that can be read.  The run ends, except that
\* the error of the marker is ignored.
Tear(n) ==
    /\ platform = "local" /\ tears < MaxTears /\ tears' = tears + 1
    /\ \/ pc[n] = "save" /\ Exit(n, "down")
          /\ token' = [token EXCEPT ![name[n]] = Blank] /\ UNCHANGED material
       \/ pc[n] \in {"saveInit", "mark"} /\ Exit(n, "down")
          /\ material' = Absent /\ UNCHANGED token
       \/ Goto(n, "mark", "done")
          /\ material' = Absent /\ UNCHANGED <<locals, token>>
    /\ UNCHANGED <<vaults, grants, claim, takeover, failures, expiries, losses>>

\* The machine restarts: Vault comes back sealed and the one-shot runs again.
Reboot(n) ==
    /\ pc[n] # "lost" /\ Fails
    /\ Exit(n, "down")
    /\ sealed' = [sealed EXCEPT ![n] = TRUE]
    /\ UNCHANGED <<vault, grants, claim, secrets, takeover, expiries, losses, tears>>

\* The instance is terminated; its replacement is another node.
Lose(n) ==
    /\ platform = "aws" /\ pc[n] # "lost" /\ losses < MaxLosses
    /\ losses' = losses + 1
    /\ Exit(n, "lost")
    /\ UNCHANGED <<vaults, grants, claim, secrets, takeover, failures, expiries, tears>>

\* Nothing renews the stored provisioning token.
ExpireProvisioning ==
    /\ token["provisioning"].live /\ expiries < MaxExpiries
    /\ expiries' = expiries + 1
    /\ token' = [token EXCEPT !["provisioning"].live = FALSE]
    /\ UNCHANGED <<pc, locals, vaults, grants, claim, material, takeover, failures, losses, tears>>

\* Every one-shot has exited and every Vault is up: nothing is left to do.
Finished ==
    /\ \A n \in Nodes : pc[n] = "lost" \/ (pc[n] = "done" /\ ~sealed[n])
    /\ UNCHANGED vars

-----------------------------------------------------------------------------
Step(n) ==
    \/ Start(n) \/ ReadSealStatus(n) \/ LoadMaterial(n) \/ MissMaterial(n)
    \/ VaultInitialized(n) \/ WaitVaultTimeout(n)
    \/ MaterialArrives(n) \/ MaterialTimeout(n) \/ TakeOver(n)
    \/ PutIfAbsent(n) \/ ReadClaim(n) \/ PutClaim(n)
    \/ InitVault(n) \/ InitRefused(n) \/ SaveInit(n)
    \/ Unsealed(n) \/ SubmitShares(n) \/ UnsealTimeout(n)
    \/ PeerBootstrapped(n) \/ WaitPeerTimeout(n)
    \/ CheckToken(n) \/ LoadRoot(n) \/ RootMissing(n)
    \/ Configure(n) \/ IssueToken(n) \/ RootRefused(n) \/ SaveToken(n)
    \/ RevokeRoot(n) \/ RevokeFails(n) \/ MarkRevoked(n)

Environment(n) == JoinPeer(n) \/ AutoUnseal(n) \/ Crash(n) \/ VaultRestarts(n) \/ Tear(n)
                  \/ Reboot(n) \/ Lose(n)

Next == (\E n \in Nodes : Step(n) \/ Environment(n)) \/ ExpireProvisioning
        \/ (\E n \in Nodes : MaterialPoll(n)) \/ Finished

(***************************************************************************)
(* systemd restarts the process, the process never stops on its own, and   *)
(* Vault keeps retrying to join and to unseal.                             *)
(***************************************************************************)
Fairness ==
    /\ \A n \in Nodes : WF_vars(Step(n))
    /\ WF_vars(\E n \in Nodes : JoinPeer(n) \/ AutoUnseal(n))

Spec == Init /\ [][Next]_vars
FairSpec == Spec /\ Fairness
-----------------------------------------------------------------------------
(* Correctness                                                             *)

\* Nobody gave up on the claim holder, and the claim was not found empty.
Orderly == takeover = {} /\ Empty \notin ClaimStart

\* Init once: whichever nodes race, crash or read stale seal states, only the
\* claim holder, and nodes that waited for it in vain, ever initialise a cluster.
\* Without the latter every Vault belongs to one cluster, and the init secret of
\* this deployment is that cluster's.  (ClaimInit, ensureInitialized, initVault)
SoleCluster ==
    /\ platform = "aws" /\ Empty \notin ClaimStart =>
           \A n \in Nodes : vault[n] \in Nodes => vault[n] \in takeover \union {claim}
    /\ Orderly => \A m, n \in Nodes : /\ {vault[m], vault[n]} \subseteq Nodes => vault[m] = vault[n]
                                      /\ {material.cluster, vault[n]} \subseteq Nodes
                                            => material.cluster = vault[n]

\* A run that succeeds on any node, leader or follower, leaves that node in a
\* cluster whose mounts and policies are written: a token of an earlier or of
\* another cluster never counts.  (waitPeerBootstrap, lines 49-56)
FinishedMeansConfigured ==
    \A n \in Nodes : pc[n] = "done" => vault[n] \in configured

\* Nobody is locked out: a cluster's root is revoked only once Configure has
\* completed and both of its tokens are stored.  (lines 69-88)
RevokedAfterSaved ==
    Orderly => \A c \in Nodes : (vault[c] = c /\ c \notin rootLive) =>
        /\ c \in configured
        /\ \A p \in Policies : token[p].cluster = c

\* The claim has one winner for the life of the deployment: no node, restarted
\* or slow, takes it from the node that holds it.  (ClaimInit)
ClaimStays ==
    [][Empty \notin ClaimStart /\ claim # None => claim' = claim]_vars

\* Key material is never lost to another cluster's: in an orderly run the init
\* secret of this deployment may only change to mark its root as revoked, and
\* a local file be torn.  That of an earlier deployment is kept too unless a
\* read of it fails.  (SaveInit)
KeyMaterialKept ==
    [][Orderly' /\ tears' = tears /\ (material.cluster \in Nodes \/ (material.cluster = Gone /\ failures = 0))
         => material' \in {material, [material EXCEPT !.root = "revoked"]}]_vars

AllFinished == \A n \in Nodes : pc[n] \in {"done", "lost"}

\* A first boot without failures ends well on its own: every node finishes and
\* stays finished, in one cluster whose key material and tokens are stored and
\* whose root is revoked unless it is to be kept.  (RunBootstrap)
Completes ==
    material.cluster = None /\ [](failures + expiries + losses = 0) =>
        <>[](/\ AllFinished
             /\ material.cluster \in Nodes
             /\ \A n \in Nodes : pc[n] = "done" => vault[n] = material.cluster
             /\ \A p \in Policies : token[p].cluster = material.cluster
             /\ (KeepRoot \/ rootLive = {}))

\* Once the key material is stored, no crash, reboot or failed call keeps the
\* deployment from being finished: the runs systemd repeats take the work up
\* where it was left.  Only the loss of a node, of the provisioning token or of
\* the key material does.  (the early exits of RunBootstrap and ensureInitialized)
Recovers ==
    material.cluster \in Nodes ~> AllFinished \/ expiries + losses > 0 \/ material.cluster = None

-----------------------------------------------------------------------------
(* Implementation: as long as nobody takes over, the nodes together carry  *)
(* out one ClusterInit.                                                    *)

Owners == {n \in Nodes : vault[n] = n}

OneInit == INSTANCE ClusterInit WITH
    owners  <- Owners,
    custody <- Owners \intersect {material.cluster},
    ready   <- configured,
    granted <- [p \in Policies |-> Nodes \intersect {token[p].cluster}],
    retired <- Owners \ rootLive

\* Racing, crashing and restarting nodes initialise one cluster, and store its
\* material, configure it, store its tokens and retire its root in that order.
ImplementsClusterInit == OneInit!Spec

-----------------------------------------------------------------------------
(* What the documentation says and the code does not keep.                 *)

\* "Revoked when setup finishes" (README.md:262).
RootRevokedWhenFinished ==
    (~KeepRoot /\ \A n \in Nodes : pc[n] = "done") => rootLive = {}
=============================================================================
