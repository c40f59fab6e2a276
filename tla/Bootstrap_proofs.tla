-------------------------- MODULE Bootstrap_proofs --------------------------
(***************************************************************************)
(* Theorems about Bootstrap for every set of nodes and every bound.        *)
(***************************************************************************)
EXTENDS Bootstrap, TLAPS

(***************************************************************************)
(* Type correctness.                                                       *)
(***************************************************************************)

\* A process that ends leaves its variables well typed.
LEMMA ExitType ==
    ASSUME TypeOK, NEW n \in Nodes, NEW to \in PCs, Exit(n, to)
    PROVE  /\ pc' \in [Nodes -> PCs]
           /\ sawInit' \in [Nodes -> BOOLEAN] /\ found' \in [Nodes -> BOOLEAN]
           /\ leader' \in [Nodes -> BOOLEAN]
           /\ mem' \in [Nodes -> Material] /\ name' \in [Nodes -> Policies]
BY DistinctNames DEF TypeOK, Exit, Absent, Material, Clusters, Policies

LEMMA FailsType ==
    ASSUME TypeOK, Fails
    PROVE  failures' \in 0..MaxFailures
BY Bounds DEF TypeOK, Fails

LEMMA InitType == Init => TypeOK
BY DistinctNames, StartStates, Bounds
   DEF Init, TypeOK, PCs, Policies, Absent, Material, Token, Clusters

\* What ClaimInit decides, and what happens without it, is well typed.
LEMMA ClaimType ==
    ASSUME TypeOK, NEW n \in Nodes, NEW resumes \in BOOLEAN, NEW ok \in BOOLEAN,
           ClaimResult(n, resumes, ok) \/ BeginClaim(n, resumes)
    PROVE  pc' \in [Nodes -> PCs] /\ leader' \in [Nodes -> BOOLEAN]
BY DEF TypeOK, ClaimResult, BeginClaim, PCs

LEMMA StepType ==
    ASSUME TypeOK, NEW n \in Nodes, Step(n)
    PROVE  TypeOK'
<1> USE DEF locals, vaults, grants, secrets, counts, Goto
<1>19. CASE Start(n)
  BY <1>19, ExitType DEF TypeOK, Start, PCs
<1>1. CASE ReadSealStatus(n)
  BY <1>1 DEF TypeOK, ReadSealStatus, PCs
<1>2. CASE LoadMaterial(n)
  BY <1>2, ClaimType DEF TypeOK, LoadMaterial, PCs
<1>3. CASE MissMaterial(n)
  BY <1>3, ClaimType, FailsType DEF TypeOK, MissMaterial, PCs
<1>4. CASE VaultInitialized(n)
  BY <1>4, ClaimType DEF TypeOK, VaultInitialized, PCs
<1>5. CASE WaitVaultTimeout(n) \/ MaterialTimeout(n) \/ UnsealTimeout(n) \/ WaitPeerTimeout(n)
           \/ RootMissing(n) \/ RootRefused(n)
  <2>1. Exit(n, "down") /\ failures' \in 0..MaxFailures
    BY <1>5, FailsType DEF TypeOK, WaitVaultTimeout, MaterialTimeout, UnsealTimeout,
       WaitPeerTimeout, RootMissing, RootRefused, Expires, Err
  <2>2. UNCHANGED <<vaults, grants, claim, secrets, takeover, expiries, losses, tears>>
    BY <1>5 DEF WaitVaultTimeout, MaterialTimeout, UnsealTimeout,
       WaitPeerTimeout, RootMissing, RootRefused, Expires, Err
  <2> QED BY <2>1, <2>2, ExitType DEF TypeOK, PCs
<1>6. CASE MaterialArrives(n) \/ TakeOver(n)
  BY <1>6 DEF TypeOK, MaterialArrives, TakeOver, PCs
<1>7. CASE PutIfAbsent(n)
  BY <1>7, ClaimType DEF TypeOK, PutIfAbsent, PCs, Clusters
<1>8. CASE ReadClaim(n)
  BY <1>8, ClaimType DEF TypeOK, ReadClaim, PCs
<1>9. CASE PutClaim(n)
  BY <1>9, ClaimType DEF TypeOK, PutClaim, PCs, Clusters
<1>10. CASE InitVault(n)
  BY <1>10, Bounds DEF TypeOK, InitVault, Fails, PCs, Material, Clusters
<1>11. CASE InitRefused(n) \/ Unsealed(n) \/ PeerBootstrapped(n)
  <2>1. \E to \in {"unseal", "checkToken", "awaitPeer", "done"} : pc' = [pc EXCEPT ![n] = to]
    BY <1>11 DEF InitRefused, Unsealed, PeerBootstrapped
  <2>2. UNCHANGED <<locals, vaults, grants, claim, secrets, takeover, counts>>
    BY <1>11 DEF InitRefused, Unsealed, PeerBootstrapped
  <2> QED BY <2>1, <2>2 DEF TypeOK, PCs
<1>17. CASE SaveInit(n)
  BY <1>17 DEF TypeOK, SaveInit, PCs
<1>18. CASE SubmitShares(n)
  BY <1>18 DEF TypeOK, SubmitShares
<1>12. CASE CheckToken(n)
  BY <1>12, FailsType DEF TypeOK, CheckToken, PCs
<1>13. CASE LoadRoot(n) \/ Configure(n) \/ IssueToken(n)
  BY <1>13 DEF TypeOK, LoadRoot, Configure, IssueToken, RootWorks, PCs
<1>14. CASE SaveToken(n)
  <2>1. [cluster |-> vault[n], live |-> TRUE] \in Token
    BY DEF TypeOK, Token, Clusters
  <2> QED BY <1>14, <2>1 DEF TypeOK, SaveToken, PCs, Policies
<1>15. CASE RevokeRoot(n) \/ RevokeFails(n)
  BY <1>15, FailsType DEF TypeOK, RevokeRoot, RevokeFails, PCs
<1>16. CASE MarkRevoked(n)
  <2>1. [mem[n] EXCEPT !.root = "revoked"] \in Material
    BY DEF TypeOK, Material
  <2> QED BY <1>16, <2>1, FailsType DEF TypeOK, MarkRevoked, PCs
<1> QED BY <1>1, <1>2, <1>3, <1>4, <1>5, <1>6, <1>7, <1>8, <1>9, <1>10, <1>11, <1>12,
           <1>13, <1>14, <1>15, <1>16, <1>17, <1>18, <1>19 DEF Step

LEMMA EnvironmentType ==
    ASSUME TypeOK, NEW n \in Nodes, Environment(n)
    PROVE  TypeOK'
<1> USE DEF locals, vaults, grants, secrets, counts
<1>1. CASE JoinPeer(n) \/ AutoUnseal(n)
  BY <1>1 DEF TypeOK, JoinPeer, AutoUnseal
<1>2. CASE Crash(n) \/ Reboot(n)
  BY <1>2, ExitType, FailsType DEF TypeOK, Crash, Reboot, PCs
<1>3. CASE Lose(n)
  BY <1>3, ExitType, Bounds DEF TypeOK, Lose, PCs
<1>4. CASE VaultRestarts(n)
  BY <1>4, FailsType DEF TypeOK, VaultRestarts
<1>5. CASE Tear(n)
  <2>1. tears' \in 0..MaxTears /\ UNCHANGED <<vaults, grants, claim, takeover, failures, expiries, losses>>
    BY <1>5, Bounds DEF TypeOK, Tear
  <2>2. Absent \in Material /\ Blank \in Token
    BY DEF Absent, Blank, Material, Token
  <2>3. material' \in Material /\ token' \in [Policies -> Token]
    BY <1>5, <2>2 DEF TypeOK, Tear
  <2>4. Exit(n, "down") \/ (pc' = [pc EXCEPT ![n] = "done"] /\ UNCHANGED locals)
    BY <1>5 DEF Tear, Goto
  <2> QED BY <2>1, <2>3, <2>4, ExitType DEF TypeOK, PCs
<1> QED BY <1>1, <1>2, <1>3, <1>4, <1>5 DEF Environment

LEMMA ExpireType == ASSUME TypeOK, ExpireProvisioning PROVE TypeOK'
<1>1. token' \in [Policies -> Token]
  <2> DEFINE t == token["provisioning"]
  <2>1. t \in Token /\ "provisioning" \in Policies
    BY DEF TypeOK, Policies
  <2>2. [t EXCEPT !.live = FALSE] \in Token
    BY <2>1 DEF Token
  <2>3. token' = [token EXCEPT !["provisioning"] = [t EXCEPT !.live = FALSE]]
    BY DEF ExpireProvisioning
  <2> QED BY <2>1, <2>2, <2>3 DEF TypeOK
<1>2. expiries' \in 0..MaxExpiries
  BY Bounds DEF TypeOK, ExpireProvisioning
<1> QED BY <1>1, <1>2 DEF TypeOK, ExpireProvisioning, locals, vaults, grants

LEMMA StutterType == ASSUME TypeOK, UNCHANGED vars PROVE TypeOK'
BY DEF TypeOK, vars, locals, vaults, grants, secrets, counts

\* Every variable keeps its type whatever the nodes, AWS and the machines do.
THEOREM Typing == Spec => []TypeOK
<1>1. TypeOK /\ [Next]_vars => TypeOK'
  BY StepType, EnvironmentType, ExpireType, StutterType DEF Next, MaterialPoll, Finished
<1> QED BY InitType, <1>1, PTL DEF Spec

(***************************************************************************)
(* FinishedMeansConfigured.  A process past Configure sits in a configured *)
(* cluster, and so does every token of this deployment: that is what makes *)
(* a token that works a proof that its cluster is ready.                   *)
(***************************************************************************)

ConfiguredInv ==
    /\ \A n \in Nodes : pc[n] \in {"issue", "save", "revoke", "mark", "done"} => vault[n] \in configured
    /\ \A p \in Policies : token[p].cluster \in Nodes => token[p].cluster \in configured

\* A token the Vault of n accepts shows that n's cluster is configured.
LEMMA AcceptedIsConfigured ==
    ASSUME TypeOK, ConfiguredInv, NEW n \in Nodes, Accepts(n, token["provisioning"])
    PROVE  vault[n] \in configured
BY DEF TypeOK, ConfiguredInv, Accepts, Policies

LEMMA StepConfigured ==
    ASSUME TypeOK, ConfiguredInv, NEW n \in Nodes, Step(n)
    PROVE  ConfiguredInv'
<1> USE DEF locals, vaults, grants, secrets, counts, Goto
<1>1. CASE Start(n) \/ ReadSealStatus(n) \/ MaterialArrives(n) \/ TakeOver(n)
  BY <1>1 DEF TypeOK, ConfiguredInv, Start, Exit, ReadSealStatus, MaterialArrives, TakeOver
<1>2. CASE LoadMaterial(n) \/ MissMaterial(n) \/ VaultInitialized(n)
  BY <1>2 DEF TypeOK, ConfiguredInv, LoadMaterial, MissMaterial, VaultInitialized, BeginClaim, ClaimResult
<1>3. CASE WaitVaultTimeout(n) \/ MaterialTimeout(n) \/ UnsealTimeout(n) \/ WaitPeerTimeout(n)
           \/ RootMissing(n) \/ RootRefused(n)
  <2>1. Exit(n, "down") /\ UNCHANGED <<vaults, grants, secrets>>
    BY <1>3 DEF WaitVaultTimeout, MaterialTimeout, UnsealTimeout, WaitPeerTimeout,
       RootMissing, RootRefused, Expires, Err
  <2> QED BY <2>1 DEF TypeOK, ConfiguredInv, Exit
<1>4. CASE PutIfAbsent(n) \/ ReadClaim(n) \/ PutClaim(n)
  BY <1>4 DEF TypeOK, ConfiguredInv, PutIfAbsent, ReadClaim, PutClaim, ClaimResult
<1>5. CASE InitVault(n)
  BY <1>5, DistinctNames DEF TypeOK, ConfiguredInv, InitVault, Clusters
<1>6. CASE InitRefused(n) \/ SaveInit(n) \/ Unsealed(n) \/ SubmitShares(n)
  BY <1>6 DEF TypeOK, ConfiguredInv, InitRefused, SaveInit, Unsealed, SubmitShares
<1>7. CASE PeerBootstrapped(n)
  BY <1>7, AcceptedIsConfigured DEF TypeOK, ConfiguredInv, PeerBootstrapped
<1>8. CASE CheckToken(n)
  BY <1>8, AcceptedIsConfigured DEF TypeOK, ConfiguredInv, CheckToken
<1>9. CASE LoadRoot(n) \/ Configure(n)
  BY <1>9 DEF TypeOK, ConfiguredInv, LoadRoot, Configure
<1>10. CASE IssueToken(n)
  <2>1. pc[n] = "issue" /\ pc' = [pc EXCEPT ![n] = "save"]
    BY <1>10 DEF IssueToken
  <2>2. UNCHANGED <<vault, configured, token>>
    BY <1>10 DEF IssueToken
  <2> QED BY <2>1, <2>2 DEF TypeOK, ConfiguredInv
<1>11. CASE SaveToken(n)
  BY <1>11 DEF TypeOK, ConfiguredInv, SaveToken
<1>12. CASE RevokeRoot(n) \/ RevokeFails(n) \/ MarkRevoked(n)
  BY <1>12 DEF TypeOK, ConfiguredInv, RevokeRoot, RevokeFails, MarkRevoked
<1> QED BY <1>1, <1>2, <1>3, <1>4, <1>5, <1>6, <1>7, <1>8, <1>9, <1>10, <1>11, <1>12 DEF Step

LEMMA EnvironmentConfigured ==
    ASSUME TypeOK, ConfiguredInv, NEW n \in Nodes, Environment(n)
    PROVE  ConfiguredInv'
<1> USE DEF locals, vaults, grants, secrets, counts
<1>1. CASE JoinPeer(n)
  BY <1>1, DistinctNames DEF TypeOK, ConfiguredInv, JoinPeer, Clusters
<1>2. CASE AutoUnseal(n)
  BY <1>2 DEF ConfiguredInv, AutoUnseal
<1>3. CASE Crash(n) \/ Reboot(n) \/ Lose(n)
  <2>1. \E to \in {"down", "lost"} : pc' = [pc EXCEPT ![n] = to]
    BY <1>3 DEF Crash, Reboot, Lose, Exit
  <2>2. UNCHANGED <<vault, configured, token>>
    BY <1>3 DEF Crash, Reboot, Lose
  <2> QED BY <2>1, <2>2 DEF TypeOK, ConfiguredInv
<1>4. CASE VaultRestarts(n)
  BY <1>4 DEF ConfiguredInv, VaultRestarts
<1>5. CASE Tear(n)
  <2>1. \/ pc' = [pc EXCEPT ![n] = "down"]
        \/ pc[n] = "mark" /\ pc' = [pc EXCEPT ![n] = "done"]
    BY <1>5 DEF Tear, Exit, Goto
  <2>2. UNCHANGED <<vault, configured>>
    BY <1>5 DEF Tear
  <2>3. \A p \in Policies : token'[p] = token[p] \/ token'[p].cluster = None
    BY <1>5 DEF TypeOK, Tear, Blank
  <2> QED BY <2>1, <2>2, <2>3, DistinctNames DEF TypeOK, ConfiguredInv, Clusters
<1> QED BY <1>1, <1>2, <1>3, <1>4, <1>5 DEF Environment

\* Expiry leaves the cluster of every token as it is.
LEMMA ExpiryKeepsCluster ==
    ASSUME TypeOK, ExpireProvisioning
    PROVE  \A p \in Policies : token'[p].cluster = token[p].cluster
BY DEF TypeOK, ExpireProvisioning, Token, Policies

LEMMA ConfiguredStep == TypeOK /\ ConfiguredInv /\ [Next]_vars => ConfiguredInv'
<1> SUFFICES ASSUME TypeOK, ConfiguredInv, [Next]_vars PROVE ConfiguredInv'
  OBVIOUS
<1>1. CASE \E n \in Nodes : Step(n) \/ Environment(n)
  BY <1>1, StepConfigured, EnvironmentConfigured
<1>2. CASE ExpireProvisioning
  BY <1>2, ExpiryKeepsCluster DEF ConfiguredInv, ExpireProvisioning, vaults, grants
<1>3. CASE UNCHANGED vars
  BY <1>3 DEF ConfiguredInv, vars, vaults, grants, secrets
<1> QED BY <1>1, <1>2, <1>3 DEF Next, MaterialPoll, Finished

LEMMA ConfiguredInit == Init => ConfiguredInv
BY DistinctNames, StartStates DEF Init, ConfiguredInv, Clusters, Policies

\* A node whose bootstrap has succeeded is in a configured cluster.
THEOREM Finishing == Spec => []FinishedMeansConfigured
<1>1. ConfiguredInv => FinishedMeansConfigured
  BY DEF ConfiguredInv, FinishedMeansConfigured
<1> QED BY Typing, ConfiguredInit, ConfiguredStep, <1>1, PTL DEF Spec

(***************************************************************************)
(* ClaimStays.  A node that is about to write the claim holds it already:  *)
(* Get told it so, and nobody else can have written it in between.         *)
(***************************************************************************)

ClaimInv ==
    Empty \notin ClaimStart =>
        claim # Empty /\ \A n \in Nodes : pc[n] = "putClaim" => claim = n

\* Every other step of a node leaves the claim alone and stays out of PutClaim.
OtherStep(n) == Step(n) /\ ~PutIfAbsent(n) /\ ~ReadClaim(n) /\ ~PutClaim(n)

LEMMA OtherStepClaim ==
    ASSUME TypeOK, NEW n \in Nodes, OtherStep(n)
    PROVE  claim' = claim /\ \E to \in PCs \ {"putClaim"} : pc' = [pc EXCEPT ![n] = to]
<1> USE DEF locals, vaults, grants, secrets, counts, Goto
<1>1. CASE Start(n) \/ ReadSealStatus(n) \/ MaterialArrives(n) \/ TakeOver(n)
  BY <1>1 DEF Start, Exit, ReadSealStatus, MaterialArrives, TakeOver, PCs
<1>2. CASE LoadMaterial(n) \/ MissMaterial(n) \/ VaultInitialized(n)
  BY <1>2 DEF LoadMaterial, MissMaterial, VaultInitialized, BeginClaim, ClaimResult, PCs
<1>3. CASE WaitVaultTimeout(n) \/ MaterialTimeout(n) \/ UnsealTimeout(n) \/ WaitPeerTimeout(n)
           \/ RootMissing(n) \/ RootRefused(n)
  BY <1>3 DEF WaitVaultTimeout, MaterialTimeout, UnsealTimeout, WaitPeerTimeout,
       RootMissing, RootRefused, Expires, Err, Exit, PCs
<1>4. CASE InitVault(n) \/ InitRefused(n) \/ SaveInit(n) \/ Unsealed(n) \/ PeerBootstrapped(n)
  BY <1>4 DEF InitVault, InitRefused, SaveInit, Unsealed, PeerBootstrapped, PCs
<1>5. CASE SubmitShares(n)
  <2>1. pc[n] = "unseal" /\ pc' = [pc EXCEPT ![n] = "unseal"]
    BY <1>5 DEF TypeOK, SubmitShares
  <2> QED BY <1>5, <2>1 DEF SubmitShares, PCs
<1>6. CASE CheckToken(n) \/ LoadRoot(n) \/ Configure(n) \/ IssueToken(n)
  BY <1>6 DEF CheckToken, LoadRoot, Configure, IssueToken, PCs
<1>7. CASE SaveToken(n) \/ RevokeRoot(n) \/ RevokeFails(n) \/ MarkRevoked(n)
  BY <1>7 DEF SaveToken, RevokeRoot, RevokeFails, MarkRevoked, PCs
<1> QED BY <1>1, <1>2, <1>3, <1>4, <1>5, <1>6, <1>7 DEF OtherStep, Step

LEMMA ClaimStep ==
    ASSUME TypeOK, ClaimInv, [Next]_vars
    PROVE  /\ ClaimInv'
           /\ Empty \notin ClaimStart /\ claim # None => claim' = claim
<1> USE DEF Goto
<1> SUFFICES ASSUME Empty \notin ClaimStart
             PROVE  ClaimInv' /\ (claim # None => claim' = claim)
  BY DEF ClaimInv
<1>1. CASE \E n \in Nodes : OtherStep(n)
  BY <1>1, OtherStepClaim DEF TypeOK, ClaimInv
<1>2. ASSUME NEW n \in Nodes, PutIfAbsent(n)
      PROVE  ClaimInv' /\ (claim # None => claim' = claim)
  BY <1>2, DistinctNames DEF TypeOK, ClaimInv, PutIfAbsent, ClaimResult, Clusters
<1>3. ASSUME NEW n \in Nodes, ReadClaim(n)
      PROVE  ClaimInv' /\ (claim # None => claim' = claim)
  BY <1>3 DEF TypeOK, ClaimInv, ReadClaim, ClaimResult
<1>4. ASSUME NEW n \in Nodes, PutClaim(n)
      PROVE  ClaimInv' /\ (claim # None => claim' = claim)
  BY <1>4, DistinctNames DEF TypeOK, ClaimInv, PutClaim, ClaimResult, Clusters
<1>5. ASSUME NEW n \in Nodes, Environment(n)
      PROVE  ClaimInv' /\ (claim # None => claim' = claim)
  <2>1. UNCHANGED claim /\ \A m \in Nodes : pc'[m] \in {pc[m], "down", "lost", "done"}
    BY <1>5 DEF TypeOK, Environment, JoinPeer, AutoUnseal, Crash, VaultRestarts, Tear, Goto,
       Reboot, Lose, Exit
  <2> QED BY <2>1 DEF ClaimInv
<1>6. CASE ExpireProvisioning \/ UNCHANGED vars
  BY <1>6 DEF ClaimInv, ExpireProvisioning, vars
<1> QED BY <1>1, <1>2, <1>3, <1>4, <1>5, <1>6
        DEF Next, OtherStep, MaterialPoll, Finished

LEMMA ClaimInit == Init => ClaimInv
BY DistinctNames, StartStates DEF Init, ClaimInv, Clusters

\* Unless it starts out empty, the claim keeps its first holder for good.
THEOREM ClaimKept == Spec => ClaimStays
<1>1. TypeOK /\ ClaimInv /\ [Next]_vars
        => [Empty \notin ClaimStart /\ claim # None => claim' = claim]_vars
  BY ClaimStep
<1>2. TypeOK /\ ClaimInv /\ [Next]_vars => ClaimInv'
  BY ClaimStep
<1> QED BY Typing, ClaimInit, <1>1, <1>2, PTL DEF Spec, ClaimStays

(***************************************************************************)
(* SoleCluster.  Only the holder of the claim and nodes that take over get *)
(* to initVault, so every cluster name in sight -- in a Vault, in a        *)
(* process or in the init secret -- is one of them, and without a takeover *)
(* it is the holder.  Locally there is one node.                           *)
(***************************************************************************)

\* c may initialise: it holds the claim, has given up waiting for the holder or,
\* on the local platform, takes part.
Entitled(c) == IF platform = "aws" THEN c \in takeover \union {claim} ELSE pc[c] # "lost"

\* On the local platform one node takes part, and no other has a Vault.
LocalInv ==
    platform # "aws" =>
        /\ \A m, n \in Nodes : pc[m] # "lost" /\ pc[n] # "lost" => m = n
        /\ \A n \in Nodes : pc[n] = "lost" => vault[n] = None

\* A node that is lost stays so, and only on AWS another one is lost.
LEMMA LostStays ==
    ASSUME TypeOK, [Next]_vars
    PROVE  /\ platform' = platform
           /\ \A n \in Nodes : pc[n] = "lost" => pc'[n] = "lost"
           /\ platform # "aws" => \A n \in Nodes : pc'[n] = "lost" => pc[n] = "lost"
           /\ platform # "aws" => \A n \in Nodes : pc[n] = "lost" => vault'[n] = vault[n]
<1> USE DEF locals, vaults, grants, secrets, counts, Goto, TypeOK
<1> DEFINE Stays == /\ platform' = platform
                    /\ \A n \in Nodes : pc[n] = "lost" => pc'[n] = "lost"
                    /\ platform # "aws" => \A n \in Nodes : pc'[n] = "lost" => pc[n] = "lost"
                    /\ platform # "aws" => \A n \in Nodes : pc[n] = "lost" => vault'[n] = vault[n]
<1> SUFFICES Stays
  OBVIOUS
<1>1. ASSUME NEW n \in Nodes,
             Start(n) \/ ReadSealStatus(n) \/ MaterialArrives(n) \/ TakeOver(n)
               \/ LoadMaterial(n) \/ MissMaterial(n) \/ VaultInitialized(n)
      PROVE  Stays
  BY <1>1 DEF Start, Exit, ReadSealStatus, MaterialArrives, TakeOver,
     LoadMaterial, MissMaterial, VaultInitialized, BeginClaim, ClaimResult
<1>2. ASSUME NEW n \in Nodes,
             WaitVaultTimeout(n) \/ MaterialTimeout(n) \/ UnsealTimeout(n) \/ WaitPeerTimeout(n)
               \/ RootMissing(n) \/ RootRefused(n)
      PROVE  Stays
  BY <1>2 DEF WaitVaultTimeout, MaterialTimeout, UnsealTimeout, WaitPeerTimeout,
     RootMissing, RootRefused, Expires, Err, Exit
<1>3. ASSUME NEW n \in Nodes,
             PutIfAbsent(n) \/ ReadClaim(n) \/ PutClaim(n) \/ InitVault(n) \/ InitRefused(n)
               \/ SaveInit(n) \/ Unsealed(n) \/ SubmitShares(n) \/ PeerBootstrapped(n)
      PROVE  Stays
  BY <1>3 DEF PutIfAbsent, ReadClaim, PutClaim, ClaimResult, InitVault, InitRefused,
     SaveInit, Unsealed, SubmitShares, PeerBootstrapped
<1>4. ASSUME NEW n \in Nodes,
             CheckToken(n) \/ LoadRoot(n) \/ Configure(n) \/ IssueToken(n)
               \/ SaveToken(n) \/ RevokeRoot(n) \/ RevokeFails(n) \/ MarkRevoked(n)
      PROVE  Stays
  BY <1>4 DEF CheckToken, LoadRoot, Configure, IssueToken, SaveToken, RevokeRoot,
     RevokeFails, MarkRevoked
<1>5. ASSUME NEW n \in Nodes, Environment(n) PROVE Stays
  BY <1>5 DEF Environment, JoinPeer, AutoUnseal, Crash, VaultRestarts, Tear, Reboot, Lose, Exit
<1>6. CASE ExpireProvisioning \/ UNCHANGED vars
  BY <1>6 DEF ExpireProvisioning, vars
<1> HIDE DEF Stays, locals, vaults, grants, secrets, counts, Goto, TypeOK
<1>7. ASSUME NEW n \in Nodes, Step(n) PROVE Stays
  BY <1>7, <1>1, <1>2, <1>3, <1>4 DEF Step
<1> QED BY <1>5, <1>6, <1>7 DEF Next, MaterialPoll, Finished

LEMMA LocalStep == ASSUME TypeOK, LocalInv, [Next]_vars PROVE LocalInv'
BY LostStays DEF LocalInv

LEMMA LocalInit == Init => LocalInv
BY DEF Init, LocalInv

SoleInv ==
    Empty \notin ClaimStart =>
        /\ \A n \in Nodes : pc[n] = "init" => Entitled(n)
        /\ \A n \in Nodes : vault[n] \in Nodes => Entitled(vault[n])
        /\ \A n \in Nodes : mem[n].cluster \in Nodes => Entitled(mem[n].cluster)
        /\ material.cluster \in Nodes => Entitled(material.cluster)

\* Without a takeover there is one entitled node at most.
LEMMA EntitledUnique ==
    ASSUME LocalInv, Orderly, NEW c \in Nodes, NEW d \in Nodes, Entitled(c), Entitled(d)
    PROVE  c = d
BY DEF Entitled, LocalInv, Orderly


\* Only a winner, or a node that takes over, comes to initVault.
LEMMA ComesToInit ==
    ASSUME TypeOK, ClaimInv, Empty \notin ClaimStart, NEW n \in Nodes, Step(n),
           NEW m \in Nodes, pc[m] # "init", pc'[m] = "init"
    PROVE  Entitled(m)'
<1> USE DEF locals, vaults, grants, secrets, counts, Goto
<1>1. CASE Start(n) \/ ReadSealStatus(n) \/ MaterialArrives(n) \/ TakeOver(n)
  BY <1>1 DEF TypeOK, Start, Exit, ReadSealStatus, MaterialArrives, TakeOver, Entitled
<1>2. CASE LoadMaterial(n) \/ MissMaterial(n) \/ VaultInitialized(n)
  BY <1>2 DEF TypeOK, LoadMaterial, MissMaterial, VaultInitialized, BeginClaim, ClaimResult, Entitled
<1>3. CASE WaitVaultTimeout(n) \/ MaterialTimeout(n) \/ UnsealTimeout(n) \/ WaitPeerTimeout(n)
           \/ RootMissing(n) \/ RootRefused(n)
  BY <1>3 DEF TypeOK, WaitVaultTimeout, MaterialTimeout, UnsealTimeout, WaitPeerTimeout,
       RootMissing, RootRefused, Expires, Err, Exit
<1>4. CASE InitVault(n) \/ InitRefused(n) \/ SaveInit(n) \/ Unsealed(n) \/ SubmitShares(n)
           \/ PeerBootstrapped(n)
  BY <1>4 DEF TypeOK, InitVault, InitRefused, SaveInit, Unsealed, SubmitShares, PeerBootstrapped
<1>5. CASE CheckToken(n) \/ LoadRoot(n) \/ Configure(n) \/ IssueToken(n)
  BY <1>5 DEF TypeOK, CheckToken, LoadRoot, Configure, IssueToken
<1>6. CASE SaveToken(n) \/ RevokeRoot(n) \/ RevokeFails(n) \/ MarkRevoked(n)
  BY <1>6 DEF TypeOK, SaveToken, RevokeRoot, RevokeFails, MarkRevoked
<1>7. CASE PutIfAbsent(n) \/ PutClaim(n)
  BY <1>7 DEF TypeOK, PutIfAbsent, PutClaim, ClaimResult, Entitled
<1>8. CASE ReadClaim(n)
  BY <1>8 DEF TypeOK, ReadClaim, ClaimResult
<1> QED BY <1>1, <1>2, <1>3, <1>4, <1>5, <1>6, <1>7, <1>8 DEF Step

\* No step brings a cluster name into play that was not there, except initVault.
LEMMA NewNames ==
    ASSUME TypeOK, [Next]_vars
    PROVE  /\ takeover \subseteq takeover'
           /\ \A m \in Nodes : \/ vault'[m] = vault[m]
                               \/ \E k \in Nodes : vault'[m] = vault[k]
                               \/ InitVault(m)
           /\ \A m \in Nodes : \/ mem'[m] = mem[m] \/ mem'[m] = Absent
                               \/ mem'[m] = material \/ InitVault(m)
           /\ \/ material' = material
              \/ material' = Absent
              \/ \E k \in Nodes : material' \in {mem[k], [mem[k] EXCEPT !.root = "revoked"]}
<1> USE DEF locals, vaults, grants, secrets, counts, Goto
<1>1. ASSUME NEW n \in Nodes,
             ReadSealStatus(n) \/ LoadMaterial(n) \/ MissMaterial(n)
               \/ VaultInitialized(n) \/ MaterialArrives(n) \/ TakeOver(n)
               \/ PutIfAbsent(n) \/ ReadClaim(n) \/ PutClaim(n) \/ InitRefused(n)
      PROVE  takeover \subseteq takeover' /\ UNCHANGED <<vault, mem, material>>
  BY <1>1 DEF ReadSealStatus, LoadMaterial, MissMaterial, VaultInitialized,
     MaterialArrives, TakeOver, PutIfAbsent, ReadClaim, PutClaim, InitRefused
<1>2. ASSUME NEW n \in Nodes,
             Unsealed(n) \/ SubmitShares(n) \/ PeerBootstrapped(n) \/ CheckToken(n)
               \/ Configure(n) \/ IssueToken(n) \/ SaveToken(n) \/ RevokeRoot(n)
               \/ RevokeFails(n) \/ AutoUnseal(n) \/ VaultRestarts(n)
      PROVE  UNCHANGED <<takeover, vault, mem, material>>
  BY <1>2 DEF Unsealed, SubmitShares, PeerBootstrapped, CheckToken, Configure, IssueToken,
     SaveToken, RevokeRoot, RevokeFails, AutoUnseal, VaultRestarts
<1>3. ASSUME NEW n \in Nodes,
             WaitVaultTimeout(n) \/ MaterialTimeout(n) \/ UnsealTimeout(n) \/ WaitPeerTimeout(n)
               \/ RootMissing(n) \/ RootRefused(n) \/ Start(n) \/ Crash(n) \/ Reboot(n) \/ Lose(n)
      PROVE  UNCHANGED <<takeover, vault, material>> /\ mem' = [mem EXCEPT ![n] = Absent]
  BY <1>3 DEF WaitVaultTimeout, MaterialTimeout, UnsealTimeout, WaitPeerTimeout,
     RootMissing, RootRefused, Expires, Err, Start, Crash, Reboot, Lose, Exit
<1>4. ASSUME NEW n \in Nodes, InitVault(n)
      PROVE  /\ UNCHANGED <<takeover, material>>
             /\ \A m \in Nodes \ {n} : vault'[m] = vault[m] /\ mem'[m] = mem[m]
  BY <1>4 DEF TypeOK, InitVault
<1>5. ASSUME NEW n \in Nodes, SaveInit(n) \/ MarkRevoked(n)
      PROVE  /\ UNCHANGED <<takeover, vault, mem>>
             /\ material' \in {material, mem[n], [mem[n] EXCEPT !.root = "revoked"]}
  BY <1>5 DEF SaveInit, MarkRevoked
<1>6. ASSUME NEW n \in Nodes, LoadRoot(n)
      PROVE  UNCHANGED <<takeover, vault, material>> /\ mem' = [mem EXCEPT ![n] = material]
  BY <1>6 DEF LoadRoot
<1>7. ASSUME NEW n \in Nodes, JoinPeer(n)
      PROVE  /\ UNCHANGED <<takeover, mem, material>>
             /\ \E k \in Nodes : vault' = [vault EXCEPT ![n] = vault[k]]
  BY <1>7 DEF JoinPeer
<1>12. ASSUME NEW n \in Nodes, Tear(n)
       PROVE  /\ UNCHANGED <<takeover, vault>> /\ material' \in {material, Absent}
              /\ mem' \in {mem, [mem EXCEPT ![n] = Absent]}
  BY <1>12 DEF Tear, Exit
<1>8. CASE ExpireProvisioning \/ UNCHANGED vars
  BY <1>8 DEF ExpireProvisioning, vars
<1> HIDE DEF locals, vaults, grants, secrets, counts, Goto
<1>9. CASE \E n \in Nodes : InitVault(n)
  BY <1>9, <1>4
<1>10. CASE \E n \in Nodes : Step(n) /\ ~InitVault(n)
  BY <1>10, <1>1, <1>2, <1>3, <1>5, <1>6 DEF Step, TypeOK
<1>11. CASE \E n \in Nodes : Environment(n)
  BY <1>11, <1>2, <1>3, <1>7, <1>12 DEF Environment, TypeOK
<1> QED BY <1>8, <1>9, <1>10, <1>11 DEF Next, MaterialPoll, Finished

\* Who was entitled stays so, because the claim does not change hands and nobody
\* forgets a takeover.
LEMMA EntitledStays ==
    ASSUME TypeOK, ClaimInv, Empty \notin ClaimStart, [Next]_vars, NEW c \in Nodes, Entitled(c)
    PROVE  Entitled(c)'
BY ClaimStep, LostStays, NewNames, DistinctNames DEF Entitled, Clusters

LEMMA SoleStep == TypeOK /\ ClaimInv /\ SoleInv /\ [Next]_vars => SoleInv'
<1> SUFFICES ASSUME TypeOK, ClaimInv, SoleInv, [Next]_vars, Empty \notin ClaimStart PROVE
               /\ \A n \in Nodes : pc'[n] = "init" => Entitled(n)'
               /\ \A n \in Nodes : vault'[n] \in Nodes => Entitled(vault[n])'
               /\ \A n \in Nodes : mem'[n].cluster \in Nodes => Entitled(mem[n].cluster)'
               /\ material'.cluster \in Nodes => Entitled(material.cluster)'
  BY DEF SoleInv
<1>2. \A c \in Nodes : Entitled(c) => Entitled(c)'
  BY EntitledStays
<1>3. ASSUME NEW m \in Nodes, pc'[m] = "init" PROVE Entitled(m)'
  <2>1. CASE pc[m] = "init"
    BY <2>1, <1>2 DEF SoleInv
  <2>2. CASE pc[m] # "init"
    <3>1. CASE \E n \in Nodes : Step(n)
      BY <3>1, <2>2, <1>3, ComesToInit
    <3>2. ASSUME NEW n \in Nodes, Environment(n) PROVE pc'[m] # "init"
      BY <3>2, <2>2 DEF TypeOK, Environment, JoinPeer, AutoUnseal, Crash, VaultRestarts, Tear,
         Goto, Reboot, Lose, Exit
    <3>3. CASE ExpireProvisioning \/ UNCHANGED vars
      BY <3>3, <2>2, <1>3 DEF ExpireProvisioning, vars
    <3> QED BY <3>1, <3>2, <3>3, <1>3 DEF Next, MaterialPoll, Finished
  <2> QED BY <2>1, <2>2
<1>4. ASSUME NEW m \in Nodes, InitVault(m)
      PROVE  Entitled(m)' /\ vault'[m] = m /\ (mem'[m].cluster = m \/ mem' = mem)
  BY <1>4, <1>2 DEF SoleInv, TypeOK, InitVault, Goto
<1>5. ASSUME NEW m \in Nodes, vault'[m] \in Nodes PROVE Entitled(vault[m])'
  BY <1>5, <1>4, <1>2, NewNames DEF SoleInv, Entitled
<1>6. ASSUME NEW m \in Nodes, mem'[m].cluster \in Nodes PROVE Entitled(mem[m].cluster)'
  BY <1>6, <1>4, <1>2, NewNames, DistinctNames DEF SoleInv, Entitled, Absent, Clusters
<1>7. ASSUME material'.cluster \in Nodes PROVE Entitled(material.cluster)'
  BY <1>7, <1>2, NewNames, DistinctNames DEF SoleInv, Entitled, TypeOK, Material, Absent, Clusters
<1> QED BY <1>3, <1>5, <1>6, <1>7

LEMMA SoleInit == Init => SoleInv
BY DistinctNames, StartStates DEF Init, SoleInv, Absent, Clusters

LEMMA SoleIsOne == LocalInv /\ SoleInv => SoleCluster
BY EntitledUnique DEF SoleInv, SoleCluster, Entitled, Orderly

\* Init once: as long as nobody takes over there is one cluster, and its key
\* material is what the key store holds.
THEOREM OneCluster == Spec => []SoleCluster
<1>1. TypeOK /\ ClaimInv /\ [Next]_vars => ClaimInv'
  BY ClaimStep
<1>2. TypeOK /\ LocalInv /\ [Next]_vars => LocalInv'
  BY LocalStep
<1> QED BY Typing, ClaimInit, LocalInit, SoleInit, <1>1, <1>2, SoleStep, SoleIsOne, PTL DEF Spec

(***************************************************************************)
(* RevokedAfterSaved.  A process that reaches RevokeSelf has stored both   *)
(* tokens in this run, and nothing but another token of the same cluster   *)
(* can replace them.                                                       *)
(***************************************************************************)

\* The token loop has left its first token behind.
SecondToken(n) == pc[n] \in {"issue", "save"} /\ name[n] = "operator"
Retiring(n) == pc[n] \in {"revoke", "mark"}

NameInv ==
    \A n \in Nodes : name[n] = "operator" => pc[n] \in {"issue", "save", "revoke", "mark", "done"}

\* A cluster includes the Vault it was initialised on.
HomeInv == \A n \in Nodes : vault[n] \in Nodes => vault[vault[n]] = vault[n]

SavedInv ==
    Orderly =>
        /\ \A n \in Nodes : SecondToken(n) \/ Retiring(n) => token["provisioning"].cluster = vault[n]
        /\ \A n \in Nodes : Retiring(n) => token["operator"].cluster = vault[n]
        /\ \A c \in Nodes : vault[c] = c /\ c \notin rootLive =>
               c \in configured /\ \A p \in Policies : token[p].cluster = c

RevokeInv == NameInv /\ HomeInv /\ SavedInv

\* On the local platform a process about to store a token has a root that works:
\* the only process there is has not revoked it yet.
HeldInv == platform # "aws" => \A n \in Nodes : pc[n] = "save" => vault[n] \in rootLive

\* Nothing happens to a node that is lost.
LEMMA LostIdle ==
    ASSUME NEW n \in Nodes, Step(n) \/ Environment(n)
    PROVE  pc[n] # "lost"
<1> USE DEF Goto
<1>1. CASE Environment(n)
  BY <1>1 DEF Environment, JoinPeer, AutoUnseal, Crash, VaultRestarts, Tear, Reboot, Lose
<1>2. CASE Start(n) \/ ReadSealStatus(n) \/ LoadMaterial(n) \/ MissMaterial(n) \/ VaultInitialized(n)
           \/ MaterialArrives(n) \/ TakeOver(n) \/ PutIfAbsent(n) \/ ReadClaim(n) \/ PutClaim(n)
  BY <1>2 DEF Start, ReadSealStatus, LoadMaterial, MissMaterial, VaultInitialized,
     MaterialArrives, TakeOver, PutIfAbsent, ReadClaim, PutClaim
<1>3. CASE WaitVaultTimeout(n) \/ MaterialTimeout(n) \/ UnsealTimeout(n) \/ WaitPeerTimeout(n)
           \/ RootMissing(n) \/ RootRefused(n)
  BY <1>3 DEF WaitVaultTimeout, MaterialTimeout, UnsealTimeout, WaitPeerTimeout,
     RootMissing, RootRefused, Expires, Err
<1>4. CASE InitVault(n) \/ InitRefused(n) \/ SaveInit(n) \/ Unsealed(n) \/ SubmitShares(n)
           \/ PeerBootstrapped(n) \/ CheckToken(n) \/ LoadRoot(n) \/ Configure(n) \/ IssueToken(n)
           \/ SaveToken(n) \/ RevokeRoot(n) \/ RevokeFails(n) \/ MarkRevoked(n)
  BY <1>4 DEF InitVault, InitRefused, SaveInit, Unsealed, SubmitShares, PeerBootstrapped,
     CheckToken, LoadRoot, Configure, IssueToken, SaveToken, RevokeRoot, RevokeFails, MarkRevoked
<1> QED BY <1>1, <1>2, <1>3, <1>4 DEF Step

\* Only IssueToken brings a process to the storing of a token.
LEMMA ComesToSave ==
    ASSUME TypeOK, NEW n \in Nodes, Step(n), pc'[n] = "save"
    PROVE  IssueToken(n)
<1> USE DEF locals, vaults, grants, secrets, counts, Goto, TypeOK
<1>1. ~Start(n) /\ ~ReadSealStatus(n) /\ ~LoadMaterial(n) /\ ~MissMaterial(n) /\ ~VaultInitialized(n)
      /\ ~MaterialArrives(n) /\ ~TakeOver(n) /\ ~PutIfAbsent(n) /\ ~ReadClaim(n) /\ ~PutClaim(n)
  BY DEF Start, Exit, ReadSealStatus, LoadMaterial, MissMaterial, VaultInitialized, BeginClaim,
     ClaimResult, MaterialArrives, TakeOver, PutIfAbsent, ReadClaim, PutClaim
<1>2. ~WaitVaultTimeout(n) /\ ~MaterialTimeout(n) /\ ~UnsealTimeout(n) /\ ~WaitPeerTimeout(n)
      /\ ~RootMissing(n) /\ ~RootRefused(n)
  BY DEF WaitVaultTimeout, MaterialTimeout, UnsealTimeout, WaitPeerTimeout,
     RootMissing, RootRefused, Expires, Err, Exit
<1>3. ~InitVault(n) /\ ~InitRefused(n) /\ ~SaveInit(n) /\ ~Unsealed(n) /\ ~SubmitShares(n)
      /\ ~PeerBootstrapped(n) /\ ~CheckToken(n)
  BY DEF InitVault, InitRefused, SaveInit, Unsealed, SubmitShares, PeerBootstrapped, CheckToken
<1>4. ~LoadRoot(n) /\ ~Configure(n) /\ ~SaveToken(n) /\ ~RevokeRoot(n) /\ ~RevokeFails(n)
      /\ ~MarkRevoked(n)
  BY DEF LoadRoot, Configure, SaveToken, RevokeRoot, RevokeFails, MarkRevoked
<1> QED BY <1>1, <1>2, <1>3, <1>4 DEF Step

LEMMA HeldStep == ASSUME TypeOK, LocalInv, HeldInv, [Next]_vars PROVE HeldInv'
<1> SUFFICES ASSUME platform # "aws", NEW m \in Nodes, pc'[m] = "save"
             PROVE  vault'[m] \in rootLive'
  BY LostStays DEF HeldInv
<1>1. pc[m] # "lost"
  BY LostStays
<1>2. CASE Step(m)
  <2>1. RootWorks(m) /\ UNCHANGED <<vault, rootLive>>
    BY <1>2, ComesToSave DEF IssueToken, vaults, grants
  <2> QED BY <2>1 DEF RootWorks
<1>3. CASE Environment(m)
  <2>1. UNCHANGED <<pc, vault, rootLive>>
    BY <1>3 DEF TypeOK, Environment, JoinPeer, AutoUnseal, Crash, VaultRestarts, Tear, Goto,
       Reboot, Lose, Exit, grants, vaults
  <2> QED BY <2>1 DEF HeldInv
<1>4. ASSUME NEW n \in Nodes, Step(n) \/ Environment(n) PROVE n = m
  BY <1>1, <1>4, LostIdle DEF LocalInv
<1>5. CASE ExpireProvisioning \/ UNCHANGED vars
  BY <1>5 DEF HeldInv, ExpireProvisioning, vars, vaults, grants
<1> QED BY <1>2, <1>3, <1>4, <1>5 DEF Next, MaterialPoll, Finished

LEMMA HeldInit == Init => HeldInv
BY DEF Init, HeldInv

\* A step that only moves a node outside the token loop disturbs nothing.
LEMMA MovesOnly ==
    ASSUME TypeOK, RevokeInv, takeover \subseteq takeover', NEW n \in Nodes,
           UNCHANGED <<vault, rootLive, configured, token>>,
           NEW to \in PCs \ {"issue", "save", "revoke", "mark"},
           pc' = [pc EXCEPT ![n] = to],
           name' = [name EXCEPT ![n] = "provisioning"] \/ (name' = name /\ (to = "done" \/ name[n] # "operator"))
    PROVE  RevokeInv'
<1>1. Orderly' => Orderly
  BY DEF Orderly
<1>2. NameInv'
  BY DEF TypeOK, RevokeInv, NameInv
<1>3. HomeInv'
  BY DEF RevokeInv, HomeInv
<1>4. \A m \in Nodes : (SecondToken(m)' => SecondToken(m)) /\ (Retiring(m)' => Retiring(m))
  BY DEF TypeOK, SecondToken, Retiring
<1>5. SavedInv'
  BY <1>1, <1>4 DEF RevokeInv, SavedInv
<1> QED BY <1>2, <1>3, <1>5 DEF RevokeInv

\* The steps of a node up to LoadRoot, and its early ends.
LEMMA EarlyStepRevoke ==
    ASSUME TypeOK, ClaimInv, RevokeInv, NEW n \in Nodes, Step(n), [Next]_vars,
           ~InitVault(n), ~SubmitShares(n), ~Configure(n), ~IssueToken(n), ~SaveToken(n),
           ~RevokeRoot(n)
    PROVE  RevokeInv'
<1> USE DEF locals, vaults, grants, secrets, counts, Goto
<1>1. CASE ReadSealStatus(n) \/ MaterialArrives(n) \/ TakeOver(n)
  <2>1. pc[n] \in {"status", "awaitMaterial"} /\ takeover \subseteq takeover'
    BY <1>1 DEF ReadSealStatus, MaterialArrives, TakeOver
  <2>2. /\ UNCHANGED <<vault, rootLive, configured, token, name>>
        /\ \E to \in PCs \ {"issue", "save", "revoke", "mark"} : pc' = [pc EXCEPT ![n] = to]
    BY <1>1 DEF ReadSealStatus, MaterialArrives, TakeOver, PCs
  <2>3. name[n] # "operator"
    BY <2>1 DEF RevokeInv, NameInv
  <2> QED BY <2>1, <2>2, <2>3, MovesOnly
<1>2. CASE LoadMaterial(n) \/ MissMaterial(n) \/ VaultInitialized(n)
           \/ PutIfAbsent(n) \/ ReadClaim(n) \/ PutClaim(n)
  <2>1. pc[n] \in {"load", "awaitVault", "claim", "readClaim", "putClaim"}
    BY <1>2 DEF LoadMaterial, MissMaterial, VaultInitialized, PutIfAbsent, ReadClaim, PutClaim
  <2>2. UNCHANGED <<vault, rootLive, configured, token, name, takeover>>
    BY <1>2 DEF LoadMaterial, MissMaterial, VaultInitialized, PutIfAbsent, ReadClaim, PutClaim
  <2>3. \E to \in PCs \ {"issue", "save", "revoke", "mark"} : pc' = [pc EXCEPT ![n] = to]
    BY <1>2 DEF LoadMaterial, MissMaterial, VaultInitialized, PutIfAbsent, ReadClaim, PutClaim,
       BeginClaim, ClaimResult, PCs
  <2>4. name[n] # "operator"
    BY <2>1 DEF RevokeInv, NameInv
  <2> QED BY <2>2, <2>3, <2>4, MovesOnly
<1>3. CASE WaitVaultTimeout(n) \/ MaterialTimeout(n) \/ UnsealTimeout(n) \/ WaitPeerTimeout(n)
           \/ RootMissing(n) \/ RootRefused(n) \/ Start(n)
  <2>1. (Exit(n, "down") \/ Exit(n, "status")) /\ UNCHANGED <<vaults, grants, secrets, takeover>>
    BY <1>3 DEF WaitVaultTimeout, MaterialTimeout, UnsealTimeout, WaitPeerTimeout,
       RootMissing, RootRefused, Expires, Err, Start
  <2> QED BY <2>1, MovesOnly DEF Exit, PCs
<1>4. CASE InitRefused(n) \/ SaveInit(n) \/ Unsealed(n) \/ PeerBootstrapped(n) \/ CheckToken(n)
           \/ LoadRoot(n)
  <2>1. pc[n] \in {"init", "saveInit", "unseal", "awaitPeer", "checkToken", "loadRoot"}
    BY <1>4 DEF InitRefused, SaveInit, Unsealed, PeerBootstrapped, CheckToken, LoadRoot
  <2>2. UNCHANGED <<vault, rootLive, configured, token, name, takeover>>
    BY <1>4 DEF InitRefused, SaveInit, Unsealed, PeerBootstrapped, CheckToken, LoadRoot
  <2>3. \E to \in PCs \ {"issue", "save", "revoke", "mark"} : pc' = [pc EXCEPT ![n] = to]
    BY <1>4 DEF InitRefused, SaveInit, Unsealed, PeerBootstrapped, CheckToken, LoadRoot, PCs
  <2>4. name[n] # "operator"
    BY <2>1 DEF RevokeInv, NameInv
  <2> QED BY <2>2, <2>3, <2>4, MovesOnly
<1>5. CASE RevokeFails(n) \/ MarkRevoked(n)
  <2>1. UNCHANGED <<vault, rootLive, configured, token, name, takeover>> /\ pc' = [pc EXCEPT ![n] = "done"]
    BY <1>5 DEF RevokeFails, MarkRevoked
  <2> QED BY <2>1, MovesOnly DEF PCs
<1> QED BY <1>1, <1>2, <1>3, <1>4, <1>5 DEF Step

\* The steps that hand the cluster over.
LEMMA HandOverRevoke ==
    ASSUME TypeOK, ConfiguredInv, LocalInv, SoleInv, RevokeInv, NEW n \in Nodes,
           InitVault(n) \/ SubmitShares(n) \/ Configure(n) \/ IssueToken(n) \/ SaveToken(n) \/ RevokeRoot(n)
    PROVE  RevokeInv'
<1> USE DEF locals, vaults, grants, secrets, counts, Goto
<1>1. UNCHANGED takeover
  BY DEF InitVault, SubmitShares, Configure, IssueToken, SaveToken, RevokeRoot
<1>2. Orderly' <=> Orderly
  BY <1>1 DEF Orderly
<1>3. Orderly => \A m, k \in Nodes : vault[m] \in Nodes /\ vault[k] \in Nodes => vault[m] = vault[k]
  BY SoleIsOne DEF SoleCluster
<1>4. CASE InitVault(n)
  <2>1. pc[n] = "init" /\ vault[n] = None /\ None \notin Nodes
    BY <1>4, DistinctNames DEF InitVault, Clusters
  <2>2. /\ \E to \in {"saveInit", "unseal"} : pc' = [pc EXCEPT ![n] = to]
        /\ vault' = [vault EXCEPT ![n] = n]
        /\ rootLive' = rootLive \union {n} /\ UNCHANGED <<name, configured, token>>
    BY <1>4 DEF InitVault
  <2>3. NameInv' /\ HomeInv'
    BY <2>1, <2>2 DEF TypeOK, RevokeInv, NameInv, HomeInv
  <2>4. SavedInv'
    BY <1>2, <2>1, <2>2 DEF TypeOK, RevokeInv, SavedInv, SecondToken, Retiring
  <2> QED BY <2>3, <2>4 DEF RevokeInv
<1>5. CASE SubmitShares(n)
  <2>1. UNCHANGED <<pc, name, vault, rootLive, configured, token>>
    BY <1>5 DEF SubmitShares
  <2> QED BY <1>2, <2>1 DEF RevokeInv, NameInv, HomeInv, SavedInv, SecondToken, Retiring
<1>6. CASE Configure(n)
  <2>1. /\ pc[n] = "configure" /\ pc' = [pc EXCEPT ![n] = "issue"]
        /\ configured \subseteq configured' /\ UNCHANGED <<name, vault, rootLive, token>>
    BY <1>6 DEF Configure
  <2>2. name[n] # "operator"
    BY <2>1 DEF RevokeInv, NameInv
  <2> QED BY <1>2, <2>1, <2>2 DEF TypeOK, RevokeInv, NameInv, HomeInv, SavedInv, SecondToken, Retiring
<1>7. CASE IssueToken(n)
  <2>1. /\ pc[n] = "issue" /\ pc' = [pc EXCEPT ![n] = "save"]
        /\ UNCHANGED <<name, vault, rootLive, configured, token>>
    BY <1>7 DEF IssueToken
  <2> QED BY <1>2, <2>1 DEF TypeOK, RevokeInv, NameInv, HomeInv, SavedInv, SecondToken, Retiring
<1>8. CASE SaveToken(n)
  <2>1. pc[n] = "save" /\ vault[n] \in Nodes
    BY <1>8 DEF TypeOK, ConfiguredInv, SaveToken
  <2>2. UNCHANGED <<vault, rootLive, configured>>
    BY <1>8 DEF SaveToken
  <2>3. /\ token'[name[n]].cluster = vault[n]
        /\ \A p \in Policies \ {name[n]} : token'[p] = token[p]
    BY <1>8 DEF TypeOK, SaveToken
  <2>4. Orderly => \A m \in Nodes, p \in Policies :
            vault[m] \in Nodes /\ token[p].cluster = vault[m] => token'[p].cluster = vault[m]
    BY <1>3, <2>1, <2>3
  <2>5. CASE name[n] = "provisioning"
    <3>1. pc' = [pc EXCEPT ![n] = "issue"] /\ name' = [name EXCEPT ![n] = "operator"]
      BY <1>8, <2>5 DEF SaveToken
    <3>2. NameInv' /\ HomeInv'
      BY <2>2, <3>1 DEF TypeOK, RevokeInv, NameInv, HomeInv
    <3>3. SavedInv'
      BY <1>2, <2>1, <2>2, <2>3, <2>4, <2>5, <3>1
         DEF TypeOK, ConfiguredInv, RevokeInv, SavedInv, SecondToken, Retiring, Policies
    <3> QED BY <3>2, <3>3 DEF RevokeInv
  <2>6. CASE name[n] = "operator"
    <3>1. (pc' = [pc EXCEPT ![n] = "done"] \/ pc' = [pc EXCEPT ![n] = "revoke"]) /\ name' = name
      BY <1>8, <2>6 DEF SaveToken
    <3>2. NameInv' /\ HomeInv'
      BY <2>2, <3>1 DEF TypeOK, RevokeInv, NameInv, HomeInv
    <3>3. SavedInv'
      BY <1>2, <2>1, <2>2, <2>3, <2>4, <2>6, <3>1
         DEF TypeOK, ConfiguredInv, RevokeInv, SavedInv, SecondToken, Retiring, Policies
    <3> QED BY <3>2, <3>3 DEF RevokeInv
  <2> QED BY <2>5, <2>6 DEF TypeOK, Policies
<1>9. CASE RevokeRoot(n)
  <2>1. /\ pc[n] = "revoke" /\ pc' = [pc EXCEPT ![n] = "mark"]
        /\ rootLive' = rootLive \ {vault[n]} /\ UNCHANGED <<name, vault, configured, token>>
    BY <1>9 DEF RevokeRoot
  <2>2. vault[n] \in configured
    BY <2>1 DEF ConfiguredInv
  <2>3. Orderly => \A p \in Policies : token[p].cluster = vault[n]
    BY <2>1 DEF RevokeInv, SavedInv, Retiring, Policies
  <2>4. NameInv' /\ HomeInv'
    BY <2>1 DEF TypeOK, RevokeInv, NameInv, HomeInv
  <2>5. SavedInv'
    BY <1>2, <2>1, <2>2, <2>3 DEF TypeOK, RevokeInv, SavedInv, SecondToken, Retiring
  <2> QED BY <2>4, <2>5 DEF RevokeInv
<1> QED BY <1>4, <1>5, <1>6, <1>7, <1>8, <1>9

LEMMA EnvironmentRevoke ==
    ASSUME TypeOK, ConfiguredInv, LocalInv, HeldInv, RevokeInv, NEW n \in Nodes, Environment(n)
    PROVE  RevokeInv'
<1> USE DEF locals, vaults, grants, secrets, counts
<1>1. CASE JoinPeer(n)
  <2>1. vault[n] = None /\ None \notin Nodes /\ UNCHANGED <<pc, name, rootLive, configured, token, takeover>>
    BY <1>1, DistinctNames DEF JoinPeer, Clusters
  <2>2. PICK m \in Nodes : vault[m] # None /\ vault' = [vault EXCEPT ![n] = vault[m]]
    BY <1>1 DEF JoinPeer
  <2>3. NameInv'
    BY <2>1 DEF RevokeInv, NameInv
  <2>4. HomeInv' /\ \A c \in Nodes : vault'[c] = c => vault[c] = c
    BY <2>1, <2>2 DEF TypeOK, RevokeInv, HomeInv
  <2>5. ~SecondToken(n) /\ ~Retiring(n)
    BY <2>1 DEF TypeOK, ConfiguredInv, SecondToken, Retiring
  <2>6. SavedInv'
    BY <2>1, <2>2, <2>4, <2>5 DEF TypeOK, RevokeInv, SavedInv, SecondToken, Retiring, Orderly
  <2> QED BY <2>3, <2>4, <2>6 DEF RevokeInv
<1>2. CASE AutoUnseal(n) \/ VaultRestarts(n)
  BY <1>2 DEF AutoUnseal, VaultRestarts, RevokeInv, NameInv, HomeInv, SavedInv, SecondToken, Retiring, Orderly
<1>3. CASE Crash(n) \/ Reboot(n) \/ Lose(n)
  <2>1. \E to \in {"down", "lost"} : Exit(n, to)
    BY <1>3 DEF Crash, Reboot, Lose
  <2>2. UNCHANGED <<vault, rootLive, configured, token, takeover>>
    BY <1>3 DEF Crash, Reboot, Lose
  <2> QED BY <2>1, <2>2, MovesOnly DEF Exit, PCs
<1>4. CASE Tear(n) /\ pc[n] # "save"
  <2>1. \/ Exit(n, "down")
        \/ pc' = [pc EXCEPT ![n] = "done"] /\ name' = name
    BY <1>4 DEF Tear, Goto
  <2>2. UNCHANGED <<vault, rootLive, configured, token, takeover>>
    BY <1>4 DEF Tear
  <2> QED BY <2>1, <2>2, MovesOnly DEF Exit, PCs
<1>5. CASE Tear(n) /\ pc[n] = "save"
  <2>1. Exit(n, "down") /\ platform # "aws"
    BY <1>5 DEF Tear, Goto
  <2>2. UNCHANGED <<vault, rootLive, configured, takeover>>
    BY <1>5 DEF Tear
  <2>3. NameInv' /\ HomeInv'
    BY <2>1, <2>2 DEF TypeOK, RevokeInv, NameInv, HomeInv, Exit
  <2>4. \A m \in Nodes : m # n => pc[m] = "lost" /\ vault[m] = None
    BY <1>5, <2>1 DEF LocalInv
  <2>5. \A m \in Nodes : ~SecondToken(m)' /\ ~Retiring(m)'
    BY <2>1, <2>4 DEF TypeOK, Exit, SecondToken, Retiring
  <2>6. \A c \in Nodes : vault[c] = c => c \in rootLive
    BY <1>5, <2>1, <2>4, DistinctNames DEF HeldInv, Clusters
  <2> QED BY <2>2, <2>3, <2>5, <2>6 DEF RevokeInv, SavedInv
<1> QED BY <1>1, <1>2, <1>3, <1>4, <1>5 DEF Environment

LEMMA RevokeStep ==
    TypeOK /\ ClaimInv /\ ConfiguredInv /\ LocalInv /\ HeldInv /\ SoleInv /\ RevokeInv /\ [Next]_vars
        => RevokeInv'
<1> SUFFICES ASSUME TypeOK, ClaimInv, ConfiguredInv, LocalInv, HeldInv, SoleInv, RevokeInv, [Next]_vars
             PROVE  RevokeInv'
  OBVIOUS
<1>1. ASSUME NEW n \in Nodes, Step(n) PROVE RevokeInv'
  BY <1>1, EarlyStepRevoke, HandOverRevoke
<1>2. ASSUME NEW n \in Nodes, Environment(n) PROVE RevokeInv'
  BY <1>2, EnvironmentRevoke
<1>3. CASE ExpireProvisioning
  <2>1. UNCHANGED <<pc, name, vault, rootLive, configured, takeover>>
    BY <1>3 DEF ExpireProvisioning, locals, vaults, grants
  <2> QED BY <1>3, <2>1, ExpiryKeepsCluster
          DEF RevokeInv, NameInv, HomeInv, SavedInv, SecondToken, Retiring, Orderly, Policies
<1>4. CASE UNCHANGED vars
  BY <1>4 DEF vars, locals, vaults, grants, secrets,
     RevokeInv, NameInv, HomeInv, SavedInv, SecondToken, Retiring, Orderly
<1> QED BY <1>1, <1>2, <1>3, <1>4 DEF Next, MaterialPoll, Finished

LEMMA RevokeInit == Init => RevokeInv
BY DistinctNames DEF Init, RevokeInv, NameInv, HomeInv, SavedInv, SecondToken, Retiring, Clusters

\* Nobody is locked out: the root goes only after both tokens are stored.
THEOREM NoLockout == Spec => []RevokedAfterSaved
<1>1. RevokeInv => RevokedAfterSaved
  BY DEF RevokeInv, SavedInv, RevokedAfterSaved
<1>2. TypeOK /\ ClaimInv /\ [Next]_vars => ClaimInv'
  BY ClaimStep
<1>3. TypeOK /\ LocalInv /\ HeldInv /\ [Next]_vars => LocalInv' /\ HeldInv'
  BY LocalStep, HeldStep
<1> QED BY Typing, ClaimInit, ConfiguredInit, LocalInit, HeldInit, SoleInit, RevokeInit,
           <1>1, <1>2, <1>3, ConfiguredStep, SoleStep, RevokeStep, PTL DEF Spec

(***************************************************************************)
(* KeyMaterialKept.  The init secret is written by SaveInit, whose cluster *)
(* has not been in it before, and by MarkRevoked, whose process holds the  *)
(* material of its own Vault.  Without a takeover there is one cluster, so *)
(* the first finds no material of this deployment and the second only      *)
(* marks it.                                                               *)
(***************************************************************************)

\* A process that uses the root has it for the cluster of its Vault.
UsesRoot(n) == pc[n] \in {"issue", "save", "revoke", "mark"}

\* Nobody but n can know of a cluster that n is still to make, or to save.
Secret(n) == vault[n] = None \/ pc[n] = "saveInit"

KeyInv ==
    /\ \A n \in Nodes : pc[n] = "saveInit" => mem[n].cluster = n /\ vault[n] = n
    /\ \A n \in Nodes : UsesRoot(n) => vault[n] \in Nodes /\ mem[n].cluster = vault[n]
    /\ \A n \in Nodes : Secret(n) => /\ material.cluster # n
                                     /\ \A k \in Nodes \ {n} : mem[k].cluster # n
    /\ \A n \in Nodes : vault[n] = None => mem[n].cluster # n

\* The process of n is not going to initialise anything.
Waits(n) == /\ pc[n] \notin {"awaitMaterial", "init", "saveInit"}
            /\ pc[n] \in {"claim", "readClaim", "putClaim"} => found[n]

\* As long as the material of an earlier deployment is found, nobody initialises,
\* nor knows of a cluster of this deployment.
GoneInv ==
    material.cluster = Gone /\ failures = 0 => \A n \in Nodes : Waits(n) /\ mem[n].cluster \notin Nodes

\* A step that only moves n, and makes it forget or reload the material.
LEMMA KeyMoves ==
    ASSUME TypeOK, KeyInv, NEW n \in Nodes, UNCHANGED <<vault, material>>,
           NEW to \in PCs \ {"saveInit", "issue", "save", "revoke", "mark"},
           pc' = [pc EXCEPT ![n] = to],
           NEW m \in {mem[n], Absent, material}, mem' = [mem EXCEPT ![n] = m]
    PROVE  KeyInv'
<1>1. \A k \in Nodes : k # n => pc'[k] = pc[k] /\ mem'[k] = mem[k]
  BY DEF TypeOK
<1>2. pc'[n] = to /\ mem'[n] = m /\ ~UsesRoot(n)'
  BY DEF TypeOK, UsesRoot
<1>3. m.cluster \in {mem[n].cluster, None, material.cluster} /\ None \notin Nodes
  BY DistinctNames DEF Absent, Clusters
<1>4. \A k \in Nodes : UsesRoot(k)' => UsesRoot(k) /\ k # n
  BY <1>1, <1>2 DEF UsesRoot
<1>5. \A k \in Nodes : Secret(k)' => Secret(k)
  BY <1>1, <1>2 DEF Secret
<1>6. \A k \in Nodes : pc'[k] = "saveInit" => k # n /\ pc[k] = "saveInit"
  BY <1>1, <1>2
<1>7. \A k \in Nodes : Secret(k)' => material'.cluster # k /\ \A j \in Nodes \ {k} : mem'[j].cluster # k
  BY <1>1, <1>2, <1>3, <1>5 DEF KeyInv
<1>8. \A k \in Nodes : vault'[k] = None => mem'[k].cluster # k
  BY <1>1, <1>2, <1>3 DEF KeyInv, Secret
<1> QED BY <1>1, <1>4, <1>6, <1>7, <1>8 DEF KeyInv

LEMMA KeyStepInit ==
    ASSUME TypeOK, KeyInv, NEW n \in Nodes, InitVault(n) \/ SaveInit(n)
    PROVE  KeyInv'
<1> USE DEF locals, vaults, Goto
<1>1. CASE InitVault(n)
  <2>1. pc[n] = "init" /\ vault[n] = None /\ None \notin Nodes /\ material' = material
    BY <1>1, DistinctNames DEF InitVault, Clusters, secrets
  <2>2. /\ pc'[n] \in {"saveInit", "unseal"} /\ vault'[n] = n
        /\ pc'[n] = "saveInit" => mem'[n].cluster = n
        /\ mem'[n].cluster = n \/ mem'[n] = mem[n]
    BY <1>1 DEF TypeOK, InitVault
  <2>3. \A k \in Nodes : k # n => pc'[k] = pc[k] /\ vault'[k] = vault[k] /\ mem'[k] = mem[k]
    BY <1>1 DEF TypeOK, InitVault
  <2>4. Secret(n) /\ \A k \in Nodes : k # n => (Secret(k)' => Secret(k)) /\ (UsesRoot(k)' => UsesRoot(k))
    BY <2>1, <2>3 DEF Secret, UsesRoot
  <2>5. \A k \in Nodes : UsesRoot(k)' => k # n
    BY <2>2 DEF UsesRoot
  <2>6. \A k \in Nodes : Secret(k)' => material'.cluster # k /\ \A j \in Nodes \ {k} : mem'[j].cluster # k
    BY <2>1, <2>2, <2>3, <2>4 DEF KeyInv
  <2>7. \A k \in Nodes : vault'[k] = None => mem'[k].cluster # k
    BY <2>1, <2>2, <2>3 DEF KeyInv
  <2> QED BY <2>2, <2>3, <2>4, <2>5, <2>6, <2>7 DEF KeyInv
<1>2. CASE SaveInit(n)
  BY <1>2, DistinctNames DEF TypeOK, KeyInv, SaveInit, UsesRoot, Secret, Clusters
<1> QED BY <1>1, <1>2

LEMMA KeyStepRoot ==
    ASSUME TypeOK, KeyInv, NEW n \in Nodes,
           Configure(n) \/ IssueToken(n) \/ SaveToken(n) \/ RevokeRoot(n) \/ MarkRevoked(n)
    PROVE  KeyInv'
<1> USE DEF locals, vaults, secrets, Goto
<1>1. CASE Configure(n)
  <2>1. vault[n] \in Nodes /\ mem[n].cluster = vault[n]
    BY <1>1 DEF TypeOK, Configure, RootWorks
  <2> QED BY <1>1, <2>1 DEF TypeOK, KeyInv, Configure, UsesRoot, Secret
<1>2. CASE IssueToken(n) \/ SaveToken(n) \/ RevokeRoot(n)
  <2>1. UsesRoot(n) /\ UNCHANGED <<vault, mem, material>>
    BY <1>2 DEF IssueToken, SaveToken, RevokeRoot, UsesRoot
  <2>2. \E to \in {"issue", "save", "revoke", "mark", "done"} : pc' = [pc EXCEPT ![n] = to]
    BY <1>2 DEF IssueToken, SaveToken, RevokeRoot
  <2> QED BY <2>1, <2>2 DEF TypeOK, KeyInv, UsesRoot, Secret
<1>3. CASE MarkRevoked(n)
  <2>1. UsesRoot(n) /\ UNCHANGED <<vault, mem>> /\ pc' = [pc EXCEPT ![n] = "done"]
    BY <1>3 DEF MarkRevoked, UsesRoot
  <2>2. material'.cluster \in {material.cluster, mem[n].cluster}
    BY <1>3 DEF TypeOK, Material, MarkRevoked
  <2>3. ~Secret(n)
    BY <2>1, DistinctNames DEF KeyInv, UsesRoot, Secret, Clusters
  <2> QED BY <2>1, <2>2, <2>3 DEF TypeOK, KeyInv, UsesRoot, Secret
<1> QED BY <1>1, <1>2, <1>3

LEMMA KeyStep == ASSUME TypeOK, KeyInv, [Next]_vars PROVE KeyInv'
<1> USE DEF locals, vaults, grants, secrets, counts, Goto
<1>1. ASSUME NEW n \in Nodes,
             ReadSealStatus(n) \/ LoadMaterial(n) \/ MissMaterial(n) \/ VaultInitialized(n)
               \/ MaterialArrives(n) \/ TakeOver(n) \/ PutIfAbsent(n) \/ ReadClaim(n) \/ PutClaim(n)
      PROVE  KeyInv'
  <2>1. UNCHANGED <<vault, material, mem>>
    BY <1>1 DEF ReadSealStatus, LoadMaterial, MissMaterial, VaultInitialized, MaterialArrives,
       TakeOver, PutIfAbsent, ReadClaim, PutClaim
  <2>2. \E to \in PCs \ {"saveInit", "issue", "save", "revoke", "mark"} : pc' = [pc EXCEPT ![n] = to]
    BY <1>1 DEF ReadSealStatus, LoadMaterial, MissMaterial, VaultInitialized, MaterialArrives,
       TakeOver, PutIfAbsent, ReadClaim, PutClaim, BeginClaim, ClaimResult, PCs
  <2>3. mem' = [mem EXCEPT ![n] = mem[n]]
    BY <2>1 DEF TypeOK
  <2> QED BY <2>1, <2>2, <2>3, KeyMoves
<1>2. ASSUME NEW n \in Nodes,
             WaitVaultTimeout(n) \/ MaterialTimeout(n) \/ UnsealTimeout(n) \/ WaitPeerTimeout(n)
               \/ RootMissing(n) \/ RootRefused(n) \/ Start(n) \/ Crash(n) \/ Reboot(n) \/ Lose(n)
      PROVE  KeyInv'
  <2>1. UNCHANGED <<vault, material>>
    BY <1>2 DEF WaitVaultTimeout, MaterialTimeout, UnsealTimeout, WaitPeerTimeout, RootMissing,
       RootRefused, Expires, Err, Start, Crash, Reboot, Lose
  <2>2. \E to \in PCs \ {"saveInit", "issue", "save", "revoke", "mark"} : Exit(n, to)
    BY <1>2 DEF WaitVaultTimeout, MaterialTimeout, UnsealTimeout, WaitPeerTimeout, RootMissing,
       RootRefused, Expires, Err, Start, Crash, Reboot, Lose, PCs
  <2> QED BY <2>1, <2>2, KeyMoves DEF Exit
<1>3. ASSUME NEW n \in Nodes,
             InitRefused(n) \/ Unsealed(n) \/ PeerBootstrapped(n) \/ CheckToken(n)
               \/ LoadRoot(n) \/ RevokeFails(n)
      PROVE  KeyInv'
  <2>1. UNCHANGED <<vault, material>>
    BY <1>3 DEF InitRefused, Unsealed, PeerBootstrapped, CheckToken, LoadRoot, RevokeFails
  <2>2. \E to \in PCs \ {"saveInit", "issue", "save", "revoke", "mark"} : pc' = [pc EXCEPT ![n] = to]
    BY <1>3 DEF InitRefused, Unsealed, PeerBootstrapped, CheckToken, LoadRoot, RevokeFails, PCs
  <2>3. \E m \in {mem[n], material} : mem' = [mem EXCEPT ![n] = m]
    BY <1>3 DEF TypeOK, InitRefused, Unsealed, PeerBootstrapped, CheckToken, LoadRoot, RevokeFails
  <2> QED BY <2>1, <2>2, <2>3, KeyMoves
<1>4. ASSUME NEW n \in Nodes, JoinPeer(n) PROVE KeyInv'
  <2>1. UNCHANGED <<pc, mem, material>> /\ vault[n] = None /\ None \notin Nodes
    BY <1>4, DistinctNames DEF JoinPeer, Clusters
  <2>2. \A k \in Nodes : k # n => vault'[k] = vault[k]
    BY <1>4 DEF TypeOK, JoinPeer
  <2>3. \A k \in Nodes : Secret(k)' => Secret(k)
    BY <2>1, <2>2 DEF Secret
  <2>4. ~UsesRoot(n) /\ pc[n] # "saveInit"
    BY <2>1 DEF KeyInv
  <2> QED BY <2>1, <2>2, <2>3, <2>4 DEF KeyInv, UsesRoot, Secret
<1>5. ASSUME NEW n \in Nodes, Tear(n) PROVE KeyInv'
  <2>1. \E to \in {"down", "done"} : pc' = [pc EXCEPT ![n] = to]
    BY <1>5 DEF Tear, Exit
  <2>2. UNCHANGED vault /\ mem' \in {mem, [mem EXCEPT ![n] = Absent]} /\ material' \in {material, Absent}
    BY <1>5 DEF Tear, Exit
  <2> QED BY <2>1, <2>2, DistinctNames DEF TypeOK, KeyInv, UsesRoot, Secret, Absent, Clusters
<1>6. CASE ExpireProvisioning \/ UNCHANGED vars
          \/ \E n \in Nodes : SubmitShares(n) \/ AutoUnseal(n) \/ VaultRestarts(n)
  <2>1. UNCHANGED <<pc, mem, vault, material>>
    BY <1>6 DEF ExpireProvisioning, vars, SubmitShares, AutoUnseal, VaultRestarts
  <2> QED BY <2>1 DEF KeyInv, UsesRoot, Secret
<1> HIDE DEF locals, vaults, grants, secrets, counts, Goto
<1>7. ASSUME NEW n \in Nodes, Step(n) PROVE KeyInv'
  BY <1>7, <1>1, <1>2, <1>3, <1>6, KeyStepInit, KeyStepRoot DEF Step
<1>8. ASSUME NEW n \in Nodes, Environment(n) PROVE KeyInv'
  BY <1>8, <1>2, <1>4, <1>5, <1>6 DEF Environment
<1> QED BY <1>6, <1>7, <1>8 DEF Next, MaterialPoll, Finished

LEMMA KeyInit == Init => KeyInv
BY DistinctNames, StartStates DEF Init, KeyInv, UsesRoot, Secret, Absent, Clusters

\* Material of an earlier deployment does not come back, nor do failures go.
LEMMA GoneBefore ==
    ASSUME TypeOK, KeyInv, [Next]_vars, material'.cluster = Gone, failures' = 0
    PROVE  material = material' /\ failures = 0
<1> USE DEF locals, vaults, grants, secrets, counts, Goto
<1>1. Gone \notin Nodes /\ Gone # None
  BY DistinctNames DEF Clusters
<1>2. failures \in Nat /\ (Fails => failures' # 0)
  BY Bounds DEF TypeOK, Fails
<1>3. ASSUME NEW n \in Nodes,
             Start(n) \/ ReadSealStatus(n) \/ LoadMaterial(n) \/ MissMaterial(n) \/ VaultInitialized(n)
               \/ MaterialArrives(n) \/ TakeOver(n) \/ PutIfAbsent(n) \/ ReadClaim(n) \/ PutClaim(n)
      PROVE  material = material' /\ failures = 0
  BY <1>2, <1>3 DEF Start, ReadSealStatus, LoadMaterial, MissMaterial, VaultInitialized,
     MaterialArrives, TakeOver, PutIfAbsent, ReadClaim, PutClaim
<1>4. ASSUME NEW n \in Nodes,
             WaitVaultTimeout(n) \/ MaterialTimeout(n) \/ UnsealTimeout(n) \/ WaitPeerTimeout(n)
               \/ RootMissing(n) \/ RootRefused(n) \/ Crash(n) \/ Reboot(n) \/ Lose(n) \/ VaultRestarts(n)
      PROVE  material = material' /\ failures = 0
  BY <1>2, <1>4 DEF WaitVaultTimeout, MaterialTimeout, UnsealTimeout, WaitPeerTimeout, RootMissing,
     RootRefused, Expires, Err, Crash, Reboot, Lose, VaultRestarts
<1>5. ASSUME NEW n \in Nodes,
             InitVault(n) \/ InitRefused(n) \/ Unsealed(n) \/ SubmitShares(n) \/ PeerBootstrapped(n)
               \/ CheckToken(n) \/ LoadRoot(n) \/ Configure(n) \/ IssueToken(n) \/ SaveToken(n)
               \/ RevokeRoot(n) \/ RevokeFails(n) \/ JoinPeer(n) \/ AutoUnseal(n)
      PROVE  material = material' /\ failures = 0
  BY <1>2, <1>5 DEF InitVault, InitRefused, Unsealed, SubmitShares, PeerBootstrapped, CheckToken,
     LoadRoot, Configure, IssueToken, SaveToken, RevokeRoot, RevokeFails, JoinPeer, AutoUnseal
<1>6. ASSUME NEW n \in Nodes, SaveInit(n) \/ Tear(n) PROVE material = material' /\ failures = 0
  BY <1>1, <1>6 DEF KeyInv, SaveInit, Tear, Absent
<1>7. ASSUME NEW n \in Nodes, MarkRevoked(n) PROVE material = material' /\ failures = 0
  <2>1. mem[n].cluster \in Nodes /\ [mem[n] EXCEPT !.root = "revoked"].cluster = mem[n].cluster
    BY <1>7 DEF TypeOK, Material, KeyInv, UsesRoot, MarkRevoked
  <2> QED BY <1>1, <1>2, <1>7, <2>1 DEF MarkRevoked
<1>8. CASE ExpireProvisioning \/ UNCHANGED vars
  BY <1>8 DEF ExpireProvisioning, vars
<1> HIDE DEF locals, vaults, grants, secrets, counts, Goto
<1>9. ASSUME NEW n \in Nodes, Step(n) PROVE material = material' /\ failures = 0
  BY <1>9, <1>3, <1>4, <1>5, <1>6, <1>7 DEF Step
<1>10. ASSUME NEW n \in Nodes, Environment(n) PROVE material = material' /\ failures = 0
  BY <1>10, <1>4, <1>5, <1>6 DEF Environment
<1> QED BY <1>8, <1>9, <1>10 DEF Next, MaterialPoll, Finished

LEMMA GoneStep == ASSUME TypeOK, KeyInv, GoneInv, [Next]_vars PROVE GoneInv'
<1> SUFFICES ASSUME material'.cluster = Gone, failures' = 0, NEW m \in Nodes
             PROVE  Waits(m)' /\ mem'[m].cluster \notin Nodes
  BY DEF GoneInv
<1>1. material.cluster = Gone /\ failures = 0 /\ Gone # None
  BY GoneBefore, DistinctNames DEF Clusters
<1>2. \A n \in Nodes : Waits(n)
  BY <1>1 DEF GoneInv
<1>10. mem'[m].cluster \notin Nodes
  <2>1. mem'[m] \in {mem[m], Absent, material}
    BY <1>2, NewNames DEF Waits, InitVault, Goto
  <2> QED BY <1>1, <2>1, DistinctNames DEF GoneInv, Absent, Clusters
<1> SUFFICES Waits(m)'
  BY <1>10
<1> USE DEF locals, vaults, grants, secrets, counts, Goto
<1>3. ~Fails
  BY <1>1, Bounds DEF TypeOK, Fails
<1>4. ASSUME NEW n \in Nodes,
             Start(n) \/ ReadSealStatus(n) \/ LoadMaterial(n) \/ MissMaterial(n) \/ VaultInitialized(n)
               \/ MaterialArrives(n) \/ TakeOver(n)
      PROVE  Waits(m)'
  BY <1>1, <1>2, <1>3, <1>4 DEF TypeOK, Waits, Start, Exit, ReadSealStatus, LoadMaterial, MissMaterial,
     VaultInitialized, MaterialArrives, TakeOver, BeginClaim, ClaimResult
<1>5. ASSUME NEW n \in Nodes, PutIfAbsent(n) \/ ReadClaim(n) \/ PutClaim(n) PROVE Waits(m)'
  BY <1>2, <1>5 DEF TypeOK, Waits, PutIfAbsent, ReadClaim, PutClaim, ClaimResult
<1>6. ASSUME NEW n \in Nodes,
             WaitVaultTimeout(n) \/ MaterialTimeout(n) \/ UnsealTimeout(n) \/ WaitPeerTimeout(n)
               \/ RootMissing(n) \/ RootRefused(n) \/ Environment(n)
      PROVE  Waits(m)'
  <2>1. \/ UNCHANGED <<pc, found>> \/ Exit(n, "down") \/ Exit(n, "lost")
        \/ UNCHANGED found /\ pc' = [pc EXCEPT ![n] = "done"]
    BY <1>6 DEF WaitVaultTimeout, MaterialTimeout, UnsealTimeout, WaitPeerTimeout, RootMissing,
       RootRefused, Expires, Err, Environment, JoinPeer, AutoUnseal, Crash, VaultRestarts, Tear, Reboot, Lose
  <2> QED BY <1>2, <2>1 DEF TypeOK, Waits, Exit
<1>7. ASSUME NEW n \in Nodes,
             InitVault(n) \/ InitRefused(n) \/ SaveInit(n) \/ Unsealed(n) \/ SubmitShares(n)
               \/ PeerBootstrapped(n) \/ CheckToken(n) \/ LoadRoot(n) \/ Configure(n) \/ IssueToken(n)
               \/ SaveToken(n) \/ RevokeRoot(n) \/ RevokeFails(n) \/ MarkRevoked(n)
      PROVE  Waits(m)'
  <2>1. pc[n] \notin {"init", "saveInit"} /\ UNCHANGED found
    BY <1>2, <1>7 DEF Waits, InitVault, InitRefused, SaveInit, Unsealed, SubmitShares, PeerBootstrapped,
       CheckToken, LoadRoot, Configure, IssueToken, SaveToken, RevokeRoot, RevokeFails, MarkRevoked
  <2>2. \/ UNCHANGED pc
        \/ \E to \in {"unseal", "checkToken", "awaitPeer", "done", "loadRoot", "configure", "issue",
                      "save", "revoke", "mark"} : pc' = [pc EXCEPT ![n] = to]
    BY <1>7, <2>1 DEF InitVault, InitRefused, SaveInit, Unsealed, SubmitShares, PeerBootstrapped,
       CheckToken, LoadRoot, Configure, IssueToken, SaveToken, RevokeRoot, RevokeFails, MarkRevoked
  <2> QED BY <1>2, <2>1, <2>2 DEF TypeOK, Waits
<1>8. CASE ExpireProvisioning \/ UNCHANGED vars
  BY <1>2, <1>8 DEF Waits, ExpireProvisioning, vars
<1> HIDE DEF locals, vaults, grants, secrets, counts, Goto
<1>9. ASSUME NEW n \in Nodes, Step(n) PROVE Waits(m)'
  BY <1>9, <1>4, <1>5, <1>6, <1>7 DEF Step
<1> QED BY <1>6, <1>8, <1>9 DEF Next, MaterialPoll, Finished

LEMMA GoneInit == Init => GoneInv
BY DistinctNames DEF Init, GoneInv, Waits, Absent, Clusters

\* The init secret changes only where SaveInit, MarkRevoked and torn files change it.
LEMMA MaterialWrites ==
    ASSUME TypeOK, [Next]_vars, material' # material
    PROVE  \E n \in Nodes : SaveInit(n) \/ MarkRevoked(n) \/ Tear(n)
<1> USE DEF locals, vaults, grants, secrets, counts, Goto
<1>1. ASSUME NEW n \in Nodes,
             Start(n) \/ ReadSealStatus(n) \/ LoadMaterial(n) \/ MissMaterial(n) \/ VaultInitialized(n)
               \/ MaterialArrives(n) \/ TakeOver(n) \/ PutIfAbsent(n) \/ ReadClaim(n) \/ PutClaim(n)
      PROVE  FALSE
  BY <1>1 DEF Start, ReadSealStatus, LoadMaterial, MissMaterial, VaultInitialized,
     MaterialArrives, TakeOver, PutIfAbsent, ReadClaim, PutClaim
<1>2. ASSUME NEW n \in Nodes,
             WaitVaultTimeout(n) \/ MaterialTimeout(n) \/ UnsealTimeout(n) \/ WaitPeerTimeout(n)
               \/ RootMissing(n) \/ RootRefused(n) \/ Crash(n) \/ Reboot(n) \/ Lose(n) \/ VaultRestarts(n)
      PROVE  FALSE
  BY <1>2 DEF WaitVaultTimeout, MaterialTimeout, UnsealTimeout, WaitPeerTimeout, RootMissing,
     RootRefused, Expires, Err, Crash, Reboot, Lose, VaultRestarts
<1>3. ASSUME NEW n \in Nodes,
             InitVault(n) \/ InitRefused(n) \/ Unsealed(n) \/ SubmitShares(n) \/ PeerBootstrapped(n)
               \/ CheckToken(n) \/ LoadRoot(n) \/ Configure(n) \/ IssueToken(n) \/ SaveToken(n)
               \/ RevokeRoot(n) \/ RevokeFails(n) \/ JoinPeer(n) \/ AutoUnseal(n)
      PROVE  FALSE
  BY <1>3 DEF InitVault, InitRefused, Unsealed, SubmitShares, PeerBootstrapped, CheckToken,
     LoadRoot, Configure, IssueToken, SaveToken, RevokeRoot, RevokeFails, JoinPeer, AutoUnseal
<1>4. CASE ExpireProvisioning \/ UNCHANGED vars
  BY <1>4 DEF ExpireProvisioning, vars
<1> HIDE DEF locals, vaults, grants, secrets, counts, Goto
<1>5. ASSUME NEW n \in Nodes, Step(n) PROVE SaveInit(n) \/ MarkRevoked(n)
  BY <1>5, <1>1, <1>2, <1>3 DEF Step
<1>6. ASSUME NEW n \in Nodes, Environment(n) PROVE Tear(n)
  BY <1>6, <1>2, <1>3 DEF Environment
<1> QED BY <1>4, <1>5, <1>6 DEF Next, MaterialPoll, Finished

LEMMA KeptStep ==
    ASSUME TypeOK, LocalInv, SoleInv, KeyInv, GoneInv, [Next]_vars, Orderly', tears' = tears,
           material.cluster \in Nodes \/ (material.cluster = Gone /\ failures = 0)
    PROVE  material' \in {material, [material EXCEPT !.root = "revoked"]}
<1> SUFFICES ASSUME material' # material PROVE material' = [material EXCEPT !.root = "revoked"]
  OBVIOUS
<1>1. Orderly
  BY NewNames DEF Orderly
<1>2. PICK n \in Nodes : SaveInit(n) \/ MarkRevoked(n)
  <2>1. ASSUME NEW n \in Nodes, Tear(n) PROVE FALSE
    BY <2>1 DEF TypeOK, Tear
  <2> QED BY <2>1, MaterialWrites
<1>3. vault[n] \in Nodes /\ mem[n].cluster = vault[n]
  BY <1>2 DEF KeyInv, UsesRoot, SaveInit, MarkRevoked, Goto
<1>4. ASSUME material.cluster \in Nodes PROVE material.cluster = vault[n]
  BY <1>1, <1>3, <1>4, SoleIsOne DEF SoleCluster
<1>5. CASE SaveInit(n)
  <2>1. pc[n] = "saveInit" /\ vault[n] = n
    BY <1>5 DEF KeyInv, SaveInit, Goto
  <2>2. material.cluster # n
    BY <2>1 DEF KeyInv, Secret
  <2>3. material.cluster # Gone \/ failures # 0
    BY <2>1 DEF GoneInv, Waits
  <2> QED BY <1>4, <2>1, <2>2, <2>3
<1>6. CASE MarkRevoked(n)
  <2>1. material' = [mem[n] EXCEPT !.root = "revoked"]
    BY <1>6 DEF MarkRevoked
  <2>2. CASE material.cluster \in Nodes
    BY <1>3, <1>4, <2>1, <2>2 DEF TypeOK, Material
  <2>3. CASE material.cluster = Gone /\ failures = 0
    BY <1>3, <2>3 DEF GoneInv
  <2> QED BY <2>2, <2>3
<1> QED BY <1>2, <1>5, <1>6

\* Key material of this deployment is never lost to another cluster's.
THEOREM MaterialSafe == Spec => KeyMaterialKept
<1>1. TypeOK /\ LocalInv /\ SoleInv /\ KeyInv /\ GoneInv /\ [Next]_vars
        => [Orderly' /\ tears' = tears
              /\ (material.cluster \in Nodes \/ (material.cluster = Gone /\ failures = 0))
              => material' \in {material, [material EXCEPT !.root = "revoked"]}]_vars
  BY KeptStep
<1>2. TypeOK /\ ClaimInv /\ [Next]_vars => ClaimInv'
  BY ClaimStep
<1>3. TypeOK /\ LocalInv /\ KeyInv /\ GoneInv /\ [Next]_vars => LocalInv' /\ KeyInv' /\ GoneInv'
  BY LocalStep, KeyStep, GoneStep
<1> QED BY Typing, ClaimInit, LocalInit, SoleInit, KeyInit, GoneInit, <1>1, <1>2, <1>3, SoleStep, PTL
        DEF Spec, KeyMaterialKept
=============================================================================
