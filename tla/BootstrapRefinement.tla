------------------------ MODULE BootstrapRefinement ------------------------
(***************************************************************************)
(* Bootstrap implements ClusterInit, for every set of nodes and every      *)
(* bound, as long as nobody takes over and no local file is torn.          *)
(***************************************************************************)
EXTENDS Bootstrap_proofs

\* What the refinement supposes of a state.
Intact == Orderly /\ tears = 0

\* Everything Bootstrap_proofs shows of the reachable states.
Known == /\ TypeOK /\ ConfiguredInv /\ ClaimInv /\ LocalInv /\ HeldInv
         /\ SoleInv /\ RevokeInv /\ KeyInv /\ GoneInv

LEMMA KnownInit == Init => Known
BY InitType, ConfiguredInit, ClaimInit, LocalInit, HeldInit, SoleInit, RevokeInit, KeyInit, GoneInit
   DEF Known

LEMMA KnownStep == Known /\ [Next]_vars => Known'
<1> SUFFICES ASSUME Known, [Next]_vars PROVE Known'
  OBVIOUS
<1>1. TypeOK'
  BY StepType, EnvironmentType, ExpireType, StutterType DEF Known, Next, MaterialPoll, Finished
<1>2. ConfiguredInv' /\ ClaimInv' /\ LocalInv' /\ HeldInv'
  BY ConfiguredStep, ClaimStep, LocalStep, HeldStep DEF Known
<1>3. SoleInv' /\ RevokeInv' /\ KeyInv' /\ GoneInv'
  BY SoleStep, RevokeStep, KeyStep, GoneStep DEF Known
<1> QED BY <1>1, <1>2, <1>3 DEF Known

(***************************************************************************)
(* Two more invariants: what is configured has its own Vault, and a        *)
(* process that has loaded the root has it from the init secret, which     *)
(* still holds it.                                                         *)
(***************************************************************************)

ReadyInv == \A c \in configured : vault[c] = c

HasRoot(n) == pc[n] \in {"configure", "issue", "save", "revoke", "mark"}

CustodyInv ==
    Intact => \A n \in Nodes : HasRoot(n) /\ mem[n].cluster \in Nodes => material.cluster = mem[n].cluster

\* The steps that a ClusterInit can see.
Visible(n) == InitVault(n) \/ SaveInit(n) \/ Configure(n) \/ SaveToken(n) \/ RevokeRoot(n)
              \/ MarkRevoked(n) \/ Tear(n) \/ JoinPeer(n)

LEMMA InvisibleStep ==
    ASSUME TypeOK, [Next]_vars, \A n \in Nodes : ~Visible(n)
    PROVE  /\ UNCHANGED <<vault, rootLive, configured, material>>
           /\ \A p \in Policies : token'[p].cluster = token[p].cluster
<1> USE DEF locals, vaults, grants, secrets, counts, Goto
<1> DEFINE Same == UNCHANGED <<vault, rootLive, configured, material, token>>
<1>1. ASSUME NEW n \in Nodes,
             Start(n) \/ ReadSealStatus(n) \/ LoadMaterial(n) \/ MissMaterial(n) \/ VaultInitialized(n)
               \/ MaterialArrives(n) \/ TakeOver(n) \/ PutIfAbsent(n) \/ ReadClaim(n) \/ PutClaim(n)
      PROVE  Same
  BY <1>1 DEF Start, ReadSealStatus, LoadMaterial, MissMaterial, VaultInitialized,
     MaterialArrives, TakeOver, PutIfAbsent, ReadClaim, PutClaim
<1>2. ASSUME NEW n \in Nodes,
             WaitVaultTimeout(n) \/ MaterialTimeout(n) \/ UnsealTimeout(n) \/ WaitPeerTimeout(n)
               \/ RootMissing(n) \/ RootRefused(n) \/ Crash(n) \/ Reboot(n) \/ Lose(n) \/ VaultRestarts(n)
      PROVE  Same
  BY <1>2 DEF WaitVaultTimeout, MaterialTimeout, UnsealTimeout, WaitPeerTimeout, RootMissing,
     RootRefused, Expires, Err, Crash, Reboot, Lose, VaultRestarts
<1>3. ASSUME NEW n \in Nodes,
             InitRefused(n) \/ Unsealed(n) \/ SubmitShares(n) \/ PeerBootstrapped(n) \/ CheckToken(n)
               \/ LoadRoot(n) \/ IssueToken(n) \/ RevokeFails(n) \/ AutoUnseal(n)
      PROVE  Same
  BY <1>3 DEF InitRefused, Unsealed, SubmitShares, PeerBootstrapped, CheckToken,
     LoadRoot, IssueToken, RevokeFails, AutoUnseal
<1>4. CASE UNCHANGED vars
  BY <1>4 DEF vars
<1>5. CASE ExpireProvisioning
  BY <1>5, ExpiryKeepsCluster DEF ExpireProvisioning
<1> HIDE DEF locals, vaults, grants, secrets, counts, Goto
<1>6. ASSUME NEW n \in Nodes, Step(n) \/ Environment(n) PROVE Same
  BY <1>6, <1>1, <1>2, <1>3 DEF Step, Environment, Visible
<1> QED BY <1>4, <1>5, <1>6 DEF Next, MaterialPoll, Finished

\* A Vault that belongs to a cluster stays in it.
LEMMA VaultStays ==
    ASSUME TypeOK, [Next]_vars, NEW m \in Nodes, vault[m] # None
    PROVE  vault'[m] = vault[m]
<1>1. ASSUME NEW n \in Nodes, Visible(n) PROVE vault'[m] = vault[m]
  BY <1>1 DEF TypeOK, Visible, InitVault, SaveInit, Configure, SaveToken, RevokeRoot, MarkRevoked,
     Tear, JoinPeer, Goto, vaults
<1> QED BY <1>1, InvisibleStep

LEMMA ReadyStep == ASSUME Known, ReadyInv, [Next]_vars PROVE ReadyInv'
<1> SUFFICES ASSUME NEW c \in configured' PROVE vault'[c] = c
  BY DEF ReadyInv
<1> USE DEF Known
<1>1. CASE c \in configured
  <2>1. vault[c] = c /\ c \in Nodes /\ c # None
    BY <1>1, DistinctNames DEF ReadyInv, TypeOK, Clusters
  <2> QED BY <2>1, VaultStays
<1>2. CASE c \notin configured
  <2>1. PICK n \in Nodes : Visible(n)
    BY <1>2, InvisibleStep
  <2>2. Configure(n) /\ c = vault[n]
    BY <1>2, <2>1 DEF Visible, InitVault, SaveInit, Configure, SaveToken, RevokeRoot, MarkRevoked,
       Tear, JoinPeer, grants
  <2>3. vault[n] \in Nodes /\ vault'[n] = vault[n] /\ vault[vault[n]] = vault[n] /\ UNCHANGED vault
    BY <2>2 DEF TypeOK, Configure, RootWorks, RevokeInv, HomeInv, vaults
  <2> QED BY <2>2, <2>3
<1> QED BY <1>1, <1>2

\* A process comes by the root through LoadRoot only, and keeps it while it uses it.
LEMMA ComesByRoot ==
    ASSUME TypeOK, [Next]_vars, NEW m \in Nodes, HasRoot(m)'
    PROVE  LoadRoot(m) \/ (HasRoot(m) /\ mem'[m] = mem[m])
<1> USE DEF locals, vaults, grants, secrets, counts, Goto, HasRoot
<1> DEFINE Keeps == LoadRoot(m) \/ (HasRoot(m) /\ mem'[m] = mem[m])
<1> SUFFICES Keeps
  OBVIOUS
<1>1. ASSUME NEW n \in Nodes,
             Start(n) \/ ReadSealStatus(n) \/ LoadMaterial(n) \/ MissMaterial(n) \/ VaultInitialized(n)
               \/ MaterialArrives(n) \/ TakeOver(n) \/ PutIfAbsent(n) \/ ReadClaim(n) \/ PutClaim(n)
      PROVE  Keeps
  BY <1>1 DEF TypeOK, Start, Exit, ReadSealStatus, LoadMaterial, MissMaterial, VaultInitialized,
     MaterialArrives, TakeOver, PutIfAbsent, ReadClaim, PutClaim, BeginClaim, ClaimResult
<1>2. ASSUME NEW n \in Nodes,
             WaitVaultTimeout(n) \/ MaterialTimeout(n) \/ UnsealTimeout(n) \/ WaitPeerTimeout(n)
               \/ RootMissing(n) \/ RootRefused(n) \/ Environment(n)
      PROVE  Keeps
  BY <1>2 DEF TypeOK, WaitVaultTimeout, MaterialTimeout, UnsealTimeout, WaitPeerTimeout, RootMissing,
     RootRefused, Expires, Err, Exit, Environment, JoinPeer, AutoUnseal, Crash, VaultRestarts, Tear,
     Reboot, Lose
<1>3. ASSUME NEW n \in Nodes,
             InitVault(n) \/ InitRefused(n) \/ SaveInit(n) \/ Unsealed(n) \/ SubmitShares(n)
               \/ PeerBootstrapped(n) \/ CheckToken(n)
      PROVE  Keeps
  BY <1>3 DEF TypeOK, InitVault, InitRefused, SaveInit, Unsealed, SubmitShares, PeerBootstrapped, CheckToken
<1>4. ASSUME NEW n \in Nodes, LoadRoot(n) PROVE Keeps
  BY <1>4 DEF TypeOK, LoadRoot
<1>5. ASSUME NEW n \in Nodes,
             Configure(n) \/ IssueToken(n) \/ SaveToken(n) \/ RevokeRoot(n) \/ RevokeFails(n) \/ MarkRevoked(n)
      PROVE  Keeps
  BY <1>5 DEF TypeOK, Configure, IssueToken, SaveToken, RevokeRoot, RevokeFails, MarkRevoked
<1>6. CASE ExpireProvisioning \/ UNCHANGED vars
  BY <1>6 DEF ExpireProvisioning, vars
<1> HIDE DEF Keeps, locals, vaults, grants, secrets, counts, Goto, HasRoot
<1>7. ASSUME NEW n \in Nodes, Step(n) PROVE Keeps
  BY <1>7, <1>1, <1>2, <1>3, <1>4, <1>5 DEF Step
<1> QED BY <1>2, <1>6, <1>7 DEF Next, MaterialPoll, Finished

LEMMA CustodyStep ==
    ASSUME Known, CustodyInv, [Next]_vars, Intact, Intact'
    PROVE  CustodyInv'
<1> SUFFICES ASSUME NEW n \in Nodes, HasRoot(n)', mem'[n].cluster \in Nodes
             PROVE  material'.cluster = mem'[n].cluster
  BY DEF CustodyInv
<1> USE DEF Known
<1>1. CASE LoadRoot(n)
  BY <1>1 DEF TypeOK, LoadRoot, secrets
<1>2. CASE HasRoot(n) /\ mem'[n] = mem[n]
  <2>1. material.cluster = mem[n].cluster /\ material.cluster \in Nodes
    BY <1>2 DEF CustodyInv
  <2>2. material' \in {material, [material EXCEPT !.root = "revoked"]}
    BY <2>1, KeptStep DEF Intact
  <2> QED BY <1>2, <2>1, <2>2 DEF TypeOK, Material
<1> QED BY <1>1, <1>2, ComesByRoot

LEMMA ReadyInit == Init => ReadyInv /\ CustodyInv
BY DEF Init, ReadyInv, CustodyInv, HasRoot

(***************************************************************************)
(* The steps.  One cluster owns at most one Vault of its own, so each      *)
(* visible step is the step of ClusterInit that bears its meaning.         *)
(***************************************************************************)

Custody == Owners \intersect {material.cluster}
Granted == [p \in Policies |-> Nodes \intersect {token[p].cluster}]
Retired == Owners \ rootLive

\* Without a takeover there is one owner at most, and it has been initialised.
LEMMA OneOwner ==
    ASSUME Known, Intact, NEW n \in Nodes, vault[n] \in Nodes
    PROVE  Owners = {vault[n]} /\ vault[n] # None
<1>1. \A m \in Nodes : vault[m] \in Nodes => vault[m] = vault[n]
  BY SoleIsOne DEF Known, Intact, SoleCluster
<1>2. vault[vault[n]] = vault[n]
  BY DEF Known, RevokeInv, HomeInv
<1> QED BY <1>1, <1>2, DistinctNames DEF Owners, Clusters

\* A step that keeps Vaults, roots, material and the clusters of tokens is a stutter.
LEMMA SameIsStutter ==
    ASSUME UNCHANGED <<Owners, rootLive, configured, Custody>>,
           \A p \in Policies : token'[p].cluster = token[p].cluster
    PROVE  UNCHANGED OneInit!vars
<1>1. Granted' = Granted
  BY DEF Granted
<1> QED BY <1>1 DEF OneInit!vars, Custody, Granted, Retired

LEMMA InitialiseStep ==
    ASSUME Known, Intact, NEW n \in Nodes, InitVault(n)
    PROVE  OneInit!Initialise
<1> USE DEF Known
<1>1. /\ vault[n] = None /\ None \notin Nodes
      /\ vault' = [vault EXCEPT ![n] = n] /\ rootLive' = rootLive \union {n}
      /\ UNCHANGED <<configured, material, token>>
  BY DistinctNames DEF InitVault, Clusters, secrets
<1>2. vault'[n] = n /\ \A m \in Nodes : m # n => vault'[m] = vault[m]
  BY <1>1 DEF TypeOK
<1>3. Owners = {}
  <2> SUFFICES ASSUME NEW m \in Nodes, vault[m] = m PROVE FALSE
    BY DEF Owners
  <2>1. Entitled(m) /\ Entitled(n)
    BY DEF SoleInv, Intact, Orderly, InitVault, Goto
  <2>2. m = n
    BY <2>1, EntitledUnique DEF Intact
  <2> QED BY <1>1, <2>2
<1>4. Owners' = {n}
  BY <1>2, <1>3 DEF Owners
<1>5. material.cluster # n
  BY <1>1 DEF KeyInv, Secret
<1>6. Custody' = Custody /\ Retired' = Retired
  BY <1>1, <1>3, <1>4, <1>5 DEF Custody, Retired
<1> QED BY <1>1, <1>3, <1>4, <1>6 DEF OneInit!Initialise, Custody, Retired

LEMMA EntrustStep ==
    ASSUME Known, Intact, NEW n \in Nodes, SaveInit(n)
    PROVE  OneInit!Entrust
<1> USE DEF Known
<1>1. vault[n] = n /\ mem[n].cluster = n /\ material' = mem[n]
      /\ UNCHANGED <<vault, rootLive, configured, token>>
  BY DEF KeyInv, SaveInit, Goto, vaults, grants
<1>2. Owners = {n} /\ Owners' = Owners /\ Custody' = {n}
  BY <1>1, OneOwner DEF Owners, Custody
<1> QED BY <1>1, <1>2 DEF OneInit!Entrust, Custody

LEMMA PrepareStep ==
    ASSUME Known, ReadyInv, CustodyInv, Intact, NEW n \in Nodes, Configure(n)
    PROVE  OneInit!Prepare
<1> USE DEF Known
<1>1. /\ vault[n] \in Nodes /\ mem[n].cluster = vault[n] /\ pc[n] = "configure"
      /\ configured' = configured \union {vault[n]} /\ UNCHANGED <<vault, rootLive, material, token>>
  BY DEF TypeOK, Configure, RootWorks, Goto, vaults, secrets
<1>2. material.cluster = vault[n]
  BY <1>1 DEF CustodyInv, HasRoot
<1>3. Owners = {vault[n]} /\ Owners' = Owners
  BY <1>1, OneOwner DEF Owners
<1>4. configured \subseteq Owners
  BY DEF TypeOK, ReadyInv, Owners
<1>5. Custody = {vault[n]} /\ configured' = Custody /\ Custody' = Custody /\ Retired' = Retired
  BY <1>1, <1>2, <1>3, <1>4 DEF Custody, Retired
<1> QED BY <1>1, <1>3, <1>5 DEF OneInit!Prepare, Custody, Retired

LEMMA GrantStep ==
    ASSUME Known, ReadyInv, Intact, NEW n \in Nodes, SaveToken(n)
    PROVE  \E p \in Policies : OneInit!Grant(p)
<1> USE DEF Known
<1>0. PICK q \in Policies : q = name[n]
  BY DEF TypeOK
<1>1. /\ pc[n] = "save"
      /\ token' = [token EXCEPT ![q] = [cluster |-> vault[n], live |-> TRUE]]
      /\ UNCHANGED <<vault, rootLive, configured, material>>
  BY <1>0 DEF SaveToken, vaults, grants
<1>2. vault[n] \in Nodes /\ vault[n] \in configured
  BY <1>1 DEF KeyInv, UsesRoot, ConfiguredInv
<1>3. Owners = {vault[n]} /\ Owners' = Owners /\ configured \subseteq Owners
  BY <1>1, <1>2, OneOwner DEF Owners, ReadyInv, TypeOK
<1>4. configured = {vault[n]}
  BY <1>2, <1>3
<1>5. token'[q].cluster = vault[n] /\ \A p \in Policies : p # q => token'[p] = token[p]
  BY <1>1 DEF TypeOK
<1>6. Granted' = [Granted EXCEPT ![q] = configured]
  BY <1>1, <1>2, <1>4, <1>5 DEF Granted
<1>7. q = "operator" => Granted["provisioning"] # {}
  BY <1>0, <1>1, <1>2 DEF Intact, RevokeInv, SavedInv, SecondToken, Granted, Policies
<1>8. Custody' = Custody /\ Retired' = Retired
  BY <1>1, <1>3 DEF Custody, Retired
<1>9. OneInit!Grant(q)
  BY <1>1, <1>2, <1>3, <1>6, <1>7, <1>8 DEF OneInit!Grant, Custody, Granted, Retired
<1> QED BY <1>9

LEMMA RetireStep ==
    ASSUME Known, Intact, NEW n \in Nodes, RevokeRoot(n)
    PROVE  OneInit!Retire
<1> USE DEF Known
<1>1. /\ pc[n] = "revoke" /\ rootLive' = rootLive \ {vault[n]}
      /\ UNCHANGED <<vault, configured, material, token>>
  BY DEF RevokeRoot, Goto, vaults, secrets
<1>2. vault[n] \in Nodes
  BY <1>1 DEF KeyInv, UsesRoot
<1>3. Owners = {vault[n]} /\ Owners' = Owners
  BY <1>1, <1>2, OneOwner DEF Owners
<1>4. \A p \in {"provisioning", "operator"} : Granted[p] # {}
  BY <1>1, <1>2 DEF Intact, RevokeInv, SavedInv, Retiring, Granted, Policies
<1>5. Retired' = Owners /\ Custody' = Custody /\ Granted' = Granted
  BY <1>1, <1>3 DEF Retired, Custody, Granted
<1> QED BY <1>1, <1>3, <1>4, <1>5 DEF OneInit!Retire, Custody, Granted, Retired

\* The marker changes nothing of whose material it is, a new member owns nothing.
LEMMA MarkOrJoinStutters ==
    ASSUME Known, CustodyInv, Intact, NEW n \in Nodes, MarkRevoked(n) \/ JoinPeer(n)
    PROVE  UNCHANGED OneInit!vars
<1> USE DEF Known
<1>1. CASE MarkRevoked(n)
  <2>1. pc[n] = "mark" /\ mem[n].cluster \in Nodes /\ UNCHANGED <<vault, rootLive, configured, token>>
    BY <1>1 DEF MarkRevoked, KeyInv, UsesRoot, Goto, vaults, grants
  <2>2. material.cluster = mem[n].cluster
    BY <2>1 DEF CustodyInv, HasRoot
  <2>3. material'.cluster = material.cluster
    BY <1>1, <2>2 DEF TypeOK, Material, MarkRevoked
  <2> QED BY <2>1, <2>3, SameIsStutter DEF Custody, Owners
<1>2. CASE JoinPeer(n)
  <2>1. PICK m \in Nodes : vault[m] # None /\ vault' = [vault EXCEPT ![n] = vault[m]]
    BY <1>2 DEF JoinPeer
  <2>2. vault[n] = None /\ None \notin Nodes /\ UNCHANGED <<rootLive, configured, material, token>>
    BY <1>2, DistinctNames DEF JoinPeer, Clusters, grants, secrets
  <2>3. vault[m] # n
    BY <2>1, <2>2 DEF TypeOK, RevokeInv, HomeInv
  <2>4. Owners' = Owners
    BY <2>1, <2>2, <2>3 DEF TypeOK, Owners
  <2> QED BY <2>2, <2>4, SameIsStutter DEF Custody
<1> QED BY <1>1, <1>2

LEMMA RefinesStep ==
    Known /\ ReadyInv /\ CustodyInv /\ Intact /\ Intact' /\ [Next]_vars
        => [OneInit!Next]_(OneInit!vars)
<1> SUFFICES ASSUME Known, ReadyInv, CustodyInv, Intact, Intact', [Next]_vars
             PROVE  [OneInit!Next]_(OneInit!vars)
  OBVIOUS
<1>1. CASE \A n \in Nodes : ~Visible(n)
  <2>1. UNCHANGED <<vault, rootLive, configured, material>>
        /\ \A p \in Policies : token'[p].cluster = token[p].cluster
    BY <1>1, InvisibleStep DEF Known
  <2> QED BY <2>1, SameIsStutter DEF Custody, Owners
<1>2. ASSUME NEW n \in Nodes, Visible(n) PROVE [OneInit!Next]_(OneInit!vars)
  <2>1. ~Tear(n)
    BY DEF Intact, Tear
  <2>2. CASE InitVault(n)
    BY <2>2, InitialiseStep DEF OneInit!Next
  <2>3. CASE SaveInit(n)
    BY <2>3, EntrustStep DEF OneInit!Next
  <2>4. CASE Configure(n)
    BY <2>4, PrepareStep DEF OneInit!Next
  <2>5. CASE SaveToken(n)
    BY <2>5, GrantStep DEF OneInit!Next, Policies
  <2>6. CASE RevokeRoot(n)
    BY <2>6, RetireStep DEF OneInit!Next
  <2>7. CASE MarkRevoked(n) \/ JoinPeer(n)
    BY <2>7, MarkOrJoinStutters
  <2> QED BY <1>2, <2>1, <2>2, <2>3, <2>4, <2>5, <2>6, <2>7 DEF Visible
<1> QED BY <1>1, <1>2

LEMMA RefinesInit == Init => OneInit!Init
<1> SUFFICES ASSUME Init PROVE OneInit!Init
  OBVIOUS
<1>1. Owners = {} /\ configured = {} /\ \A p \in Policies : token[p].cluster \notin Nodes
  BY DistinctNames, StartStates DEF Init, Owners, Clusters
<1>2. Granted = [p \in {"provisioning", "operator"} |-> {}]
  BY <1>1 DEF Granted, Policies
<1> QED BY <1>1, <1>2 DEF OneInit!Init, Granted

\* Racing, crashing and restarting nodes carry out one ClusterInit, as long as
\* nobody gives up on the claim holder and no local file is torn.
THEOREM Refines == Spec /\ []Intact => ImplementsClusterInit
<1>1. Spec => []Known
  BY KnownInit, KnownStep, PTL DEF Spec
<1>2. Known /\ ReadyInv /\ [Next]_vars => ReadyInv'
  BY ReadyStep
<1>3. Known /\ CustodyInv /\ Intact /\ Intact' /\ [Next]_vars => CustodyInv'
  BY CustodyStep
<1> QED BY <1>1, <1>2, <1>3, ReadyInit, RefinesInit, RefinesStep, PTL
        DEF Spec, ImplementsClusterInit, OneInit!Spec
=============================================================================
