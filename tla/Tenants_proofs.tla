--------------------------- MODULE Tenants_proofs ---------------------------
(***************************************************************************)
(* Theorems about Tenants for every set of pipelines, envs and tenant IDs  *)
(* and every bound.                                                        *)
(***************************************************************************)
EXTENDS Tenants, TLAPS

(***************************************************************************)
(* Type correctness.                                                       *)
(***************************************************************************)

LEMMA AnyTenantType == AnyTenant \in Tenants /\ <<AnyTenant, "reader", 1>> \in RoleIds
<1>1. (CHOOSE i \in Ids : TRUE) \in Ids
  BY Names
<1> QED BY <1>1, Bounds DEF AnyTenant, Tenants, RoleIds, Kinds

\* What a pipeline works on has an entity name of its own.
LEMMA EntityNameType ==
    ASSUME NEW t \in Tenants, NEW k \in Kinds
    PROVE  EntityName(t, k) \in Entities
BY DEF EntityName, Entities, Tenants

LEMMA WorkType ==
    ASSUME TypeOK, NEW p \in Pipelines
    PROVE  Tenant(p) \in Tenants /\ Kind(p) \in Kinds /\ at[p] = <<Tenant(p), Kind(p)>>
BY DEF TypeOK, Tenant, Kind

\* A pipeline that goes on to a tenant and a kind of access leaves at well typed.
LEMMA MoveType ==
    ASSUME TypeOK, NEW p \in Pipelines, NEW t \in Tenants, NEW k \in Kinds,
           at' = [at EXCEPT ![p] = <<t, k>>]
    PROVE  at' \in [Pipelines -> Tenants \X Kinds]
<1>1. <<t, k>> \in Tenants \X Kinds
  OBVIOUS
<1> QED BY <1>1 DEF TypeOK

LEMMA BothKinds == "reader" \in Kinds /\ "writer" \in Kinds
BY DEF Kinds

LEMMA InitType == Init => TypeOK
BY AnyTenantType, Bounds, Modes DEF Init, TypeOK, PCs, Kinds, Outcomes

\* A command that ends leaves its pipeline well typed.
LEMMA EndsType ==
    ASSUME TypeOK, NEW p \in Pipelines, Ends(p)
    PROVE  /\ pc' \in [Pipelines -> PCs]
           /\ cmd' \in [Pipelines -> [op : {"create", "destroy", "destroyEnv"},
                                      on : SUBSET Tenants, purge : BOOLEAN]]
           /\ todo' \in [Pipelines -> SUBSET Tenants] /\ at' \in [Pipelines -> Tenants \X Kinds]
           /\ known' \in [Pipelines -> BOOLEAN]
           /\ seen' \in [Pipelines -> Entities \union {None, Implicit}]
           /\ rid' \in [Pipelines -> RoleIds] /\ listed' \in [Pipelines -> SUBSET Tenants]
           /\ dirty' \in [Pipelines -> SUBSET Tenants]
BY AnyTenantType DEF TypeOK, Ends, PCs, Kinds

\* A command that starts leaves the history well typed.
LEMMA StartsType ==
    ASSUME TypeOK, NEW p \in Pipelines, NEW first \in PCs,
           NEW c \in [op : {"create", "destroy", "destroyEnv"}, on : SUBSET Tenants, purge : BOOLEAN],
           Starts(p, c, first),
           todo' \in [Pipelines -> SUBSET Tenants], at' \in [Pipelines -> Tenants \X Kinds]
    PROVE  TypeOK'
<1>1. \A q \in Pipelines : Meets(q, c) \subseteq Tenants
  BY DEF TypeOK, Meets
<1>2. dirty' \in [Pipelines -> SUBSET Tenants]
  BY <1>1 DEF TypeOK, Starts
<1>3. commands' \in 0..MaxCommands
  BY Bounds DEF TypeOK, Starts
<1>4. settled' \in [Tenants -> Outcomes]
  BY DEF TypeOK, Starts, Outcomes
<1>5. pc' \in [Pipelines -> PCs] /\ cmd' \in [Pipelines -> [op : {"create", "destroy", "destroyEnv"},
                                      on : SUBSET Tenants, purge : BOOLEAN]]
  BY DEF TypeOK, Starts
<1> QED BY <1>2, <1>3, <1>4, <1>5 DEF TypeOK, Starts, vaultState

LEMMA BoundType ==
    ASSUME TypeOK, NEW p \in Pipelines, Bound(p)
    PROVE  pc' \in [Pipelines -> PCs] /\ at' \in [Pipelines -> Tenants \X Kinds]
<1>1. Tenant(p) \in Tenants
  BY WorkType
<1>2. CASE Kind(p) = "reader"
  <2>1. at' = [at EXCEPT ![p] = <<Tenant(p), "writer">>] /\ pc' = [pc EXCEPT ![p] = "readRoleId"]
    BY <1>2 DEF Bound
  <2> QED BY <1>1, <2>1, MoveType, BothKinds DEF TypeOK, PCs
<1>3. CASE Kind(p) # "reader"
  BY <1>3 DEF TypeOK, Bound, PCs
<1> QED BY <1>2, <1>3

LEMMA CreateType ==
    ASSUME TypeOK, NEW p \in Pipelines, Create(p)
    PROVE  TypeOK'
<1> USE DEF vaultState, history, counts, Goto
<1>1. CASE StartCreate(p)
  <2>1. PICK t \in Allowed : /\ Starts(p, [op |-> "create", on |-> {t}, purge |-> FALSE], "writeRole")
                             /\ at' = [at EXCEPT ![p] = <<t, "reader">>] /\ UNCHANGED todo
    BY <1>1 DEF StartCreate
  <2> QED BY <2>1, StartsType DEF TypeOK, Allowed, Kinds, PCs
<1>2. CASE WriteRole(p)
  <2> DEFINE t == Tenant(p)  k == Kind(p)
  <2>1. t \in Tenants /\ k \in Kinds
    BY WorkType
  <2>2. /\ role' \in [Tenants -> [Kinds -> 0..MaxRoles]]
        /\ made' \in [Tenants -> [Kinds -> 0..MaxRoles]]
    <3>1. CASE role[t][k] # 0
      BY <1>2, <3>1 DEF TypeOK, WriteRole
    <3>2. CASE role[t][k] = 0
      <4>1. made[t][k] + 1 \in 0..MaxRoles
        BY <1>2, <2>1, <3>2, Bounds DEF TypeOK, WriteRole
      <4>2. /\ made' = [made EXCEPT ![t][k] = made[t][k] + 1]
            /\ role' = [role EXCEPT ![t][k] = made[t][k] + 1]
        BY <1>2, <2>1, <3>2 DEF TypeOK, WriteRole
      <4> QED BY <2>1, <4>1, <4>2 DEF TypeOK
    <3> QED BY <3>1, <3>2
  <2>3. pc' \in [Pipelines -> PCs] /\ at' \in [Pipelines -> Tenants \X Kinds]
    <3>1. pc' \in [Pipelines -> PCs]
      <4>1. CASE k = "reader"
        <5>1. pc' = pc
          BY <1>2, <4>1 DEF WriteRole
        <5> QED BY <5>1 DEF TypeOK
      <4>2. CASE k # "reader"
        <5>1. PICK s \in {"readRoleId", "done"} : pc' = [pc EXCEPT ![p] = s]
          BY <1>2, <4>2 DEF WriteRole
        <5>2. s \in PCs
          BY <5>1 DEF PCs
        <5> HIDE DEF t, k
        <5> QED BY <5>1, <5>2 DEF TypeOK
      <4> QED BY <4>1, <4>2
    <3>2. \E k2 \in {"reader", "writer"} : at' = [at EXCEPT ![p] = <<t, k2>>]
      BY <1>2 DEF WriteRole
    <3> QED BY <2>1, <3>1, <3>2, MoveType DEF Kinds
  <2> QED BY <1>2, <2>2, <2>3 DEF TypeOK, WriteRole
<1>3. CASE ReadRoleId(p)
  <2>1. <<Tenant(p), Kind(p), role[Tenant(p)][Kind(p)]>> \in RoleIds
    BY <1>3, WorkType, Bounds DEF TypeOK, ReadRoleId, RoleIds
  <2> QED BY <1>3, <2>1 DEF TypeOK, ReadRoleId, PCs
<1>4. CASE RoleIsMissing(p)
  BY <1>4, EndsType DEF TypeOK, RoleIsMissing
<1>5. CASE WriteEntity(p)
  BY <1>5, WorkType, EntityNameType DEF TypeOK, WriteEntity, PCs
<1>6. CASE ReadEntity(p)
  <2>1. CASE Ends(p)
    BY <1>6, <2>1, EndsType DEF TypeOK, ReadEntity
  <2>2. CASE ~Ends(p)
    BY <1>6, <2>2 DEF TypeOK, ReadEntity, PCs
  <2> QED BY <2>1, <2>2
<1>7. CASE LookupAlias(p)
  <2>1. alias[rid[p]] \in Entities \union {None, Implicit}
    BY DEF TypeOK
  <2>2. pc' \in [Pipelines -> PCs] /\ at' \in [Pipelines -> Tenants \X Kinds]
    <3>1. CASE Bound(p)
      BY <3>1, BoundType
    <3>2. CASE ~Bound(p)
      BY <1>7, <3>2 DEF TypeOK, LookupAlias, PCs
    <3> QED BY <3>1, <3>2
  <2> QED BY <1>7, <2>1, <2>2 DEF TypeOK, LookupAlias
<1>8. CASE Unlink(p)
  BY <1>8 DEF TypeOK, Unlink, PCs
<1>9. CASE WriteAlias(p)
  <2>1. EntityName(Tenant(p), Kind(p)) \in Entities
    BY WorkType, EntityNameType
  <2>2. CASE Ends(p) /\ UNCHANGED alias
    BY <1>9, <2>2, EndsType DEF TypeOK, WriteAlias
  <2>3. CASE ~(Ends(p) /\ UNCHANGED alias)
    BY <1>9, <2>1, <2>3, BoundType DEF TypeOK, WriteAlias
  <2> QED BY <2>2, <2>3
<1> QED BY <1>1, <1>2, <1>3, <1>4, <1>5, <1>6, <1>7, <1>8, <1>9 DEF Create

LEMMA DestroyType ==
    ASSUME TypeOK, NEW p \in Pipelines, Destroy(p)
    PROVE  TypeOK'
<1> USE DEF vaultState, history, counts, Goto
<1>1. CASE StartDestroy(p)
  <2>1. PICK t \in Allowed, purge \in BOOLEAN :
           /\ Starts(p, [op |-> "destroy", on |-> {t}, purge |-> purge], "next")
           /\ todo' = [todo EXCEPT ![p] = {t}] /\ UNCHANGED at
    BY <1>1 DEF StartDestroy
  <2> QED BY <2>1, StartsType DEF TypeOK, Allowed, PCs
<1>2. CASE StartDestroyEnv(p)
  <2>1. PICK e \in Envs, purge \in BOOLEAN :
           /\ Starts(p, [op |-> "destroyEnv", on |-> {t \in Tenants : t.env = e}, purge |-> purge],
                     "listReaders")
           /\ UNCHANGED <<todo, at>>
    BY <1>2 DEF StartDestroyEnv
  <2>2. [op |-> "destroyEnv", on |-> {t \in Tenants : t.env = e}, purge |-> purge]
           \in [op : {"create", "destroy", "destroyEnv"}, on : SUBSET Tenants, purge : BOOLEAN]
    OBVIOUS
  <2> QED BY <2>1, <2>2, StartsType DEF TypeOK, PCs
<1>3. CASE ListRoles(p)
  BY <1>3 DEF TypeOK, ListRoles, PCs
<1>4. CASE OffboardNext(p)
  <2>1. CASE UNCHANGED <<at, todo>>
    BY <1>4, <2>1 DEF TypeOK, OffboardNext, PCs
  <2>2. CASE ~UNCHANGED <<at, todo>>
    <3>1. PICK t \in todo[p] : /\ at' = [at EXCEPT ![p] = <<t, "reader">>]
                               /\ todo' = [todo EXCEPT ![p] = @ \ {t}]
                               /\ pc' = [pc EXCEPT ![p] = IF shared THEN "deleteEntity" ELSE "deleteRole"]
      BY <1>4, <2>2 DEF OffboardNext
    <3>2. t \in Tenants
      BY DEF TypeOK
    <3>3. at' \in [Pipelines -> Tenants \X Kinds]
      BY <3>1, <3>2, MoveType, BothKinds
    <3>4. pc' \in [Pipelines -> PCs] /\ todo' \in [Pipelines -> SUBSET Tenants]
      BY <3>1 DEF TypeOK, PCs
    <3> QED BY <1>4, <3>3, <3>4 DEF TypeOK, OffboardNext
  <2> QED BY <2>1, <2>2
<1>5. CASE DeleteEntity(p)
  <2> DEFINE e == EntityName(Tenant(p), Kind(p))
  <2>1. /\ meta' = [meta EXCEPT ![e] = None]
        /\ alias' = [r \in RoleIds |-> IF alias[r] = e THEN None ELSE alias[r]]
        /\ tokens' \subseteq tokens
        /\ known' \in [Pipelines -> BOOLEAN]
        /\ pc' = [pc EXCEPT ![p] = "deleteRole"]
        /\ UNCHANGED <<shared, role, made, secret, cmd, todo, at, rid, seen, listed, history, counts>>
    BY <1>5 DEF TypeOK, DeleteEntity
  <2> QED BY <2>1 DEF TypeOK, PCs
<1>6. CASE DeleteRole(p)
  <2>1. Tenant(p) \in Tenants /\ Kind(p) \in Kinds /\ 0 \in 0..MaxRoles
    BY WorkType, Bounds
  <2>2. role' \in [Tenants -> [Kinds -> 0..MaxRoles]]
    BY <1>6, <2>1 DEF TypeOK, DeleteRole
  <2>3. pc' \in [Pipelines -> PCs] /\ at' \in [Pipelines -> Tenants \X Kinds]
    <3>1. pc' \in [Pipelines -> PCs]
      BY <1>6 DEF TypeOK, DeleteRole, PCs
    <3>2. UNCHANGED at \/ at' = [at EXCEPT ![p] = <<Tenant(p), "writer">>]
      BY <1>6 DEF DeleteRole
    <3> QED BY <2>1, <3>1, <3>2, MoveType, BothKinds DEF TypeOK
  <2> QED BY <1>6, <2>2, <2>3 DEF TypeOK, DeleteRole
<1>7. CASE ListSecrets(p)
  BY <1>7 DEF TypeOK, ListSecrets, PCs
<1>8. CASE DeleteSecrets(p)
  <2>1. /\ pc' \in [Pipelines -> PCs] /\ secret' \in [Tenants -> BOOLEAN]
        /\ listed' \in [Pipelines -> SUBSET Tenants]
    <3>1. CASE UNCHANGED <<secret, listed>>
      BY <1>8, <3>1 DEF TypeOK, DeleteSecrets, PCs
    <3>2. CASE ~UNCHANGED <<secret, listed>>
      <4>1. PICK t \in listed[p] : /\ secret' = [secret EXCEPT ![t] = FALSE]
                                   /\ listed' = [listed EXCEPT ![p] = @ \ {t}] /\ UNCHANGED pc
        BY <1>8, <3>2 DEF DeleteSecrets
      <4> QED BY <4>1 DEF TypeOK
    <3> QED BY <3>1, <3>2
  <2> QED BY <1>8, <2>1 DEF TypeOK, DeleteSecrets
<1> QED BY <1>1, <1>2, <1>3, <1>4, <1>5, <1>6, <1>7, <1>8 DEF Destroy

\* The role IDs of roles, which are what apps log in with.
LEMMA RoleIdType ==
    ASSUME TypeOK, NEW t \in Tenants, NEW k \in Kinds, role[t][k] # 0
    PROVE  <<t, k, role[t][k]>> \in RoleIds
BY Bounds DEF TypeOK, RoleIds

LEMMA LoginType == ASSUME TypeOK, Login PROVE TypeOK'
<1>1. PICK t \in Allowed, k \in Kinds :
        LET r == <<t, k, role[t][k]>> IN
        /\ role[t][k] # 0 /\ logins < MaxLogins /\ logins' = logins + 1
        /\ alias' = IF alias[r] = None THEN [alias EXCEPT ![r] = Implicit] ELSE alias
        /\ tokens' = tokens \union {[of |-> r, entity |-> alias'[r]]}
        /\ UNCHANGED <<shared, role, made, meta, secret, process, history, commands, failures>>
  BY DEF Login
<1> DEFINE r == <<t, k, role[t][k]>>
<1>2. r \in RoleIds
  BY <1>1, RoleIdType DEF Allowed
<1>3. alias' \in [RoleIds -> Entities \union {None, Implicit}] /\ alias'[r] \in Entities \union {Implicit}
  BY <1>1, <1>2 DEF TypeOK
<1>4. tokens' \subseteq [of : RoleIds, entity : Entities \union {Implicit}]
  <2>1. [of |-> r, entity |-> alias'[r]] \in [of : RoleIds, entity : Entities \union {Implicit}]
    BY <1>2, <1>3
  <2>2. tokens' = tokens \union {[of |-> r, entity |-> alias'[r]]}
    BY <1>1
  <2> QED BY <2>1, <2>2 DEF TypeOK
<1>5. logins' \in 0..MaxLogins
  BY <1>1, Bounds DEF TypeOK
<1> QED BY <1>1, <1>3, <1>4, <1>5 DEF TypeOK, process, history

LEMMA NextType == TypeOK /\ [Next]_vars => TypeOK'
<1> SUFFICES ASSUME TypeOK, [Next]_vars PROVE TypeOK'
  OBVIOUS
<1>1. CASE \E p \in Pipelines : Create(p) \/ Destroy(p)
  BY <1>1, CreateType, DestroyType
<1>2. ASSUME NEW p \in Pipelines, Finish(p) PROVE TypeOK'
  <2>1. settled' \in [Tenants -> Outcomes]
    BY <1>2 DEF TypeOK, Finish, Outcomes
  <2> QED BY <1>2, <2>1, EndsType DEF TypeOK, Finish, vaultState, counts
<1>3. ASSUME NEW p \in Pipelines, Fail(p) PROVE TypeOK'
  <2>1. failures' \in 0..MaxFailures
    BY <1>3, Bounds DEF TypeOK, Fail
  <2> QED BY <1>3, <2>1, EndsType DEF TypeOK, Fail, vaultState
<1>4. CASE Login
  BY <1>4, LoginType
<1>5. CASE WriteSecret
  BY <1>5 DEF TypeOK, WriteSecret, vaultState, process, history, counts
<1>6. CASE UNCHANGED vars
  BY <1>6 DEF TypeOK, vars, vaultState, process, history, counts
<1> QED BY <1>1, <1>2, <1>3, <1>4, <1>5, <1>6 DEF Next, Quiet

\* Every reachable state is well typed.  (the commands of tenants.go and env.go)
THEOREM TenantsTyping == Spec => []TypeOK
BY InitType, NextType, PTL DEF Spec

(***************************************************************************)
(* Isolation.                                                              *)
(***************************************************************************)

\* An entity that exists carries the tenant it is named for.
MetaOfEntity == \A e \in Entities : meta[e] \in {None, [env |-> e[2], id |-> e[3]]}

\* A role ID is an alias of its own tenant's entity, or of Vault's own.
AliasOfOwner == \A r \in RoleIds : alias[r] \in {None, Implicit, EntityName(r[1], r[2])}

\* The same of the logins with it, though the alias may be another by now.
TokenOfOwner == \A k \in tokens : k.entity \in {Implicit, EntityName(k.of[1], k.of[2])}

\* The role ID a create has read is of the tenant and the kind it is binding.
RoleIdOfWork ==
    \A p \in Pipelines :
        pc[p] \in {"writeEntity", "readEntity", "lookupAlias", "unlink", "writeAlias"} =>
            rid[p][1] = Tenant(p) /\ rid[p][2] = Kind(p)

Owned == MetaOfEntity /\ AliasOfOwner /\ TokenOfOwner /\ RoleIdOfWork

LEMMA OwnedIsolates == TypeOK /\ Owned => Isolation
<1> SUFFICES ASSUME TypeOK, Owned, NEW k \in tokens PROVE Reaches(k) \in {None, k.of[1]}
  BY DEF Isolation
<1>1. k.of[1] \in Tenants /\ k.of[2] \in Kinds /\ k.entity \in Entities \union {Implicit}
  BY DEF TypeOK, RoleIds
<1>2. CASE ~shared \/ k.entity = Implicit
  BY <1>2 DEF Reaches, TypeOK
<1>3. CASE shared /\ k.entity # Implicit
  <2>1. k.entity = <<k.of[2], k.of[1].env, k.of[1].id>>
    BY <1>3 DEF Owned, TokenOfOwner, EntityName
  <2>2. meta[k.entity] \in {None, [env |-> k.of[1].env, id |-> k.of[1].id]}
    BY <1>1, <1>3, <2>1 DEF Owned, MetaOfEntity
  <2>3. [env |-> k.of[1].env, id |-> k.of[1].id] = k.of[1]
    BY <1>1 DEF Tenants
  <2> QED BY <1>3, <2>2, <2>3 DEF Reaches
<1> QED BY <1>2, <1>3

LEMMA InitOwned == Init => Owned
BY DEF Init, Owned, MetaOfEntity, AliasOfOwner, TokenOfOwner, RoleIdOfWork

\* A step that leaves Vault's state alone, and is not in the middle of binding
\* at other places, keeps what is owned.
LEMMA LeftAlone ==
    ASSUME TypeOK, Owned, NEW p \in Pipelines,
           UNCHANGED <<meta, alias, tokens>>,
           \A q \in Pipelines \ {p} : pc'[q] = pc[q] /\ at'[q] = at[q] /\ rid'[q] = rid[q],
           \/ pc'[p] \notin {"writeEntity", "readEntity", "lookupAlias", "unlink", "writeAlias"}
           \/ rid'[p][1] = at'[p][1] /\ rid'[p][2] = at'[p][2]
    PROVE  Owned'
<1>1. MetaOfEntity' /\ AliasOfOwner' /\ TokenOfOwner'
  BY DEF Owned, MetaOfEntity, AliasOfOwner, TokenOfOwner, EntityName
<1>2. RoleIdOfWork'
  BY DEF Owned, RoleIdOfWork, Tenant, Kind
<1> QED BY <1>1, <1>2 DEF Owned

\* The step goes from one place of the binding to the next.
LEMMA StillBinding ==
    ASSUME TypeOK, Owned, NEW p \in Pipelines, UNCHANGED rid,
           pc[p] \in {"writeEntity", "readEntity", "lookupAlias", "unlink", "writeAlias"},
           \A q \in Pipelines \ {p} : pc'[q] = pc[q] /\ at'[q] = at[q],
           \/ at'[p] = at[p]
           \/ pc'[p] \notin {"writeEntity", "readEntity", "lookupAlias", "unlink", "writeAlias"}
    PROVE  RoleIdOfWork'
BY DEF Owned, RoleIdOfWork, Tenant, Kind

LEMMA EndsOwned ==
    ASSUME TypeOK, Owned, NEW p \in Pipelines, Ends(p), UNCHANGED <<meta, alias, tokens>>
    PROVE  Owned'
<1>1. pc'[p] = "idle" /\ \A q \in Pipelines \ {p} : pc'[q] = pc[q] /\ at'[q] = at[q] /\ rid'[q] = rid[q]
  BY DEF TypeOK, Ends
<1> QED BY <1>1, LeftAlone

LEMMA StartsOwned ==
    ASSUME TypeOK, Owned, NEW p \in Pipelines, NEW c, NEW first \in {"writeRole", "next", "listReaders"},
           Starts(p, c, first), \A q \in Pipelines \ {p} : at'[q] = at[q]
    PROVE  Owned'
<1>1. pc'[p] = first /\ \A q \in Pipelines \ {p} : pc'[q] = pc[q] /\ rid'[q] = rid[q]
  BY DEF TypeOK, Starts
<1>2. UNCHANGED <<meta, alias, tokens>>
  BY DEF Starts, vaultState
<1> QED BY <1>1, <1>2, LeftAlone

LEMMA CreateOwned ==
    ASSUME TypeOK, Owned, NEW p \in Pipelines, Create(p)
    PROVE  Owned'
<1> USE DEF vaultState, history, counts, Goto
<1> DEFINE e == EntityName(Tenant(p), Kind(p))
<1>0. /\ Tenant(p) \in Tenants /\ Kind(p) \in Kinds /\ e \in Entities
      /\ rid[p] \in RoleIds /\ rid[p][1] \in Tenants /\ rid[p][2] \in Kinds
  BY WorkType, EntityNameType DEF TypeOK, RoleIds
<1>1. CASE StartCreate(p)
  <2>1. PICK t \in Allowed : /\ Starts(p, [op |-> "create", on |-> {t}, purge |-> FALSE], "writeRole")
                             /\ at' = [at EXCEPT ![p] = <<t, "reader">>]
    BY <1>1 DEF StartCreate
  <2> QED BY <2>1, StartsOwned DEF TypeOK
<1>2. CASE WriteRole(p)
  <2>1. /\ pc'[p] \in {"writeRole", "readRoleId", "done"} /\ UNCHANGED <<meta, alias, tokens, rid>>
        /\ \A q \in Pipelines \ {p} : pc'[q] = pc[q] /\ at'[q] = at[q]
    BY <1>2 DEF TypeOK, WriteRole
  <2> QED BY <2>1, LeftAlone
<1>3. CASE ReadRoleId(p)
  <2>1. /\ rid'[p] = <<Tenant(p), Kind(p), role[Tenant(p)][Kind(p)]>>
        /\ UNCHANGED <<meta, alias, tokens, at>>
        /\ \A q \in Pipelines \ {p} : pc'[q] = pc[q] /\ rid'[q] = rid[q]
    BY <1>3 DEF TypeOK, ReadRoleId
  <2> QED BY <2>1, LeftAlone DEF Tenant, Kind
<1>4. CASE RoleIsMissing(p)
  BY <1>4, EndsOwned DEF RoleIsMissing
<1>5. CASE WriteEntity(p)
  <2>1. MetaOfEntity'
    <3>1. Tenant(p) = [env |-> e[2], id |-> e[3]]
      BY <1>0 DEF EntityName, Tenants
    <3>2. meta' = [meta EXCEPT ![e] = Tenant(p)]
      BY <1>5 DEF WriteEntity
    <3> QED BY <1>0, <3>1, <3>2 DEF TypeOK, Owned, MetaOfEntity
  <2>2. AliasOfOwner' /\ TokenOfOwner'
    BY <1>5 DEF WriteEntity, Owned, AliasOfOwner, TokenOfOwner, EntityName
  <2>3. RoleIdOfWork'
    BY <1>5, StillBinding DEF TypeOK, WriteEntity
  <2> QED BY <2>1, <2>2, <2>3 DEF Owned
<1>6. CASE ReadEntity(p)
  <2>1. CASE Ends(p)
    BY <1>6, <2>1, EndsOwned DEF ReadEntity
  <2>2. CASE ~Ends(p)
    <3>1. /\ rid[p][1] = at[p][1] /\ rid[p][2] = at[p][2]
          /\ UNCHANGED <<meta, alias, tokens, at, rid>>
          /\ \A q \in Pipelines \ {p} : pc'[q] = pc[q]
      BY <1>6, <2>2 DEF TypeOK, ReadEntity, Owned, RoleIdOfWork, Tenant, Kind
    <3> QED BY <3>1, LeftAlone
  <2> QED BY <2>1, <2>2
<1>7. CASE LookupAlias(p)
  <2>1. UNCHANGED <<meta, alias, tokens, rid>>
    BY <1>7 DEF LookupAlias
  <2>2. CASE Bound(p)
    <3>1. /\ pc'[p] \in {"readRoleId", "done"}
          /\ \A q \in Pipelines \ {p} : pc'[q] = pc[q] /\ at'[q] = at[q]
      BY <2>2 DEF TypeOK, Bound
    <3> QED BY <2>1, <3>1, LeftAlone
  <2>3. CASE ~Bound(p)
    <3>1. UNCHANGED at /\ (\A q \in Pipelines \ {p} : pc'[q] = pc[q])
          /\ rid[p][1] = at[p][1] /\ rid[p][2] = at[p][2]
      BY <1>7, <2>3 DEF TypeOK, LookupAlias, Owned, RoleIdOfWork, Tenant, Kind
    <3> QED BY <2>1, <3>1, LeftAlone
  <2> QED BY <2>2, <2>3
<1>8. CASE Unlink(p)
  <2>1. AliasOfOwner'
    BY <1>8, <1>0 DEF TypeOK, Unlink, Owned, AliasOfOwner, EntityName
  <2>2. MetaOfEntity' /\ TokenOfOwner'
    BY <1>8 DEF Unlink, Owned, MetaOfEntity, TokenOfOwner, EntityName
  <2>3. RoleIdOfWork'
    BY <1>8, StillBinding DEF TypeOK, Unlink
  <2> QED BY <2>1, <2>2, <2>3 DEF Owned
<1>9. CASE WriteAlias(p)
  <2>1. CASE Ends(p) /\ UNCHANGED alias
    BY <1>9, <2>1, EndsOwned DEF WriteAlias
  <2>2. CASE ~(Ends(p) /\ UNCHANGED alias)
    <3>1. alias' = [alias EXCEPT ![rid[p]] = e] /\ Bound(p) /\ UNCHANGED <<meta, tokens, rid>>
      BY <1>9, <2>2 DEF WriteAlias
    <3>2. e = EntityName(rid[p][1], rid[p][2])
      BY <1>9 DEF WriteAlias, Owned, RoleIdOfWork
    <3>3. AliasOfOwner'
      BY <1>0, <3>1, <3>2 DEF TypeOK, Owned, AliasOfOwner, EntityName
    <3>4. MetaOfEntity' /\ TokenOfOwner'
      BY <3>1 DEF Owned, MetaOfEntity, TokenOfOwner, EntityName
    <3>5. /\ pc'[p] \in {"readRoleId", "done"}
          /\ \A q \in Pipelines \ {p} : pc'[q] = pc[q] /\ at'[q] = at[q]
      BY <3>1 DEF TypeOK, Bound
    <3>6. RoleIdOfWork'
      BY <3>1, <3>5 DEF Owned, RoleIdOfWork, Tenant, Kind
    <3> QED BY <3>3, <3>4, <3>6 DEF Owned
  <2> QED BY <2>1, <2>2
<1> QED BY <1>1, <1>2, <1>3, <1>4, <1>5, <1>6, <1>7, <1>8, <1>9 DEF Create

LEMMA DestroyOwned ==
    ASSUME TypeOK, Owned, NEW p \in Pipelines, Destroy(p)
    PROVE  Owned'
<1> USE DEF vaultState, history, counts, Goto
<1>1. CASE StartDestroy(p)
  <2>1. \E c : Starts(p, c, "next") /\ UNCHANGED at
    BY <1>1 DEF StartDestroy
  <2> QED BY <2>1, StartsOwned
<1>2. CASE StartDestroyEnv(p)
  <2>1. \E c : Starts(p, c, "listReaders") /\ UNCHANGED at
    BY <1>2 DEF StartDestroyEnv
  <2> QED BY <2>1, StartsOwned
<1>3. CASE ListRoles(p)
  <2>1. /\ pc'[p] \in {"listWriters", "next"} /\ UNCHANGED <<meta, alias, tokens, rid, at>>
        /\ \A q \in Pipelines \ {p} : pc'[q] = pc[q]
    BY <1>3 DEF TypeOK, ListRoles
  <2> QED BY <2>1, LeftAlone
<1>4. CASE OffboardNext(p)
  <2>1. UNCHANGED <<meta, alias, tokens, rid>>
    BY <1>4 DEF OffboardNext
  <2>2. /\ pc'[p] \in {"deleteEntity", "deleteRole", "listSecrets", "done"}
        /\ \A q \in Pipelines \ {p} : pc'[q] = pc[q]
    BY <1>4 DEF TypeOK, OffboardNext
  <2>3. \A q \in Pipelines \ {p} : at'[q] = at[q]
    BY <1>4 DEF TypeOK, OffboardNext
  <2> QED BY <2>1, <2>2, <2>3, LeftAlone
<1>5. CASE DeleteEntity(p)
  <2> DEFINE e == EntityName(Tenant(p), Kind(p))
  <2>1. /\ meta' = [meta EXCEPT ![e] = None]
        /\ alias' = [r \in RoleIds |-> IF alias[r] = e THEN None ELSE alias[r]]
        /\ tokens' \subseteq tokens
        /\ pc' = [pc EXCEPT ![p] = "deleteRole"] /\ UNCHANGED <<at, rid>>
    BY <1>5 DEF DeleteEntity
  <2>2. MetaOfEntity'
    BY <2>1 DEF TypeOK, Owned, MetaOfEntity
  <2>3. AliasOfOwner'
    BY <2>1 DEF Owned, AliasOfOwner, EntityName
  <2>4. TokenOfOwner'
    BY <2>1 DEF Owned, TokenOfOwner, EntityName
  <2>5. RoleIdOfWork'
    BY <2>1 DEF TypeOK, Owned, RoleIdOfWork, Tenant, Kind
  <2> QED BY <2>2, <2>3, <2>4, <2>5 DEF Owned
<1>6. CASE DeleteRole(p)
  <2>1. /\ pc'[p] \in {"deleteEntity", "deleteRole", "next"} /\ UNCHANGED <<meta, alias, tokens, rid>>
        /\ \A q \in Pipelines \ {p} : pc'[q] = pc[q] /\ at'[q] = at[q]
    BY <1>6 DEF TypeOK, DeleteRole
  <2> QED BY <2>1, LeftAlone
<1>7. CASE ListSecrets(p) \/ DeleteSecrets(p)
  <2>1. /\ pc'[p] \in {"deleteSecrets", "done"} /\ UNCHANGED <<meta, alias, tokens, rid, at>>
        /\ \A q \in Pipelines \ {p} : pc'[q] = pc[q]
    BY <1>7 DEF TypeOK, ListSecrets, DeleteSecrets
  <2> QED BY <2>1, LeftAlone
<1> QED BY <1>1, <1>2, <1>3, <1>4, <1>5, <1>6, <1>7 DEF Destroy

LEMMA LoginOwned == ASSUME TypeOK, Owned, Login PROVE Owned'
<1>1. PICK t \in Allowed, k \in Kinds :
        LET r == <<t, k, role[t][k]>> IN
        /\ role[t][k] # 0
        /\ alias' = IF alias[r] = None THEN [alias EXCEPT ![r] = Implicit] ELSE alias
        /\ tokens' = tokens \union {[of |-> r, entity |-> alias'[r]]}
        /\ UNCHANGED <<meta, process>>
  BY DEF Login
<1> DEFINE r == <<t, k, role[t][k]>>
<1>2. r \in RoleIds
  BY <1>1, RoleIdType DEF Allowed
<1>3. AliasOfOwner' /\ alias'[r] \in {Implicit, EntityName(r[1], r[2])}
  BY <1>1, <1>2 DEF TypeOK, Owned, AliasOfOwner, EntityName
<1>4. TokenOfOwner'
  BY <1>1, <1>3 DEF Owned, TokenOfOwner, EntityName
<1>5. MetaOfEntity' /\ RoleIdOfWork'
  BY <1>1 DEF process, Owned, MetaOfEntity, RoleIdOfWork, Tenant, Kind
<1> QED BY <1>3, <1>4, <1>5 DEF Owned

LEMMA NextOwned == TypeOK /\ Owned /\ [Next]_vars => Owned'
<1> SUFFICES ASSUME TypeOK, Owned, [Next]_vars PROVE Owned'
  OBVIOUS
<1>1. CASE \E p \in Pipelines : Create(p) \/ Destroy(p)
  BY <1>1, CreateOwned, DestroyOwned
<1>2. CASE \E p \in Pipelines : Finish(p) \/ Fail(p)
  BY <1>2, EndsOwned DEF Finish, Fail, vaultState
<1>3. CASE Login
  BY <1>3, LoginOwned
<1>4. CASE WriteSecret \/ UNCHANGED vars
  BY <1>4 DEF WriteSecret, vars, vaultState, process, Owned, MetaOfEntity, AliasOfOwner,
     TokenOfOwner, RoleIdOfWork, EntityName, Tenant, Kind
<1> QED BY <1>1, <1>2, <1>3, <1>4 DEF Next, Quiet

\* No tenant's token ever reaches another tenant, however many pipelines create
\* and destroy tenants and envs at once.  (bindTenantEntity, ensureEntityAlias)
THEOREM TokensIsolated == Spec => []Isolation
<1>1. Init => TypeOK /\ Owned
  BY InitType, InitOwned
<1>2. TypeOK /\ Owned /\ [Next]_vars => (TypeOK /\ Owned)'
  BY NextType, NextOwned
<1>3. TypeOK /\ Owned => Isolation
  BY OwnedIsolates
<1> QED BY <1>1, <1>2, <1>3, PTL DEF Spec

(***************************************************************************)
(* How commands on tenants end: what create, destroy and purge promise of  *)
(* a tenant no other command met.                                          *)
(***************************************************************************)

\* No other command has met p's command on tenant t.
Clean(p, t) == t \in cmd[p].on \ dirty[p]

Binding     == {"writeEntity", "readEntity", "lookupAlias", "unlink", "writeAlias"}
Creating    == {"writeRole", "readRoleId"} \union Binding
Offboarding == {"deleteEntity", "deleteRole"}
Destroying  == {"listReaders", "listWriters", "next", "listSecrets", "deleteSecrets"} \union Offboarding

(***************************************************************************)
(* What a pipeline works on belongs to its command.                        *)
(***************************************************************************)

Working(p) ==
    /\ dirty[p] \subseteq cmd[p].on /\ todo[p] \subseteq cmd[p].on
    /\ pc[p] = "idle" => cmd[p].on = {}
    /\ pc[p] \in Creating => cmd[p].op = "create"
    /\ pc[p] \in Destroying => cmd[p].op # "create"
    /\ pc[p] \in {"listReaders", "listWriters"} => cmd[p].op = "destroyEnv"
    /\ pc[p] \in Creating \union Offboarding => Tenant(p) \in cmd[p].on
    /\ cmd[p].op = "create" => cmd[p].on \subseteq {Tenant(p)}
    /\ pc[p] \in {"readRoleId", "deleteEntity"} \union Binding => shared

WorkInv == \A p \in Pipelines : Working(p)

LEMMA WorkInit == Init => WorkInv
BY DEF Init, WorkInv, Working, Creating, Destroying, Offboarding, Binding

Starting(p) == StartCreate(p) \/ StartDestroy(p) \/ StartDestroyEnv(p)

\* A step between two calls of a command.
Within(p) ==
    \/ WriteRole(p) \/ ReadRoleId(p) \/ WriteEntity(p) \/ LookupAlias(p) \/ Unlink(p)
    \/ (ReadEntity(p) \/ WriteAlias(p)) /\ ~Ends(p)
    \/ ListRoles(p) \/ OffboardNext(p) \/ DeleteEntity(p) \/ DeleteRole(p)
    \/ ListSecrets(p) \/ DeleteSecrets(p)

\* A command that ends without doing anything else to Vault.
Ending(p) == Ends(p) /\ UNCHANGED <<shared, vaultState, secret>>

LEMMA ThreeSteps ==
    ASSUME TypeOK, NEW p \in Pipelines, Create(p) \/ Destroy(p) \/ Finish(p) \/ Fail(p)
    PROVE  \/ Starting(p)
           \/ Ending(p) /\ (Finish(p) \/ UNCHANGED settled)
           \/ Within(p)
<1> USE DEF vaultState
<1>1. CASE ReadEntity(p)
  BY <1>1 DEF ReadEntity, Ending, Within
<1>2. CASE WriteAlias(p)
  <2>1. ASSUME Bound(p) PROVE ~Ends(p)
    BY <2>1 DEF TypeOK, Bound, Ends
  <2> QED BY <1>2, <2>1 DEF WriteAlias, Ending, Within
<1>3. CASE RoleIsMissing(p)
  BY <1>3 DEF RoleIsMissing, Ending
<1>4. CASE StartCreate(p) \/ WriteRole(p) \/ ReadRoleId(p) \/ WriteEntity(p) \/ LookupAlias(p) \/ Unlink(p)
  BY <1>4 DEF Starting, Within
<1>5. CASE Destroy(p)
  BY <1>5 DEF Destroy, Starting, Within
<1>6. CASE Finish(p) \/ Fail(p)
  BY <1>6 DEF Finish, Fail, Ending
<1> QED BY <1>1, <1>2, <1>3, <1>4, <1>5, <1>6 DEF Create

\* The locals of a pipeline.
Locals(q) == <<pc[q], cmd[q], todo[q], at[q], rid[q], seen[q], listed[q]>>

\* Nothing of other pipelines changes, but whether their entity ID is still known
\* and whether a new command has met them.
LEMMA WithinOthers ==
    ASSUME TypeOK, NEW p \in Pipelines, Within(p)
    PROVE  /\ UNCHANGED <<shared, cmd, dirty, settled>>
           /\ \A q \in Pipelines \ {p} : Locals(q)' = Locals(q)
<1> USE DEF TypeOK, Locals, history, counts, vaultState, Goto, Bound
<1>1. CASE WriteRole(p) \/ ReadRoleId(p) \/ WriteEntity(p) \/ Unlink(p)
  BY <1>1 DEF WriteRole, ReadRoleId, WriteEntity, Unlink
<1>2. CASE ReadEntity(p) /\ ~Ends(p)
  BY <1>2 DEF ReadEntity
<1>3. CASE LookupAlias(p)
  BY <1>3 DEF LookupAlias
<1>4. CASE WriteAlias(p) /\ ~Ends(p)
  BY <1>4 DEF WriteAlias
<1>5. CASE ListRoles(p) \/ OffboardNext(p)
  BY <1>5 DEF ListRoles, OffboardNext
<1>6. CASE DeleteEntity(p) \/ DeleteRole(p) \/ ListSecrets(p) \/ DeleteSecrets(p)
  BY <1>6 DEF DeleteEntity, DeleteRole, ListSecrets, DeleteSecrets
<1> QED BY <1>1, <1>2, <1>3, <1>4, <1>5, <1>6 DEF Within

LEMMA EndingOthers ==
    ASSUME TypeOK, NEW p \in Pipelines, Ending(p)
    PROVE  /\ UNCHANGED <<shared, vaultState, secret>>
           /\ pc'[p] = "idle" /\ cmd'[p] = [op |-> "create", on |-> {}, purge |-> FALSE]
           /\ todo'[p] = {} /\ dirty'[p] = {}
           /\ \A q \in Pipelines \ {p} : Locals(q)' = Locals(q) /\ dirty'[q] = dirty[q] /\ known'[q] = known[q]
BY DEF TypeOK, Ending, Ends, Locals

\* How a command starts.
Begun(p, c, first) ==
    /\ Starts(p, c, first)
    /\ \A q \in Pipelines \ {p} : todo'[q] = todo[q] /\ at'[q] = at[q]
    /\ \/ /\ \E t \in Tenants : c.op = "create" /\ c.on = {t} /\ first = "writeRole" /\ at'[p] = <<t, "reader">>
          /\ todo' = todo
       \/ /\ \E t \in Tenants : c.op = "destroy" /\ c.on = {t} /\ first = "next" /\ todo'[p] = {t}
       \/ /\ c.op = "destroyEnv" /\ c.on \subseteq Tenants /\ first = "listReaders" /\ todo' = todo

Command == [op : {"create", "destroy", "destroyEnv"}, on : SUBSET Tenants, purge : BOOLEAN]

LEMMA StartingBegun ==
    ASSUME TypeOK, NEW p \in Pipelines, Starting(p)
    PROVE  \E c \in Command, first \in PCs : Begun(p, c, first)
<1> USE DEF Begun, Allowed, PCs, Command
<1>1. CASE StartCreate(p)
  <2>1. PICK t \in Tenants : /\ Starts(p, [op |-> "create", on |-> {t}, purge |-> FALSE], "writeRole")
                             /\ at' = [at EXCEPT ![p] = <<t, "reader">>] /\ todo' = todo
    BY <1>1 DEF StartCreate
  <2> DEFINE c == [op |-> "create", on |-> {t}, purge |-> FALSE]
  <2>2. c \in Command /\ "writeRole" \in PCs
    OBVIOUS
  <2>3. Begun(p, c, "writeRole")
    BY <2>1 DEF TypeOK
  <2> QED BY <2>2, <2>3
<1>2. CASE StartDestroy(p)
  <2>1. PICK t \in Tenants, purge \in BOOLEAN :
          /\ Starts(p, [op |-> "destroy", on |-> {t}, purge |-> purge], "next")
          /\ todo' = [todo EXCEPT ![p] = {t}] /\ at' = at
    BY <1>2 DEF StartDestroy
  <2> DEFINE c == [op |-> "destroy", on |-> {t}, purge |-> purge]
  <2>2. c \in Command /\ "next" \in PCs
    OBVIOUS
  <2>3. Begun(p, c, "next")
    BY <2>1 DEF TypeOK
  <2> QED BY <2>2, <2>3
<1>3. CASE StartDestroyEnv(p)
  <2>1. PICK e \in Envs, purge \in BOOLEAN :
          /\ Starts(p, [op |-> "destroyEnv", on |-> {t \in Tenants : t.env = e}, purge |-> purge],
                    "listReaders")
          /\ todo' = todo /\ at' = at
    BY <1>3 DEF StartDestroyEnv
  <2> DEFINE c == [op |-> "destroyEnv", on |-> {t \in Tenants : t.env = e}, purge |-> purge]
  <2>2. c \in Command /\ "listReaders" \in PCs
    OBVIOUS
  <2>3. Begun(p, c, "listReaders")
    BY <2>1
  <2> QED BY <2>2, <2>3
<1> QED BY <1>1, <1>2, <1>3 DEF Starting

\* The apps touch neither commands nor roles and entities.
LEMMA Aside ==
    ASSUME Login \/ WriteSecret \/ UNCHANGED vars
    PROVE  UNCHANGED <<shared, role, made, meta, process, history>>
<1>1. CASE Login
  BY <1>1 DEF Login
<1>2. CASE WriteSecret
  BY <1>2 DEF WriteSecret, vaultState
<1>3. CASE UNCHANGED vars
  BY <1>3 DEF vars, vaultState
<1> QED BY <1>1, <1>2, <1>3

LEMMA WithinWork ==
    ASSUME TypeOK, WorkInv, NEW p \in Pipelines, Within(p)
    PROVE  Working(p)'
<1> USE DEF TypeOK, Working, Creating, Destroying, Offboarding, Binding, Tenant, Kind, vaultState, history,
            counts, Goto
<1>0. Working(p)
  BY DEF WorkInv
<1>1. CASE WriteRole(p)
  BY <1>0, <1>1 DEF WriteRole
<1>2. CASE ReadRoleId(p) \/ WriteEntity(p) \/ Unlink(p)
  BY <1>0, <1>2 DEF ReadRoleId, WriteEntity, Unlink
<1>3. CASE ReadEntity(p) /\ ~Ends(p)
  BY <1>0, <1>3 DEF ReadEntity
<1>4. CASE LookupAlias(p)
  BY <1>0, <1>4 DEF LookupAlias, Bound
<1>5. CASE WriteAlias(p) /\ ~Ends(p)
  BY <1>0, <1>5 DEF WriteAlias, Bound
<1>6. CASE ListRoles(p)
  BY <1>0, <1>6 DEF ListRoles
<1>7. CASE OffboardNext(p)
  BY <1>0, <1>7 DEF OffboardNext
<1>8. CASE DeleteEntity(p) \/ DeleteRole(p)
  BY <1>0, <1>8 DEF DeleteEntity, DeleteRole
<1>9. CASE ListSecrets(p) \/ DeleteSecrets(p)
  BY <1>0, <1>9 DEF ListSecrets, DeleteSecrets
<1> QED BY <1>1, <1>2, <1>3, <1>4, <1>5, <1>6, <1>7, <1>8, <1>9 DEF Within

LEMMA WorkStep == ASSUME TypeOK, WorkInv, [Next]_vars PROVE WorkInv'
<1>1. ASSUME NEW p \in Pipelines, Starting(p) PROVE WorkInv'
  <2>1. PICK c \in Command, first \in PCs : Begun(p, c, first)
    BY <1>1, StartingBegun
  <2>2. Working(p)'
    <3>1. pc'[p] = first /\ cmd'[p] = c /\ dirty'[p] \subseteq c.on /\ shared' = shared
      BY <2>1 DEF TypeOK, Begun, Starts, Meets
    <3>2. todo'[p] \subseteq c.on
      BY <2>1, <1>1 DEF TypeOK, WorkInv, Working, Begun, Starts
    <3> QED BY <2>1, <3>1, <3>2 DEF Begun, Working, Creating, Destroying, Offboarding, Binding, Tenant
  <2>3. ASSUME NEW q \in Pipelines \ {p} PROVE Working(q)'
    <3>1. /\ pc'[q] = pc[q] /\ cmd'[q] = cmd[q] /\ todo'[q] = todo[q] /\ at'[q] = at[q]
          /\ dirty'[q] = dirty[q] \union Meets(q, c) /\ shared' = shared
      BY <2>1 DEF TypeOK, Begun, Starts
    <3>2. Working(q)
      BY DEF WorkInv
    <3> QED BY <3>1, <3>2 DEF Working, Meets, Tenant
  <2> QED BY <2>2, <2>3 DEF WorkInv
<1>2. ASSUME NEW p \in Pipelines, Ending(p) PROVE WorkInv'
  BY <1>2, EndingOthers DEF WorkInv, Working, Locals, Tenant, Creating, Destroying, Offboarding, Binding
<1>3. ASSUME NEW p \in Pipelines, Within(p) PROVE WorkInv'
  BY <1>3, WithinOthers, WithinWork DEF WorkInv, Working, Locals, Tenant
<1>4. CASE Login \/ WriteSecret \/ UNCHANGED vars
  BY <1>4, Aside DEF process, history, WorkInv, Working, Tenant
<1> QED BY <1>1, <1>2, <1>3, <1>4, ThreeSteps DEF Next, Quiet

(***************************************************************************)
(* A command that is still clean has its tenants to itself, or shares them *)
(* with other clean creates.                                               *)
(***************************************************************************)

ExclInv ==
    \A p, q \in Pipelines, t \in Tenants :
        p # q /\ Clean(p, t) /\ t \in cmd[q].on =>
            cmd[p].op = "create" /\ cmd[q].op = "create" /\ Clean(q, t)

LEMMA ExclInit == Init => ExclInv
BY DEF Init, ExclInv, Clean

LEMMA ExclStep == ASSUME TypeOK, WorkInv, ExclInv, [Next]_vars PROVE ExclInv'
<1>1. ASSUME NEW p \in Pipelines, Starting(p) PROVE ExclInv'
  <2>1. PICK c \in Command, first \in PCs : Begun(p, c, first)
    BY <1>1, StartingBegun
  <2>2. /\ cmd'[p] = c /\ dirty'[p] = UNION {Meets(r, c) : r \in Pipelines \ {p}}
        /\ \A q \in Pipelines \ {p} : cmd'[q] = cmd[q] /\ dirty'[q] = dirty[q] \union Meets(q, c)
    BY <2>1 DEF TypeOK, Begun, Starts
  <2>3. ASSUME NEW q \in Pipelines \ {p}, NEW t \in Tenants, t \in c.on, t \in cmd[q].on,
               Clean(p, t)' \/ Clean(q, t)'
        PROVE  cmd[q].op = "create" /\ c.op = "create" /\ Clean(q, t)
    BY <2>2, <2>3 DEF Clean, Meets
  <2>4. ASSUME NEW q \in Pipelines \ {p}, NEW t \in Tenants, t \in c.on, c.op = "create",
               cmd[q].op = "create", Clean(q, t)
        PROVE  Clean(p, t)' /\ Clean(q, t)'
    <3>1. \A r \in Pipelines \ {p} : t \notin Meets(r, c)
      BY <2>4 DEF ExclInv, WorkInv, Working, Clean, Meets
    <3> QED BY <2>2, <2>4, <3>1 DEF Clean
  <2>5. ASSUME NEW q \in Pipelines \ {p}, NEW r \in Pipelines \ {p}, q # r, NEW t \in Tenants,
               Clean(q, t)', t \in cmd'[r].on
        PROVE  cmd[q].op = "create" /\ cmd[r].op = "create" /\ Clean(r, t)'
    <3>1. Clean(q, t) /\ t \in cmd[r].on /\ t \notin Meets(q, c)
      BY <2>2, <2>5 DEF Clean
    <3>2. cmd[q].op = "create" /\ cmd[r].op = "create" /\ Clean(r, t)
      BY <3>1, <2>5 DEF ExclInv
    <3> QED BY <2>2, <2>5, <3>1, <3>2 DEF Clean, Meets
  <2> QED
    <3> SUFFICES ASSUME NEW q \in Pipelines, NEW r \in Pipelines, NEW t \in Tenants, q # r,
                        Clean(q, t)', t \in cmd'[r].on
                 PROVE  cmd'[q].op = "create" /\ cmd'[r].op = "create" /\ Clean(r, t)'
      BY DEF ExclInv
    <3>1. t \in cmd'[q].on
      BY DEF Clean
    <3>2. CASE q = p
      BY <2>2, <2>3, <2>4, <3>1, <3>2
    <3>3. CASE r = p
      BY <2>2, <2>3, <2>4, <3>1, <3>3
    <3>4. CASE q # p /\ r # p
      BY <2>2, <2>5, <3>4
    <3> QED BY <3>2, <3>3, <3>4
<1>2. ASSUME NEW p \in Pipelines, Ending(p) PROVE ExclInv'
  BY <1>2, EndingOthers DEF ExclInv, Clean, Locals
<1>3. ASSUME NEW p \in Pipelines, Within(p) PROVE ExclInv'
  BY <1>3, WithinOthers DEF ExclInv, Clean
<1>4. CASE Login \/ WriteSecret \/ UNCHANGED vars
  BY <1>4, Aside DEF process, history, ExclInv, Clean
<1> QED BY <1>1, <1>2, <1>3, <1>4, ThreeSteps DEF Next, Quiet

(***************************************************************************)
(* A create that is still clean.  Nothing it has done for its tenant is    *)
(* undone by the other commands that share the tenant, nor by those that   *)
(* do not.                                                                 *)
(***************************************************************************)

\* The role of kind k is there, and on a shared cluster bound to its entity.
Usable(t, k) ==
    /\ role[t][k] # 0
    /\ shared => alias[<<t, k, role[t][k]>>] = EntityName(t, k) /\ meta[EntityName(t, k)] = t

CreateProgress(p, t) ==
    LET k == Kind(p) e == EntityName(t, k) IN
    /\ pc[p] = "writeRole" /\ k = "writer" => role[t]["reader"] # 0
    /\ pc[p] \in {"readRoleId"} \union Binding =>
         /\ \A j \in Kinds : role[t][j] # 0
         /\ k = "writer" => Usable(t, "reader")
    /\ pc[p] \in Binding => rid[p] = <<t, k, role[t][k]>>
    /\ pc[p] \in Binding \ {"writeEntity"} => meta[e] = t
    /\ pc[p] \in {"lookupAlias", "unlink", "writeAlias"} => known[p]
    /\ pc[p] = "unlink" => seen[p] # e
    /\ pc[p] = "done" => \A j \in Kinds : Usable(t, j)

CreateInv ==
    \A p \in Pipelines, t \in Tenants :
        Clean(p, t) /\ cmd[p].op = "create" => CreateProgress(p, t)

LEMMA CreateInit == Init => CreateInv
BY DEF Init, CreateInv, Clean

\* Whoever works on t has met nobody, and creates.
OnlyCreates(t) == \A q \in Pipelines : t \in cmd[q].on => cmd[q].op = "create" /\ Clean(q, t)

\* What creates rely on stays.
Keeps(t) ==
    \A k \in Kinds :
        /\ role[t][k] # 0 => role'[t][k] = role[t][k]
        /\ meta[EntityName(t, k)] = t => meta'[EntityName(t, k)] = t
        /\ role[t][k] # 0 /\ alias[<<t, k, role[t][k]>>] = EntityName(t, k)
             => alias'[<<t, k, role[t][k]>>] = EntityName(t, k)

LEMMA NamesDiffer ==
    ASSUME NEW t \in Tenants, NEW u \in Tenants, NEW j \in Kinds, NEW k \in Kinds,
           EntityName(t, j) = EntityName(u, k)
    PROVE  t = u /\ j = k
BY DEF EntityName, Tenants

\* A step of a command leaves every tenant alone that the command is not about.
LEMMA Elsewhere ==
    ASSUME TypeOK, Owned, WorkInv, NEW p \in Pipelines, Within(p), NEW t \in Tenants, t \notin cmd[p].on
    PROVE  /\ role'[t] = role[t]
           /\ \A k \in Kinds : meta'[EntityName(t, k)] = meta[EntityName(t, k)]
           /\ \A r \in RoleIds : r[1] = t => alias'[r] = alias[r]
<1> DEFINE e == EntityName(Tenant(p), Kind(p))
<1> USE DEF vaultState, Goto
<1>0. Tenant(p) \in Tenants /\ Kind(p) \in Kinds /\ e \in Entities /\ rid[p] \in RoleIds
  BY WorkType, EntityNameType DEF TypeOK
<1>1. pc[p] \in Creating \union Offboarding => Tenant(p) # t
  BY DEF WorkInv, Working
<1>2. Tenant(p) # t => \A k \in Kinds : EntityName(t, k) \in Entities /\ EntityName(t, k) # e
  BY <1>0, NamesDiffer, EntityNameType
<1>3. CASE WriteRole(p)
  BY <1>0, <1>1, <1>3 DEF TypeOK, WriteRole, Creating
<1>4. CASE ReadRoleId(p) \/ ReadEntity(p) \/ LookupAlias(p)
  BY <1>4 DEF ReadRoleId, ReadEntity, LookupAlias
<1>5. CASE WriteEntity(p)
  <2>1. Tenant(p) # t /\ meta' = [meta EXCEPT ![e] = Tenant(p)] /\ UNCHANGED <<role, alias>>
    BY <1>1, <1>5 DEF WriteEntity, Creating, Binding
  <2> QED BY <1>2, <2>1 DEF TypeOK
<1>6. CASE Unlink(p) \/ WriteAlias(p)
  <2>1. rid[p][1] # t
    BY <1>1, <1>6 DEF Unlink, WriteAlias, Creating, Binding, Owned, RoleIdOfWork
  <2>2. UNCHANGED <<role, meta>> /\ \A r \in RoleIds : r # rid[p] => alias'[r] = alias[r]
    BY <1>6 DEF TypeOK, Unlink, WriteAlias
  <2> QED BY <2>1, <2>2
<1>7. CASE ListRoles(p) \/ OffboardNext(p) \/ ListSecrets(p) \/ DeleteSecrets(p)
  BY <1>7 DEF ListRoles, OffboardNext, ListSecrets, DeleteSecrets
<1>8. CASE DeleteEntity(p)
  <2>1. /\ Tenant(p) # t /\ meta' = [meta EXCEPT ![e] = None] /\ UNCHANGED role
        /\ alias' = [r \in RoleIds |-> IF alias[r] = e THEN None ELSE alias[r]]
    BY <1>1, <1>8 DEF DeleteEntity, Offboarding
  <2>2. ASSUME NEW r \in RoleIds, r[1] = t PROVE alias[r] # e
    <3>1. alias[r] \in {None, Implicit, EntityName(t, r[2])} /\ r[2] \in Kinds
      BY <2>2 DEF Owned, AliasOfOwner, RoleIds
    <3> QED BY <1>0, <1>2, <2>1, <3>1, Distinct
  <2> QED BY <1>2, <2>1, <2>2 DEF TypeOK
<1>9. CASE DeleteRole(p)
  BY <1>0, <1>1, <1>9 DEF TypeOK, DeleteRole, Offboarding
<1> QED BY <1>3, <1>4, <1>5, <1>6, <1>7, <1>8, <1>9 DEF Within

\* A clean create keeps what is there of its own tenant.
LEMMA CreateKeeps ==
    ASSUME TypeOK, WorkInv, CreateInv, NEW p \in Pipelines, Within(p), NEW t \in Tenants, Clean(p, t),
           cmd[p].op = "create"
    PROVE  Keeps(t)
<1> DEFINE k == Kind(p)  e == EntityName(t, k)
<1> USE DEF vaultState, Goto
<1>0. /\ Tenant(p) = t /\ k \in Kinds /\ e \in Entities /\ CreateProgress(p, t)
      /\ pc[p] \notin Destroying /\ \A j \in Kinds : EntityName(t, j) = e => j = k
  BY WorkType, EntityNameType, NamesDiffer DEF CreateInv, WorkInv, Working, Clean
<1>1. CASE WriteRole(p)
  BY <1>0, <1>1 DEF TypeOK, WriteRole, Keeps
<1>2. CASE ReadRoleId(p) \/ ReadEntity(p) \/ LookupAlias(p)
  BY <1>2 DEF ReadRoleId, ReadEntity, LookupAlias, Keeps
<1>3. CASE WriteEntity(p)
  <2>1. meta' = [meta EXCEPT ![e] = t] /\ UNCHANGED <<role, alias>>
    BY <1>0, <1>3 DEF WriteEntity
  <2> QED BY <1>0, <2>1, EntityNameType DEF TypeOK, Keeps
<1>4. CASE Unlink(p) \/ WriteAlias(p)
  <2>1. rid[p] = <<t, k, role[t][k]>> /\ rid[p] \in RoleIds /\ UNCHANGED <<role, meta>>
    BY <1>0, <1>4 DEF TypeOK, Unlink, WriteAlias, CreateProgress, Binding
  <2>2. \/ alias' = alias \/ alias' = [alias EXCEPT ![rid[p]] = e]
        \/ alias[rid[p]] # e /\ alias' = [alias EXCEPT ![rid[p]] = None]
    BY <1>0, <1>4 DEF Unlink, WriteAlias, CreateProgress
  <2>3. ASSUME NEW j \in Kinds, role[t][j] # 0, alias[<<t, j, role[t][j]>>] = EntityName(t, j)
        PROVE  alias'[<<t, j, role[t][j]>>] = EntityName(t, j)
    <3>1. <<t, j, role[t][j]>> \in RoleIds
      BY <2>3, RoleIdType
    <3>2. CASE j = k
      BY <2>1, <2>2, <2>3, <3>1, <3>2 DEF TypeOK
    <3>3. CASE j # k
      BY <2>1, <2>2, <2>3, <3>1, <3>3 DEF TypeOK
    <3> QED BY <3>2, <3>3
  <2> QED BY <2>1, <2>3 DEF Keeps
<1>5. ~(ListRoles(p) \/ OffboardNext(p) \/ DeleteEntity(p) \/ DeleteRole(p) \/ ListSecrets(p) \/ DeleteSecrets(p))
  BY <1>0 DEF ListRoles, OffboardNext, DeleteEntity, DeleteRole, ListSecrets, DeleteSecrets,
     Destroying, Offboarding
<1> QED BY <1>1, <1>2, <1>3, <1>4, <1>5 DEF Within

LEMMA LoginKeeps == ASSUME TypeOK, Login, NEW t \in Tenants PROVE Keeps(t)
<1>1. PICK u \in Allowed, j \in Kinds :
        LET r == <<u, j, role[u][j]>> IN
        /\ alias' = IF alias[r] = None THEN [alias EXCEPT ![r] = Implicit] ELSE alias
        /\ UNCHANGED <<role, meta>>
  BY DEF Login
<1>2. ASSUME NEW k \in Kinds, role[t][k] # 0, alias[<<t, k, role[t][k]>>] = EntityName(t, k)
      PROVE  alias'[<<t, k, role[t][k]>>] = EntityName(t, k)
  <2>1. <<t, k, role[t][k]>> \in RoleIds /\ EntityName(t, k) # None
    BY <1>2, RoleIdType, EntityNameType, Distinct
  <2> QED BY <1>1, <1>2, <2>1 DEF TypeOK
<1> QED BY <1>1, <1>2 DEF Keeps

LEMMA StaysUsable ==
    ASSUME TypeOK, Owned, WorkInv, CreateInv, [Next]_vars, NEW t \in Tenants, OnlyCreates(t)
    PROVE  Keeps(t)
<1> USE DEF vaultState
<1>1. ASSUME NEW p \in Pipelines, Starting(p) PROVE Keeps(t)
  BY <1>1, StartingBegun DEF Begun, Starts, Keeps
<1>2. ASSUME NEW p \in Pipelines, Ending(p) PROVE Keeps(t)
  BY <1>2 DEF Ending, Keeps
<1>3. ASSUME NEW p \in Pipelines, Within(p) PROVE Keeps(t)
  <2>1. CASE t \in cmd[p].on
    BY <1>3, <2>1, CreateKeeps DEF OnlyCreates
  <2>2. CASE t \notin cmd[p].on
    <3>1. \A k \in Kinds : role[t][k] # 0 => <<t, k, role[t][k]>> \in RoleIds
      BY RoleIdType
    <3> QED BY <1>3, <2>2, <3>1, Elsewhere DEF Keeps
  <2> QED BY <2>1, <2>2
<1>4. CASE Login
  BY <1>4, LoginKeeps
<1>5. CASE WriteSecret \/ UNCHANGED vars
  BY <1>5 DEF WriteSecret, vars, Keeps
<1> QED BY <1>1, <1>2, <1>3, <1>4, <1>5, ThreeSteps DEF Next, Quiet

LEMMA UsableStays ==
    ASSUME NEW t \in Tenants, Keeps(t), shared' = shared
    PROVE  \A j \in Kinds : Usable(t, j) => Usable(t, j)'
BY DEF Keeps, Usable, EntityName

\* A step of somebody else leaves a clean create where it was.
LEMMA CreateWaits ==
    ASSUME NEW p \in Pipelines, NEW t \in Tenants, CreateProgress(p, t), Keeps(t),
           Kind(p) \in Kinds, Locals(p)' = Locals(p), shared' = shared, known[p] => known'[p]
    PROVE  CreateProgress(p, t)'
<1>0. PICK k \in Kinds : k = Kind(p)
  OBVIOUS
<1>1. pc'[p] = pc[p] /\ Kind(p)' = k /\ rid'[p] = rid[p] /\ seen'[p] = seen[p]
  BY <1>0 DEF Locals, Kind
<1>2. \A j \in Kinds : Usable(t, j) => Usable(t, j)'
  BY UsableStays
<1>3. \A j \in Kinds : role[t][j] # 0 => role'[t][j] = role[t][j]
  BY DEF Keeps
<1>4. EntityName(t, k)' = EntityName(t, k) /\ (meta[EntityName(t, k)] = t => meta'[EntityName(t, k)] = t)
  BY DEF EntityName, Keeps
<1>5. "reader" \in Kinds
  BY DEF Kinds
<1> QED BY <1>0, <1>1, <1>2, <1>3, <1>4, <1>5 DEF CreateProgress, Binding

LEMMA CreateMoves ==
    ASSUME TypeOK, WorkInv, NEW p \in Pipelines, Within(p), NEW t \in Tenants,
           Clean(p, t), cmd[p].op = "create", CreateProgress(p, t), Keeps(t)
    PROVE  CreateProgress(p, t)'
<1>a. PICK k \in Kinds : k = Kind(p)
  BY WorkType
<1> DEFINE e == EntityName(t, k)
<1> USE <1>a DEF vaultState, Goto, TypeOK
<1>0. /\ Tenant(p) = t /\ at[p] = <<t, k>> /\ pc[p] \notin Destroying /\ Working(p)
      /\ e' = e /\ \A j \in Kinds : EntityName(t, j)' = EntityName(t, j)
  BY WorkType DEF WorkInv, Working, Clean, EntityName
<1>1. \A j \in Kinds : Usable(t, j) => Usable(t, j)'
  <2>1. shared' = shared
    BY WithinOthers
  <2> QED BY <2>1, UsableStays
<1>2. \A j \in Kinds : role[t][j] # 0 => role'[t][j] = role[t][j]
  BY DEF Keeps
<1>3. "reader" \in Kinds /\ "writer" \in Kinds /\ k \in {"reader", "writer"}
  BY <1>0 DEF Kinds
<1>4. CASE WriteRole(p)
  <2>1. role'[t][k] # 0 /\ shared' = shared
    <3>1. CASE role[t][k] # 0
      BY <1>0, <1>4, <3>1 DEF WriteRole
    <3>2. CASE role[t][k] = 0
      <4>1. made[t][k] \in Nat /\ role' = [role EXCEPT ![t][k] = made[t][k] + 1]
        BY <1>0, <1>4, <3>2, Bounds DEF WriteRole
      <4>2. made[t][k] + 1 # 0
        BY <4>1
      <4>3. role'[t][k] = made[t][k] + 1
        BY <1>0, <4>1
      <4> QED BY <1>4, <4>2, <4>3 DEF WriteRole
    <3> QED BY <3>1, <3>2
  <2>2. CASE k = "reader"
    <3>1. pc'[p] = "writeRole"
      BY <1>4, <2>2 DEF WriteRole
    <3> QED BY <2>1, <2>2, <3>1 DEF CreateProgress, Binding
  <2>3. CASE k = "writer"
    <3>1. /\ pc'[p] = (IF shared THEN "readRoleId" ELSE "done") /\ at'[p] = <<t, "reader">>
          /\ pc[p] = "writeRole"
      BY <1>0, <1>4, <2>3 DEF WriteRole
    <3>2. \A j \in Kinds : role'[t][j] # 0
      BY <1>2, <1>3, <2>1, <2>3, <3>1 DEF CreateProgress, Kinds
    <3>3. Kind(p)' = "reader"
      BY <3>1 DEF Kind
    <3> QED BY <2>1, <3>1, <3>2, <3>3 DEF CreateProgress, Binding, Usable
  <2> QED BY <1>3, <2>2, <2>3
<1>5. CASE ReadRoleId(p)
  <2>1. /\ rid'[p] = <<t, k, role[t][k]>> /\ pc'[p] = "writeEntity" /\ at' = at /\ pc[p] = "readRoleId"
        /\ UNCHANGED <<shared, role>>
    BY <1>0, <1>5 DEF ReadRoleId
  <2>2. Kind(p)' = k
    BY <2>1 DEF Kind
  <2> QED BY <1>1, <1>3, <2>1, <2>2 DEF CreateProgress, Binding
<1>6. CASE WriteEntity(p) \/ (ReadEntity(p) /\ ~Ends(p)) \/ Unlink(p)
  <2>1. /\ UNCHANGED <<shared, role, at, rid>>
        /\ pc[p] \in Binding
        /\ pc'[p] \in {"readEntity", "lookupAlias", "writeAlias"}
        /\ pc'[p] \in {"lookupAlias", "writeAlias"} => known'[p] /\ pc[p] \in Binding \ {"writeEntity"}
        /\ pc[p] = "writeEntity" => meta'[e] = t
    <3>1. CASE WriteEntity(p)
      <4>1. e \in Entities
        BY <1>0, EntityNameType
      <4> QED BY <1>0, <3>1, <4>1 DEF WriteEntity, Binding
    <3>2. CASE ReadEntity(p) /\ ~Ends(p)
      BY <1>0, <3>2 DEF ReadEntity, Binding
    <3>3. CASE Unlink(p)
      BY <1>0, <3>3 DEF Unlink, Binding, CreateProgress
    <3> QED BY <1>6, <3>1, <3>2, <3>3
  <2>2. Kind(p)' = k /\ (meta[e] = t => meta'[e] = t)
    BY <1>0, <2>1 DEF Kind, Keeps
  <2> QED BY <1>0, <1>1, <1>3, <2>1, <2>2 DEF CreateProgress, Binding
<1>7. CASE LookupAlias(p) \/ (WriteAlias(p) /\ ~Ends(p))
  <2>1. /\ UNCHANGED <<shared, role, meta, rid, known>> /\ pc[p] \in {"lookupAlias", "writeAlias"}
        /\ rid[p] = <<t, k, role[t][k]>> /\ rid[p] \in RoleIds /\ role[t][k] # 0 /\ meta[e] = t /\ known[p]
    BY <1>0, <1>7 DEF LookupAlias, WriteAlias, CreateProgress, Binding
  <2>2. \/ Bound(p) /\ alias'[rid[p]] = e
        \/ LookupAlias(p) /\ UNCHANGED at /\ pc'[p] \in {"writeAlias", "unlink"} /\ seen'[p] # e
    BY <1>0, <1>7, <2>1 DEF LookupAlias, WriteAlias
  <2>3. CASE Bound(p) /\ alias'[rid[p]] = e
    <3>1. Usable(t, k)'
      BY <1>0, <2>1, <2>3 DEF Usable
    <3>2. CASE k = "reader"
      <4>1. pc'[p] = "readRoleId"
        BY <2>3, <3>2 DEF Bound
      <4> QED BY <1>2, <2>1, <3>1, <3>2, <4>1 DEF CreateProgress, Binding
    <3>3. CASE k = "writer"
      <4>1. pc'[p] = "done" /\ Usable(t, "reader")
        BY <2>1, <2>3, <3>3 DEF Bound, CreateProgress, Binding
      <4> QED BY <1>1, <1>3, <2>1, <3>1, <3>3, <4>1 DEF CreateProgress, Binding, Kinds
    <3> QED BY <1>3, <3>2, <3>3
  <2>4. CASE LookupAlias(p) /\ UNCHANGED at /\ pc'[p] \in {"writeAlias", "unlink"} /\ seen'[p] # e
    <3>1. Kind(p)' = k
      BY <2>4 DEF Kind
    <3> QED BY <1>0, <1>1, <1>3, <2>1, <2>4, <3>1 DEF CreateProgress, Binding
  <2> QED BY <2>2, <2>3, <2>4
<1>8. ~(ListRoles(p) \/ OffboardNext(p) \/ DeleteEntity(p) \/ DeleteRole(p) \/ ListSecrets(p) \/ DeleteSecrets(p))
  BY <1>0 DEF ListRoles, OffboardNext, DeleteEntity, DeleteRole, ListSecrets, DeleteSecrets,
     Destroying, Offboarding
<1> QED BY <1>4, <1>5, <1>6, <1>7, <1>8 DEF Within

\* Offboarding one tenant leaves the entity IDs of the others alone.
LEMMA KnownStays ==
    ASSUME TypeOK, NEW q \in Pipelines, Within(q), NEW p \in Pipelines \ {q},
           pc[q] \in Offboarding => Tenant(p) # Tenant(q), known[p]
    PROVE  known'[p]
<1> USE DEF vaultState, Goto, TypeOK
<1>1. CASE DeleteEntity(q)
  <2>1. Tenant(p) # Tenant(q)
    BY <1>1 DEF DeleteEntity, Offboarding
  <2>2. EntityName(Tenant(p), Kind(p)) # EntityName(Tenant(q), Kind(q))
    BY <2>1, WorkType, NamesDiffer
  <2> QED BY <1>1, <2>2 DEF DeleteEntity
<1>2. CASE ~DeleteEntity(q)
  BY <1>2 DEF Within, WriteRole, ReadRoleId, WriteEntity, ReadEntity, LookupAlias, Unlink, WriteAlias, Ends,
     ListRoles, OffboardNext, DeleteRole, ListSecrets, DeleteSecrets
<1> QED BY <1>1, <1>2

LEMMA CreateStep ==
    ASSUME TypeOK, Owned, WorkInv, ExclInv, CreateInv, [Next]_vars
    PROVE  CreateInv'
<1> SUFFICES ASSUME NEW p \in Pipelines, NEW t \in Tenants, Clean(p, t)', cmd'[p].op = "create"
             PROVE  CreateProgress(p, t)'
  BY DEF CreateInv
<1>1. ASSUME Clean(p, t), cmd[p].op = "create"
      PROVE  Keeps(t) /\ CreateProgress(p, t) /\ Tenant(p) = t /\ Kind(p) \in Kinds
  <2>1. OnlyCreates(t)
    BY <1>1 DEF ExclInv, OnlyCreates
  <2> QED BY <1>1, <2>1, StaysUsable, WorkType DEF CreateInv, WorkInv, Working, Clean
<1>2. ASSUME NEW q \in Pipelines, Starting(q) PROVE CreateProgress(p, t)'
  <2>1. PICK c \in Command, first \in PCs : Begun(q, c, first)
    BY <1>2, StartingBegun
  <2>2. CASE q = p
    <3>1. pc'[p] = "writeRole" /\ at'[p][2] = "reader"
      BY <2>1, <2>2 DEF TypeOK, Begun, Starts
    <3> QED BY <3>1 DEF CreateProgress, Binding, Kind
  <2>3. CASE q # p
    <3>1. /\ Locals(p)' = Locals(p) /\ dirty[p] \subseteq dirty'[p] /\ shared' = shared /\ known' = known
          /\ cmd'[p] = cmd[p]
      BY <2>1, <2>3 DEF TypeOK, Begun, Starts, Locals
    <3> QED BY <1>1, <3>1, CreateWaits DEF Clean
  <2> QED BY <2>2, <2>3
<1>3. ASSUME NEW q \in Pipelines, Ending(q) PROVE CreateProgress(p, t)'
  <2>1. q # p
    BY <1>3, EndingOthers DEF Clean
  <2>2. Locals(p)' = Locals(p) /\ dirty'[p] = dirty[p] /\ shared' = shared /\ known'[p] = known[p]
    BY <1>3, <2>1, EndingOthers
  <2> QED BY <1>1, <2>2, CreateWaits DEF Clean, Locals
<1>4. ASSUME NEW q \in Pipelines, Within(q) PROVE CreateProgress(p, t)'
  <2>1. UNCHANGED <<shared, cmd, dirty>> /\ \A r \in Pipelines \ {q} : Locals(r)' = Locals(r)
    BY <1>4, WithinOthers
  <2>2. Clean(p, t) /\ cmd[p].op = "create"
    BY <2>1 DEF Clean
  <2>3. CASE q = p
    BY <1>1, <1>4, <2>2, <2>3, CreateMoves
  <2>4. CASE q # p
    <3>1. pc[q] \in Offboarding => Tenant(p) # Tenant(q)
      BY <1>1, <2>2, <2>4 DEF ExclInv, WorkInv, Working, Destroying
    <3>2. known[p] => known'[p]
      BY <1>4, <2>4, <3>1, KnownStays
    <3> QED BY <1>1, <2>1, <2>2, <2>4, <3>2, CreateWaits
  <2> QED BY <2>3, <2>4
<1>5. CASE Login \/ WriteSecret \/ UNCHANGED vars
  <2>1. Clean(p, t) /\ cmd[p].op = "create" /\ Locals(p)' = Locals(p) /\ shared' = shared /\ known' = known
    BY <1>5, Aside DEF process, history, Clean, Locals
  <2> QED BY <1>1, <2>1, CreateWaits
<1> QED BY <1>2, <1>3, <1>4, <1>5, ThreeSteps DEF Next, Quiet

(***************************************************************************)
(* A destroy that is still clean has its tenants to itself.                *)
(***************************************************************************)

\* There is no role of kind k, and after a destroy of the tenant no entity either.
Free(p, t, k) ==
    /\ role[t][k] = 0
    /\ shared /\ cmd[p].op = "destroy" => meta[EntityName(t, k)] = None

DestroyProgress(p, t) ==
    /\ pc[p] = "listWriters" /\ t \notin todo[p] => role[t]["reader"] = 0
    /\ pc[p] = "next" /\ t \notin todo[p] => \A k \in Kinds : Free(p, t, k)
    /\ pc[p] \in Offboarding /\ t \notin todo[p] =>
         /\ t # Tenant(p) => \A k \in Kinds : Free(p, t, k)
         /\ t = Tenant(p) /\ Kind(p) = "writer" => Free(p, t, "reader")
    /\ pc[p] = "deleteRole" /\ t = Tenant(p) /\ shared => meta[EntityName(t, Kind(p))] = None
    /\ pc[p] \in {"listSecrets", "deleteSecrets", "done"} => \A k \in Kinds : Free(p, t, k)
    /\ pc[p] = "deleteSecrets" /\ shared /\ cmd[p].op = "destroy" /\ secret[t] => t \in listed[p]
    /\ pc[p] = "done" /\ shared /\ cmd[p].op = "destroy" /\ cmd[p].purge => ~secret[t]

DestroyInv ==
    \A p \in Pipelines, t \in Tenants :
        Clean(p, t) /\ cmd[p].op # "create" => DestroyProgress(p, t)

LEMMA DestroyInit == Init => DestroyInv
BY DEF Init, DestroyInv, Clean

\* Without its entities no token reaches a tenant.
Unreached(t) == shared /\ \A k \in Kinds : meta[EntityName(t, k)] = None

LEMMA NoReach ==
    ASSUME TypeOK, Owned, NEW t \in Tenants, Unreached(t), NEW k \in tokens
    PROVE  Reaches(k) # t
<1>1. t # None /\ shared
  BY Distinct DEF Unreached
<1>2. CASE k.entity = Implicit
  BY <1>1, <1>2 DEF Reaches
<1>3. CASE k.entity # Implicit
  <2>1. PICK e \in Entities : e = k.entity
    BY <1>3 DEF TypeOK
  <2>2. meta[e] \in {None, [env |-> e[2], id |-> e[3]]}
    BY DEF Owned, MetaOfEntity
  <2>3. e[1] \in Kinds /\ e = <<e[1], e[2], e[3]>>
    BY DEF Entities
  <2>4. t = [env |-> e[2], id |-> e[3]] => EntityName(t, e[1]) = e
    BY <2>3 DEF EntityName
  <2>5. meta[e] # t
    BY <1>1, <2>2, <2>3, <2>4 DEF Unreached
  <2> QED BY <1>1, <1>3, <2>1, <2>5 DEF Reaches
<1> QED BY <1>2, <1>3

\* Nor does anybody write its secrets.
LEMMA NoSecret ==
    ASSUME TypeOK, Owned, NEW t \in Tenants, Unreached(t), [Next]_vars, secret'[t]
    PROVE  secret[t]
<1> USE DEF vaultState, vars
<1>1. CASE WriteSecret
  <2>1. PICK k \in tokens : secret' = [secret EXCEPT ![Reaches(k)] = TRUE]
    BY <1>1 DEF WriteSecret
  <2> QED BY <2>1, NoReach DEF TypeOK
<1>2. CASE Login \/ UNCHANGED vars
  BY <1>2 DEF Login
<1>3. ASSUME NEW p \in Pipelines, Starting(p) PROVE secret[t]
  BY <1>3, StartingBegun DEF Begun, Starts
<1>4. ASSUME NEW p \in Pipelines, Ending(p) PROVE secret[t]
  BY <1>4 DEF Ending
<1>5. ASSUME NEW p \in Pipelines, Within(p) PROVE secret[t]
  <2>1. CASE DeleteSecrets(p)
    BY <2>1 DEF TypeOK, DeleteSecrets
  <2>2. CASE ~DeleteSecrets(p)
    BY <1>5, <2>2 DEF Within, WriteRole, ReadRoleId, WriteEntity, ReadEntity, LookupAlias, Unlink, WriteAlias,
       ListRoles, OffboardNext, DeleteEntity, DeleteRole, ListSecrets
  <2> QED BY <2>1, <2>2
<1> QED BY <1>1, <1>2, <1>3, <1>4, <1>5, ThreeSteps DEF Next, Quiet

\* t's roles and entities are as they were.
Untouched(t) ==
    /\ role'[t] = role[t] /\ shared' = shared
    /\ \A k \in Kinds : meta'[EntityName(t, k)] = meta[EntityName(t, k)]

\* Commands start and end without touching a tenant.
LEMMA StartsUntouched ==
    ASSUME TypeOK, NEW p \in Pipelines, Starting(p) \/ Ending(p), NEW t \in Tenants
    PROVE  Untouched(t)
<1>1. CASE Starting(p)
  BY <1>1, StartingBegun DEF Begun, Starts, vaultState, Untouched
<1>2. CASE Ending(p)
  BY <1>2 DEF Ending, vaultState, Untouched
<1> QED BY <1>1, <1>2

LEMMA DestroyWaits ==
    ASSUME NEW p \in Pipelines, NEW t \in Tenants, DestroyProgress(p, t), Locals(p)' = Locals(p),
           Untouched(t), Kind(p) \in Kinds, Unreached(t) /\ secret'[t] => secret[t]
    PROVE  DestroyProgress(p, t)'
<1>0. PICK j \in Kinds : j = Kind(p)
  OBVIOUS
<1>1. /\ pc'[p] = pc[p] /\ cmd'[p] = cmd[p] /\ todo'[p] = todo[p] /\ listed'[p] = listed[p]
      /\ Tenant(p)' = Tenant(p) /\ Kind(p)' = j
  BY <1>0 DEF Locals, Tenant, Kind
<1>2. \A k \in Kinds : Free(p, t, k)' <=> Free(p, t, k)
  BY <1>1 DEF Free, Untouched, EntityName
<1>3. meta'[EntityName(t, j)'] = meta[EntityName(t, j)] /\ "reader" \in Kinds
  BY DEF EntityName, Kinds, Untouched
<1>4. (\A k \in Kinds : Free(p, t, k)) /\ shared /\ cmd[p].op = "destroy" => Unreached(t)
  BY DEF Free, Unreached
<1> QED BY <1>0, <1>1, <1>2, <1>3, <1>4 DEF DestroyProgress, Untouched

LEMMA DestroyMoves ==
    ASSUME TypeOK, WorkInv, NEW p \in Pipelines, Within(p), NEW t \in Tenants,
           Clean(p, t), cmd[p].op # "create", DestroyProgress(p, t)
    PROVE  DestroyProgress(p, t)'
<1>a. PICK k \in Kinds : k = Kind(p)
  BY WorkType
<1> USE <1>a DEF vaultState, Goto, TypeOK, Clean
<1>0. /\ Working(p) /\ pc[p] \notin Creating /\ at[p] = <<Tenant(p), k>> /\ Tenant(p) \in Tenants
      /\ UNCHANGED <<cmd, shared>> /\ \A j \in Kinds : EntityName(t, j)' = EntityName(t, j)
  BY WorkType, WithinOthers DEF WorkInv, Working, EntityName
<1>1. \A j \in Kinds : /\ role'[t][j] \in {0, role[t][j]}
                       /\ meta[EntityName(t, j)] = None => meta'[EntityName(t, j)] = None
                     => (Free(p, t, j) => Free(p, t, j)')
  BY <1>0 DEF Free
<1>2. "reader" \in Kinds /\ "writer" \in Kinds /\ k \in {"reader", "writer"}
  BY DEF Kinds
<1>3. CASE ListRoles(p)
  <2>1. PICK j \in Kinds :
          /\ pc[p] = IF j = "reader" THEN "listReaders" ELSE "listWriters"
          /\ pc'[p] = IF j = "reader" THEN "listWriters" ELSE "next"
          /\ todo'[p] = todo[p] \union {u \in cmd[p].on : role[u][j] # 0}
          /\ UNCHANGED <<role, meta>>
    BY <1>3 DEF ListRoles
  <2>2. t \notin todo'[p] => t \notin todo[p] /\ role[t][j] = 0
    BY <2>1
  <2>3. CASE j = "reader"
    BY <2>1, <2>2, <2>3 DEF DestroyProgress, Offboarding
  <2>4. CASE j = "writer"
    <3>1. cmd[p].op = "destroyEnv" /\ pc[p] = "listWriters" /\ pc'[p] = "next"
      BY <1>0, <2>1, <2>4 DEF Working
    <3>2. t \notin todo'[p] => \A i \in Kinds : role'[t][i] = 0
      BY <2>1, <2>2, <2>4, <3>1 DEF DestroyProgress, Kinds
    <3> QED BY <1>0, <3>1, <3>2 DEF DestroyProgress, Free, Offboarding
  <2> QED BY <2>3, <2>4 DEF Kinds
<1>4. CASE OffboardNext(p)
  <2>1. pc[p] = "next" /\ UNCHANGED <<role, meta, secret>>
    BY <1>4 DEF OffboardNext
  <2>2. \A j \in Kinds : Free(p, t, j) => Free(p, t, j)'
    BY <1>1, <2>1
  <2>3. ASSUME NEW u \in todo[p], at'[p] = <<u, "reader">>, todo'[p] = todo[p] \ {u},
               pc'[p] = IF shared THEN "deleteEntity" ELSE "deleteRole"
        PROVE  DestroyProgress(p, t)'
    <3>1. Tenant(p)' = u /\ Kind(p)' = "reader"
      BY <2>3 DEF Tenant, Kind
    <3>2. t \notin todo'[p] => t = u \/ t \notin todo[p]
      BY <2>3
    <3> QED BY <1>0, <2>1, <2>2, <2>3, <3>1, <3>2 DEF DestroyProgress, Offboarding
  <2>4. ASSUME todo[p] = {}, pc'[p] = IF cmd[p].purge THEN "listSecrets" ELSE "done"
        PROVE  DestroyProgress(p, t)'
    <3>1. \A j \in Kinds : Free(p, t, j)'
      BY <2>1, <2>2, <2>4 DEF DestroyProgress
    <3> QED BY <1>0, <2>4, <3>1 DEF DestroyProgress, Offboarding
  <2> QED BY <1>4, <2>3, <2>4 DEF OffboardNext
<1>5. CASE DeleteEntity(p)
  <2> DEFINE e == EntityName(Tenant(p), k)
  <2>1. /\ pc[p] = "deleteEntity" /\ pc'[p] = "deleteRole" /\ UNCHANGED <<role, at, todo>>
        /\ meta' = [meta EXCEPT ![e] = None]
    BY <1>5 DEF DeleteEntity
  <2>2. \A j \in Kinds : EntityName(t, j) \in Entities
    BY EntityNameType
  <2>3. \A j \in Kinds : Free(p, t, j) => Free(p, t, j)'
    BY <1>1, <2>1, <2>2
  <2>4. Tenant(p)' = Tenant(p) /\ Kind(p)' = k /\ (t = Tenant(p) => meta'[EntityName(t, k)] = None)
    BY <2>1, <2>2 DEF Tenant, Kind
  <2> QED BY <1>0, <1>2, <2>1, <2>3, <2>4 DEF DestroyProgress, Offboarding
<1>6. CASE DeleteRole(p)
  <2> DEFINE u == Tenant(p)
  <2>1. /\ pc[p] = "deleteRole" /\ UNCHANGED <<meta, todo>>
        /\ role' = [role EXCEPT ![u][k] = 0]
    BY <1>6 DEF DeleteRole
  <2>2. \A j \in Kinds : role'[t][j] \in {0, role[t][j]} /\ (t = u /\ j = k => role'[t][j] = 0)
    BY <1>0, <2>1
  <2>3. \A j \in Kinds : Free(p, t, j) => Free(p, t, j)'
    BY <1>1, <2>1, <2>2
  <2>4. t = u => Free(p, t, k)'
    BY <1>0, <2>1, <2>2 DEF DestroyProgress, Free
  <2>5. CASE k = "reader"
    <3>1. pc'[p] = (IF shared THEN "deleteEntity" ELSE "deleteRole") /\ at'[p] = <<u, "writer">>
      BY <1>6, <2>5 DEF DeleteRole
    <3>2. Tenant(p)' = u /\ Kind(p)' = "writer"
      BY <3>1 DEF Tenant, Kind
    <3> QED BY <1>0, <1>2, <2>1, <2>3, <2>4, <2>5, <3>1, <3>2 DEF DestroyProgress, Offboarding
  <2>6. CASE k = "writer"
    <3>1. pc'[p] = "next"
      BY <1>6, <2>6 DEF DeleteRole
    <3>2. t \notin todo[p] => \A j \in Kinds : Free(p, t, j)'
      BY <2>1, <2>3, <2>4, <2>6 DEF DestroyProgress, Offboarding, Kinds
    <3> QED BY <2>1, <3>1, <3>2 DEF DestroyProgress, Offboarding
  <2> QED BY <1>2, <2>5, <2>6
<1>7. CASE ListSecrets(p) \/ DeleteSecrets(p)
  <2>1. /\ UNCHANGED <<role, meta>> /\ pc[p] \in {"listSecrets", "deleteSecrets"}
        /\ pc'[p] \in {"deleteSecrets", "done"}
    BY <1>7 DEF ListSecrets, DeleteSecrets
  <2>2. \A j \in Kinds : Free(p, t, j)'
    BY <1>1, <2>1 DEF DestroyProgress
  <2>3. shared /\ cmd[p].op = "destroy" /\ secret'[t] => pc'[p] = "deleteSecrets" /\ t \in listed'[p]
    <3>1. CASE ListSecrets(p)
      BY <3>1 DEF ListSecrets
    <3>2. CASE DeleteSecrets(p)
      <4>1. ASSUME NEW u \in listed[p], secret' = [secret EXCEPT ![u] = FALSE],
                   listed' = [listed EXCEPT ![p] = @ \ {u}], UNCHANGED pc
            PROVE  secret'[t] => t \in listed'[p] \/ t \notin listed[p]
        BY <4>1
      <4> QED BY <3>2, <4>1 DEF DeleteSecrets, DestroyProgress
    <3> QED BY <1>7, <3>1, <3>2
  <2> QED BY <1>0, <2>1, <2>2, <2>3 DEF DestroyProgress, Offboarding
<1>8. ~(WriteRole(p) \/ ReadRoleId(p) \/ WriteEntity(p) \/ ReadEntity(p) \/ LookupAlias(p) \/ Unlink(p) \/ WriteAlias(p))
  BY <1>0 DEF WriteRole, ReadRoleId, WriteEntity, ReadEntity, LookupAlias, Unlink, WriteAlias, Creating, Binding
<1> QED BY <1>3, <1>4, <1>5, <1>6, <1>7, <1>8 DEF Within

LEMMA DestroyStep ==
    ASSUME TypeOK, Owned, WorkInv, ExclInv, DestroyInv, [Next]_vars
    PROVE  DestroyInv'
<1> SUFFICES ASSUME NEW p \in Pipelines, NEW t \in Tenants, Clean(p, t)', cmd'[p].op # "create"
             PROVE  DestroyProgress(p, t)'
  BY DEF DestroyInv
<1>1. ASSUME Clean(p, t), cmd[p].op # "create", Locals(p)' = Locals(p), Untouched(t)
      PROVE  DestroyProgress(p, t)'
  BY <1>1, NoSecret, WorkType, DestroyWaits DEF DestroyInv
<1>2. ASSUME NEW q \in Pipelines, Starting(q) PROVE DestroyProgress(p, t)'
  <2>1. PICK c \in Command, first \in PCs : Begun(q, c, first)
    BY <1>2, StartingBegun
  <2>2. CASE q = p
    <3>1. /\ cmd'[p] = c /\ pc'[p] = first /\ first \in {"next", "listReaders"}
          /\ first = "next" => \E u \in Tenants : c.on = {u} /\ todo'[p] = {u}
      BY <2>1, <2>2 DEF TypeOK, Begun, Starts
    <3> QED BY <3>1 DEF DestroyProgress, Offboarding, Clean
  <2>3. CASE q # p
    <3>1. Locals(p)' = Locals(p) /\ dirty[p] \subseteq dirty'[p] /\ cmd'[p] = cmd[p]
      BY <2>1, <2>3 DEF TypeOK, Begun, Starts, Locals
    <3> QED BY <1>1, <1>2, <3>1, StartsUntouched DEF Clean
  <2> QED BY <2>2, <2>3
<1>3. ASSUME NEW q \in Pipelines, Ending(q) PROVE DestroyProgress(p, t)'
  <2>1. q # p
    BY <1>3, EndingOthers DEF Clean
  <2>2. Locals(p)' = Locals(p) /\ dirty'[p] = dirty[p] /\ cmd'[p] = cmd[p]
    BY <1>3, <2>1, EndingOthers DEF Locals
  <2> QED BY <1>1, <1>3, <2>2, StartsUntouched DEF Clean
<1>4. ASSUME NEW q \in Pipelines, Within(q) PROVE DestroyProgress(p, t)'
  <2>1. UNCHANGED <<cmd, dirty>> /\ \A r \in Pipelines \ {q} : Locals(r)' = Locals(r)
    BY <1>4, WithinOthers
  <2>2. Clean(p, t) /\ cmd[p].op # "create"
    BY <2>1 DEF Clean
  <2>3. CASE q = p
    BY <1>4, <2>2, <2>3, DestroyMoves DEF DestroyInv
  <2>4. CASE q # p
    <3>1. t \notin cmd[q].on
      BY <2>2, <2>4 DEF ExclInv
    <3>2. Untouched(t)
      BY <1>4, <2>1, <3>1, WithinOthers, Elsewhere DEF Untouched
    <3> QED BY <1>1, <2>1, <2>2, <2>4, <3>2
  <2> QED BY <2>3, <2>4
<1>5. CASE Login \/ WriteSecret \/ UNCHANGED vars
  <2>1. Clean(p, t) /\ cmd[p].op # "create" /\ Locals(p)' = Locals(p)
    BY <1>5, Aside DEF process, history, Clean, Locals
  <2>2. Untouched(t)
    BY <1>5, Aside DEF Untouched
  <2> QED BY <1>1, <2>1, <2>2
<1> QED BY <1>2, <1>3, <1>4, <1>5, ThreeSteps DEF Next, Quiet

(***************************************************************************)
(* What a command that has ended leaves stays, until another starts on the *)
(* tenant.                                                                 *)
(***************************************************************************)

Settled(t) ==
    /\ settled[t] # "unknown" => OnlyCreates(t)
    /\ settled[t] \notin {"unknown", "created"} => \A q \in Pipelines : t \notin cmd[q].on
    /\ settled[t] = "created" => \A k \in Kinds : Usable(t, k)
    /\ settled[t] \in {"gone", "purged", "envGone"} => \A k \in Kinds : role[t][k] = 0
    /\ settled[t] \in {"gone", "purged"} /\ shared => Unreached(t)
    /\ settled[t] = "purged" /\ shared => ~secret[t]

SettledInv == \A t \in Tenants : Settled(t)

LEMMA SettledInit == Init => SettledInv
BY DEF Init, SettledInv, Settled

\* A step that leaves t's outcome, and starts no command on t, keeps what is settled.
LEMMA SettledWaits ==
    ASSUME TypeOK, Owned, WorkInv, CreateInv, [Next]_vars, NEW t \in Tenants, Settled(t),
           settled'[t] = settled[t], shared' = shared,
           \A q \in Pipelines : t \in cmd'[q].on => cmd'[q] = cmd[q] /\ (Clean(q, t) => Clean(q, t)'),
           settled[t] \in {"gone", "purged", "envGone"} => Untouched(t)
    PROVE  Settled(t)'
<1>1. settled'[t] # "unknown" => OnlyCreates(t)'
  BY DEF Settled, OnlyCreates
<1>2. settled'[t] \notin {"unknown", "created"} => \A q \in Pipelines : t \notin cmd'[q].on
  BY DEF Settled
<1>3. settled'[t] = "created" => \A k \in Kinds : Usable(t, k)'
  BY StaysUsable, UsableStays DEF Settled
<1>4. settled'[t] \in {"gone", "purged", "envGone"} => \A k \in Kinds : role'[t][k] = 0
  BY DEF Settled, Untouched
<1>5. settled'[t] \in {"gone", "purged"} /\ shared' => Unreached(t)'
  BY DEF Settled, Untouched, Unreached, EntityName
<1>6. settled'[t] = "purged" /\ shared' => ~secret'[t]
  BY NoSecret DEF Settled
<1> QED BY <1>1, <1>2, <1>3, <1>4, <1>5, <1>6 DEF Settled

\* A command that ends well, and that nobody met on t, leaves what it promises.
LEMMA SettledByFinish ==
    ASSUME TypeOK, WorkInv, ExclInv, CreateInv, DestroyInv,
           NEW p \in Pipelines, Ending(p), Finish(p), NEW t \in Tenants, Clean(p, t)
    PROVE  Settled(t)'
<1>1. /\ pc[p] = "done" /\ UNCHANGED <<shared, role, alias, meta, secret>>
      /\ cmd'[p].on = {} /\ \A q \in Pipelines \ {p} : cmd'[q] = cmd[q] /\ dirty'[q] = dirty[q]
  <2>1. pc[p] = "done"
    BY DEF Finish
  <2> QED BY <2>1, EndingOthers DEF vaultState, Locals
<1>2. \A j \in Kinds : EntityName(t, j)' = EntityName(t, j)
  BY DEF EntityName
<1>3. ASSUME NEW q \in Pipelines, t \in cmd'[q].on
      PROVE  cmd[p].op = "create" /\ cmd'[q].op = "create" /\ Clean(q, t)'
  <2>1. q # p
    BY <1>1, <1>3
  <2> QED BY <1>1, <1>3, <2>1 DEF ExclInv, Clean
<1>4. CASE cmd[p].op = "create"
  <2>1. settled'[t] = "created"
    BY <1>4 DEF Finish, Clean
  <2>2. \A j \in Kinds : Usable(t, j)
    BY <1>1, <1>4 DEF CreateInv, CreateProgress
  <2>3. \A j \in Kinds : Usable(t, j)'
    BY <1>1, <1>2, <2>2 DEF Usable
  <2> QED BY <1>3, <2>1, <2>3 DEF Settled, OnlyCreates
<1>5. CASE cmd[p].op # "create"
  <2>1. settled'[t] = IF cmd[p].op = "destroyEnv" THEN "envGone"
                      ELSE IF cmd[p].purge THEN "purged" ELSE "gone"
    BY <1>5 DEF Finish, Clean
  <2>2. \A q \in Pipelines : t \notin cmd'[q].on
    BY <1>3, <1>5
  <2>3. DestroyProgress(p, t)
    BY <1>5 DEF DestroyInv
  <2>4. \A k \in Kinds : Free(p, t, k)
    BY <1>1, <2>3 DEF DestroyProgress
  <2>5. \A k \in Kinds : role'[t][k] = 0
    BY <1>1, <2>4 DEF Free
  <2>6. CASE cmd[p].op = "destroyEnv"
    BY <2>1, <2>2, <2>5, <2>6 DEF Settled, OnlyCreates
  <2>7. CASE cmd[p].op = "destroy"
    <3>1. shared' => Unreached(t)'
      BY <1>1, <1>2, <2>4, <2>7 DEF Free, Unreached
    <3>2. settled'[t] = "purged" /\ shared' => ~secret'[t]
      BY <1>1, <2>1, <2>3, <2>7 DEF DestroyProgress
    <3> QED BY <2>1, <2>2, <2>5, <2>7, <3>1, <3>2 DEF Settled, OnlyCreates
  <2> QED BY <1>5, <2>6, <2>7 DEF TypeOK
<1> QED BY <1>4, <1>5

LEMMA SettledStep ==
    ASSUME TypeOK, Owned, WorkInv, ExclInv, CreateInv, DestroyInv, SettledInv, [Next]_vars
    PROVE  SettledInv'
<1> SUFFICES ASSUME NEW t \in Tenants PROVE Settled(t)'
  BY DEF SettledInv
<1>0. Settled(t)
  BY DEF SettledInv
<1>1. ASSUME NEW p \in Pipelines, Starting(p) PROVE Settled(t)'
  <2>1. PICK c \in Command, first \in PCs : Begun(p, c, first)
    BY <1>1, StartingBegun
  <2>2. CASE t \in c.on
    <3>1. settled'[t] = "unknown"
      BY <2>1, <2>2 DEF Begun, Starts
    <3> QED BY <3>1 DEF Settled
  <2>3. CASE t \notin c.on
    <3>1. settled'[t] = settled[t] /\ Untouched(t)
      BY <1>1, <2>1, <2>3, StartsUntouched DEF Begun, Starts
    <3>2. ASSUME NEW q \in Pipelines, t \in cmd'[q].on
          PROVE  cmd'[q] = cmd[q] /\ (Clean(q, t) => Clean(q, t)')
      <4>1. q # p
        BY <2>1, <2>3, <3>2 DEF TypeOK, Begun, Starts
      <4>2. cmd'[q] = cmd[q] /\ dirty'[q] = dirty[q] \union Meets(q, c) /\ t \notin Meets(q, c)
        BY <2>1, <2>3, <4>1 DEF TypeOK, Begun, Starts, Meets
      <4> QED BY <4>2 DEF Clean
    <3>3. shared' = shared
      BY <3>1 DEF Untouched
    <3> QED BY <1>0, <3>1, <3>2, <3>3, SettledWaits
  <2> QED BY <2>2, <2>3
<1>2. ASSUME NEW p \in Pipelines, Ending(p), Finish(p) \/ UNCHANGED settled PROVE Settled(t)'
  <2>1. CASE Finish(p) /\ Clean(p, t)
    BY <1>2, <2>1, SettledByFinish
  <2>2. CASE ~(Finish(p) /\ Clean(p, t))
    <3>1. settled'[t] = settled[t] /\ Untouched(t)
      BY <1>2, <2>2, StartsUntouched DEF Finish, Clean
    <3>2. \A q \in Pipelines : t \in cmd'[q].on => cmd'[q] = cmd[q] /\ (Clean(q, t) => Clean(q, t)')
      BY <1>2, EndingOthers DEF Clean, Locals
    <3>3. shared' = shared
      BY <3>1 DEF Untouched
    <3> QED BY <1>0, <3>1, <3>2, <3>3, SettledWaits
  <2> QED BY <2>1, <2>2
<1>3. ASSUME NEW p \in Pipelines, Within(p) PROVE Settled(t)'
  <2>1. UNCHANGED <<shared, cmd, dirty, settled>>
    BY <1>3, WithinOthers
  <2>2. settled[t] \in {"gone", "purged", "envGone"} => Untouched(t)
    BY <1>0, <1>3, <2>1, Elsewhere DEF Settled, Untouched
  <2>3. \A q \in Pipelines : Clean(q, t) => Clean(q, t)'
    BY <2>1 DEF Clean
  <2> QED BY <1>0, <2>1, <2>2, <2>3, SettledWaits
<1>4. CASE Login \/ WriteSecret \/ UNCHANGED vars
  <2>1. UNCHANGED <<shared, cmd, dirty, settled, role, meta>>
    BY <1>4, Aside DEF process, history
  <2>2. Untouched(t) /\ \A q \in Pipelines : Clean(q, t) => Clean(q, t)'
    BY <2>1 DEF Untouched, Clean
  <2> QED BY <1>0, <2>1, <2>2, SettledWaits
<1> QED BY <1>1, <1>2, <1>3, <1>4, ThreeSteps DEF Next, Quiet

-----------------------------------------------------------------------------
(* The theorems                                                            *)

OutcomesInv == TypeOK /\ Owned /\ WorkInv /\ ExclInv /\ CreateInv /\ DestroyInv /\ SettledInv

LEMMA OutcomesInductive == Spec => []OutcomesInv
<1>1. Init => OutcomesInv
  BY InitType, InitOwned, WorkInit, ExclInit, CreateInit, DestroyInit, SettledInit DEF OutcomesInv
<1>2. OutcomesInv /\ [Next]_vars => OutcomesInv'
  BY NextType, NextOwned, WorkStep, ExclStep, CreateStep, DestroyStep, SettledStep DEF OutcomesInv
<1> QED BY <1>1, <1>2, PTL DEF Spec

\* A create that no destroy met leaves roles, and on a shared cluster aliases and
\* entities, that every later login reaches its tenant by, whatever other creates of
\* the tenant and commands on other tenants came between its calls.  (CreateTenant)
THEOREM CreatedUsable == Spec => []Onboarded
<1>1. OutcomesInv => Onboarded
  BY DEF OutcomesInv, SettledInv, Settled, Usable, Onboarded
<1> QED BY <1>1, OutcomesInductive, PTL

\* A destroy that nothing met leaves no role of the tenant and, on a shared cluster,
\* no token that reaches it.  (OffboardTenant, DestroyEnv)
THEOREM DestroyedGone == Spec => []Offboarded
<1>1. ASSUME OutcomesInv PROVE Offboarded
  <2>1. TypeOK /\ Owned /\ \A t \in Tenants : Settled(t)
    BY <1>1 DEF OutcomesInv, SettledInv
  <2>2. ASSUME NEW t \in Tenants, settled[t] \in {"gone", "purged", "envGone"}
        PROVE  /\ \A k \in Kinds : role[t][k] = 0
               /\ shared /\ settled[t] # "envGone" => \A k \in tokens : Reaches(k) # t
    BY <2>1, <2>2, NoReach DEF Settled
  <2> QED BY <2>2 DEF Offboarded
<1> QED BY <1>1, OutcomesInductive, PTL

\* Once a purge that nothing met has ended, no token writes the tenant's secrets
\* again before another command does something to the tenant.  (OffboardTenant,
\* purgeKVPrefix)
THEOREM PurgedStays == Spec => []PurgeIsFinal
<1>1. OutcomesInv => PurgeIsFinal
  BY DEF OutcomesInv, SettledInv, Settled, PurgeIsFinal
<1> QED BY <1>1, OutcomesInductive, PTL
=============================================================================
