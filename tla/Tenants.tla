------------------------------ MODULE Tenants ------------------------------
(***************************************************************************)
(* tenants create, tenants destroy and envs destroy (CreateTenant,         *)
(* OffboardTenant, DestroyEnv, ListTenants of internal/vaultcluster) run   *)
(* by several pipelines at once, while apps log in and write secrets.      *)
(*                                                                         *)
(* A role ID is named by the tenant, the kind of access and how many roles *)
(* that place has had.  A login gets the entity its role ID is an alias    *)
(* of; on a shared cluster the tenant policies read the tenant from that   *)
(* entity's metadata, on an unshared one from the role name.               *)
(***************************************************************************)
EXTENDS Integers, FiniteSets

CONSTANTS
    Pipelines,     \* the processes that run vault-utils
    Envs, Ids,     \* env names and tenant IDs
    None,          \* no env, no entity, no tenant
    Implicit,      \* the entity Vault makes for a login whose role ID has none
    SharedModes,   \* the values SHARED_ENVS may have
    MaxRoles,      \* bound: roles created in one place
    MaxCommands,   \* bound: commands
    MaxLogins,     \* bound: logins
    MaxFailures    \* bound: calls that fail and processes that are killed

ASSUME Names == None \notin Envs /\ None # Implicit /\ Ids # {}
ASSUME Modes == SharedModes \subseteq BOOLEAN /\ SharedModes # {}
ASSUME Bounds ==
    /\ MaxRoles \in Nat \ {0} /\ MaxCommands \in Nat
    /\ MaxLogins \in Nat /\ MaxFailures \in Nat

Kinds    == {"reader", "writer"}
Tenants  == [env : Envs \union {None}, id : Ids]
Entities == Kinds \X (Envs \union {None}) \X Ids
RoleIds  == Tenants \X Kinds \X (1..MaxRoles)
Outcomes == {"unknown", "created", "gone", "purged", "envGone"}

VARIABLES
    shared,     \* SHARED_ENVS
    role,       \* role[t][k]: the role of tenant t on mount k, or 0
    made,       \* made[t][k]: the roles created there so far
    meta,       \* meta[e]: the tenant in the metadata of entity e, None without entity
    alias,      \* alias[r]: the entity role ID r is an alias of
    tokens,     \* the tenant tokens: the role ID and the entity of their login
    secret,     \* secret[t]: tenant t has a secret
    pc,         \* pc[p]: where pipeline p's command is
    cmd,        \* cmd[p]: the command, the tenants it is about, and purge
    todo,       \* todo[p]: the tenants it has still to offboard
    at,         \* at[p]: the tenant and the kind it is working on
    rid,        \* rid[p]: the role ID create has read
    known,      \* known[p]: the entity ID create has read is still an entity's
    seen,       \* seen[p]: the entity of the alias create has found
    listed,     \* listed[p]: the secrets purge has listed
    dirty,      \* history: the tenants of p's command another command met
    settled,    \* history: how the last command on a tenant ended undisturbed
    commands, logins, failures   \* counters against their bounds

vaultState == <<role, made, meta, alias, tokens>>
process    == <<pc, cmd, todo, at, rid, known, seen, listed>>
history    == <<dirty, settled>>
counts     == <<commands, logins, failures>>
vars       == <<shared, vaultState, secret, process, history, counts>>

PCs == {"idle", "writeRole", "readRoleId", "writeEntity", "readEntity", "lookupAlias", "unlink", "writeAlias",
        "listReaders", "listWriters", "next", "deleteEntity", "deleteRole", "listSecrets",
        "deleteSecrets", "done"}

TypeOK ==
    /\ shared \in SharedModes
    /\ role \in [Tenants -> [Kinds -> 0..MaxRoles]] /\ made \in [Tenants -> [Kinds -> 0..MaxRoles]]
    /\ meta \in [Entities -> Tenants \union {None}]
    /\ alias \in [RoleIds -> Entities \union {None, Implicit}]
    /\ tokens \subseteq [of : RoleIds, entity : Entities \union {Implicit}]
    /\ secret \in [Tenants -> BOOLEAN]
    /\ pc \in [Pipelines -> PCs]
    /\ cmd \in [Pipelines -> [op : {"create", "destroy", "destroyEnv"}, on : SUBSET Tenants, purge : BOOLEAN]]
    /\ todo \in [Pipelines -> SUBSET Tenants] /\ at \in [Pipelines -> Tenants \X Kinds]
    /\ known \in [Pipelines -> BOOLEAN] /\ seen \in [Pipelines -> Entities \union {None, Implicit}]
    /\ rid \in [Pipelines -> RoleIds] /\ listed \in [Pipelines -> SUBSET Tenants]
    /\ dirty \in [Pipelines -> SUBSET Tenants] /\ settled \in [Tenants -> Outcomes]
    /\ commands \in 0..MaxCommands /\ logins \in 0..MaxLogins /\ failures \in 0..MaxFailures

\* An env is required on a shared cluster and refused on any other (checkEnv).
Allowed == {t \in Tenants : shared <=> t.env # None}

ASSUME Distinct == None \notin Tenants \union Entities /\ Implicit \notin Entities

AnyTenant == [env |-> None, id |-> CHOOSE i \in Ids : TRUE]

Init ==
    /\ shared \in SharedModes
    /\ role = [t \in Tenants |-> [k \in Kinds |-> 0]] /\ made = role
    /\ meta = [e \in Entities |-> None] /\ alias = [r \in RoleIds |-> None]
    /\ tokens = {} /\ secret = [t \in Tenants |-> FALSE]
    /\ pc = [p \in Pipelines |-> "idle"]
    /\ cmd = [p \in Pipelines |-> [op |-> "create", on |-> {}, purge |-> FALSE]]
    /\ todo = [p \in Pipelines |-> {}] /\ at = [p \in Pipelines |-> <<AnyTenant, "reader">>]
    /\ rid = [p \in Pipelines |-> <<AnyTenant, "reader", 1>>]
    /\ known = [p \in Pipelines |-> FALSE] /\ seen = [p \in Pipelines |-> None]
    /\ listed = [p \in Pipelines |-> {}] /\ dirty = [p \in Pipelines |-> {}]
    /\ settled = [t \in Tenants |-> "unknown"]
    /\ commands = 0 /\ logins = 0 /\ failures = 0

Goto(p, from, to) == pc[p] = from /\ pc' = [pc EXCEPT ![p] = to]

\* The command ends; p forgets where it was.
Ends(p) ==
    /\ pc' = [pc EXCEPT ![p] = "idle"]
    /\ cmd' = [cmd EXCEPT ![p] = [op |-> "create", on |-> {}, purge |-> FALSE]]
    /\ todo' = [todo EXCEPT ![p] = {}] /\ at' = [at EXCEPT ![p] = <<AnyTenant, "reader">>]
    /\ rid' = [rid EXCEPT ![p] = <<AnyTenant, "reader", 1>>]
    /\ known' = [known EXCEPT ![p] = FALSE] /\ seen' = [seen EXCEPT ![p] = None]
    /\ listed' = [listed EXCEPT ![p] = {}] /\ dirty' = [dirty EXCEPT ![p] = {}]

Tenant(p) == at[p][1]
Kind(p)   == at[p][2]

-----------------------------------------------------------------------------
(* Starting a command, and what the history keeps of it                    *)

\* What command c disturbs of q's command: two creates of one tenant do not
\* disturb each other, unless a destroy has disturbed the older one.
Meets(q, c) ==
    IF c.op = "create" /\ cmd[q].op = "create" THEN c.on \intersect dirty[q]
                                              ELSE c.on \intersect cmd[q].on

Starts(p, c, first) ==
    /\ pc[p] = "idle" /\ commands < MaxCommands /\ commands' = commands + 1
    /\ pc' = [pc EXCEPT ![p] = first]
    /\ cmd' = [cmd EXCEPT ![p] = c]
    /\ dirty' = [q \in Pipelines |->
                   IF q = p THEN UNION {Meets(r, c) : r \in Pipelines \ {p}}
                            ELSE dirty[q] \union Meets(q, c)]
    /\ settled' = [t \in Tenants |-> IF t \in c.on THEN "unknown" ELSE settled[t]]
    /\ UNCHANGED <<shared, vaultState, secret, rid, known, seen, listed, logins, failures>>

StartCreate(p) ==
    \E t \in Allowed :
        /\ \A k \in Kinds : made[t][k] < MaxRoles
        /\ Starts(p, [op |-> "create", on |-> {t}, purge |-> FALSE], "writeRole")
        /\ at' = [at EXCEPT ![p] = <<t, "reader">>]
        /\ UNCHANGED todo

StartDestroy(p) ==
    \E t \in Allowed, purge \in BOOLEAN :
        /\ Starts(p, [op |-> "destroy", on |-> {t}, purge |-> purge], "next")
        /\ todo' = [todo EXCEPT ![p] = {t}]
        /\ UNCHANGED at

StartDestroyEnv(p) ==
    \E e \in Envs, purge \in BOOLEAN :
        /\ shared
        /\ Starts(p, [op |-> "destroyEnv", on |-> {t \in Tenants : t.env = e}, purge |-> purge],
                  "listReaders")
        /\ UNCHANGED <<todo, at>>

\* The command has succeeded.
Finish(p) ==
    /\ pc[p] = "done"
    /\ LET outcome == IF cmd[p].op = "create" THEN "created"
                      ELSE IF cmd[p].op = "destroyEnv" THEN "envGone"
                      ELSE IF cmd[p].purge THEN "purged" ELSE "gone"
       IN settled' = [t \in Tenants |->
                        IF t \in cmd[p].on \ dirty[p] THEN outcome ELSE settled[t]]
    /\ Ends(p)
    /\ UNCHANGED <<shared, vaultState, secret, counts>>

-----------------------------------------------------------------------------
(* CreateTenant                                                            *)

\* writeAppRole: an existing role keeps its role ID.
WriteRole(p) ==
    LET t == Tenant(p) k == Kind(p) IN
    /\ pc[p] = "writeRole"
    /\ IF role[t][k] # 0
       THEN UNCHANGED <<role, made>>
       ELSE /\ made[t][k] < MaxRoles
            /\ made' = [made EXCEPT ![t][k] = @ + 1]
            /\ role' = [role EXCEPT ![t][k] = made[t][k] + 1]
    /\ IF k = "reader"
       THEN at' = [at EXCEPT ![p] = <<Tenant(p), "writer">>] /\ UNCHANGED pc
       ELSE /\ pc' = [pc EXCEPT ![p] = IF shared THEN "readRoleId" ELSE "done"]
            /\ at' = [at EXCEPT ![p] = <<Tenant(p), "reader">>]
    /\ UNCHANGED <<shared, meta, alias, tokens, secret, cmd, todo, rid, known, seen, listed, history, counts>>

\* Fault: the entity is named by the tenant alone.
EntityName_NoEnv(t, k) == <<k, None, t.id>>

\* tenantEntityName
EntityName(t, k) == <<k, t.env, t.id>>

\* Fault: a role without a role_id goes unnoticed.
ReadRoleId_NoCheck(p) ==
    LET t == Tenant(p) k == Kind(p) IN
    /\ pc[p] = "readRoleId"
    /\ rid' = [rid EXCEPT ![p] = <<t, k, role[t][k]>>]
    /\ pc' = [pc EXCEPT ![p] = "writeEntity"]
    /\ UNCHANGED <<shared, vaultState, secret, cmd, todo, at, known, seen, listed, history, counts>>

\* bindTenantEntity: without a role there is no role_id, which ends the command.
ReadRoleId(p) ==
    LET t == Tenant(p) k == Kind(p) IN
    /\ pc[p] = "readRoleId" /\ role[t][k] # 0
    /\ rid' = [rid EXCEPT ![p] = <<t, k, role[t][k]>>]
    /\ pc' = [pc EXCEPT ![p] = "writeEntity"]
    /\ UNCHANGED <<shared, vaultState, secret, cmd, todo, at, known, seen, listed, history, counts>>

RoleIsMissing(p) ==
    /\ pc[p] = "readRoleId" /\ role[Tenant(p)][Kind(p)] = 0
    /\ Ends(p)
    /\ UNCHANGED <<shared, vaultState, secret, settled, counts>>

WriteEntity(p) ==
    /\ Goto(p, "writeEntity", "readEntity")
    /\ meta' = [meta EXCEPT ![EntityName(Tenant(p), Kind(p))] = Tenant(p)]
    /\ UNCHANGED <<shared, role, made, alias, tokens, secret, cmd, todo, at, rid, known, seen, listed, history, counts>>

\* The entity's ID is read back; if it is gone already the command ends.
ReadEntity(p) ==
    /\ pc[p] = "readEntity"
    /\ IF meta[EntityName(Tenant(p), Kind(p))] = None
       THEN Ends(p)
       ELSE /\ known' = [known EXCEPT ![p] = TRUE]
            /\ pc' = [pc EXCEPT ![p] = "lookupAlias"]
            /\ UNCHANGED <<cmd, todo, at, rid, seen, listed, dirty>>
    /\ UNCHANGED <<shared, vaultState, secret, settled, counts>>

\* After one kind is bound comes the other.
Bound(p) ==
    IF Kind(p) = "reader"
    THEN pc' = [pc EXCEPT ![p] = "readRoleId"] /\ at' = [at EXCEPT ![p] = <<Tenant(p), "writer">>]
    ELSE pc' = [pc EXCEPT ![p] = "done"] /\ UNCHANGED at

\* Fault: any existing alias counts as bound.
LookupAlias_AnyEntity(p) ==
    /\ pc[p] = "lookupAlias"
    /\ IF alias[rid[p]] # None THEN Bound(p)
                               ELSE pc' = [pc EXCEPT ![p] = "writeAlias"] /\ UNCHANGED at
    /\ UNCHANGED <<shared, vaultState, secret, cmd, todo, rid, known, seen, listed, history, counts>>

\* ensureEntityAlias: bound already, bound to another entity, or not bound.
LookupAlias(p) ==
    LET found == alias[rid[p]] IN
    /\ pc[p] = "lookupAlias"
    /\ seen' = [seen EXCEPT ![p] = found]
    /\ IF known[p] /\ found = EntityName(Tenant(p), Kind(p))
       THEN Bound(p)
       ELSE pc' = [pc EXCEPT ![p] = IF found = None THEN "writeAlias" ELSE "unlink"] /\ UNCHANGED at
    /\ UNCHANGED <<shared, vaultState, secret, cmd, todo, rid, known, listed, history, counts>>

\* The stale alias is deleted by its ID; one bound anew meanwhile has another.
Unlink(p) ==
    /\ Goto(p, "unlink", "writeAlias")
    /\ alias' = IF alias[rid[p]] = seen[p] THEN [alias EXCEPT ![rid[p]] = None] ELSE alias
    /\ UNCHANGED <<shared, role, made, meta, tokens, secret, cmd, todo, at, rid, known, seen, listed, history, counts>>

\* Vault refuses an alias of an entity that is gone, and may refuse one that
\* somebody has made meanwhile or a second one of the entity.
WriteAlias(p) ==
    LET e == EntityName(Tenant(p), Kind(p)) IN
    /\ pc[p] = "writeAlias"
    /\ \/ /\ known[p]
          /\ alias' = [alias EXCEPT ![rid[p]] = e]
          /\ Bound(p)
          /\ UNCHANGED <<cmd, todo, rid, known, seen, listed, dirty>>
       \/ /\ \/ ~known[p] \/ alias[rid[p]] \notin {None, e}
             \/ \E r \in RoleIds \ {rid[p]} : alias[r] = e
          /\ Ends(p) /\ UNCHANGED alias
    /\ UNCHANGED <<shared, role, made, meta, tokens, secret, settled, counts>>

-----------------------------------------------------------------------------
(* OffboardTenant and DestroyEnv                                           *)

\* ListTenants reads one mount after the other.
ListRoles(p) ==
    \E k \in Kinds :
        /\ pc[p] = IF k = "reader" THEN "listReaders" ELSE "listWriters"
        /\ pc' = [pc EXCEPT ![p] = IF k = "reader" THEN "listWriters" ELSE "next"]
        /\ todo' = [todo EXCEPT ![p] = @ \union {t \in cmd[p].on : role[t][k] # 0}]
        /\ UNCHANGED <<shared, vaultState, secret, cmd, at, rid, known, seen, listed, history, counts>>

OffboardNext(p) ==
    /\ pc[p] = "next"
    /\ \/ \E t \in todo[p] :
            /\ at' = [at EXCEPT ![p] = <<t, "reader">>]
            /\ todo' = [todo EXCEPT ![p] = @ \ {t}]
            /\ pc' = [pc EXCEPT ![p] = IF shared THEN "deleteEntity" ELSE "deleteRole"]
       \/ /\ todo[p] = {}
          /\ pc' = [pc EXCEPT ![p] = IF cmd[p].purge THEN "listSecrets" ELSE "done"]
          /\ UNCHANGED <<at, todo>>
    /\ UNCHANGED <<shared, vaultState, secret, cmd, rid, known, seen, listed, history, counts>>

\* Fault: the entity is kept and only the role deleted.
DeleteEntity_Kept(p) ==
    /\ Goto(p, "deleteEntity", "deleteRole")
    /\ UNCHANGED <<shared, vaultState, secret, cmd, todo, at, rid, known, seen, listed, history, counts>>

\* Fault: only the reader's entity is deleted.
DeleteEntity_ReaderOnly(p) ==
    LET e == <<"reader", Tenant(p).env, Tenant(p).id>> IN
    /\ Goto(p, "deleteEntity", "deleteRole")
    /\ meta' = [meta EXCEPT ![e] = None]
    /\ alias' = [r \in RoleIds |-> IF alias[r] = e THEN None ELSE alias[r]]
    /\ tokens' = {k \in tokens : k.entity # e}
    /\ UNCHANGED <<shared, role, made, secret, cmd, todo, at, rid, known, seen, listed, history, counts>>

\* Deleting an entity deletes its aliases, and its tokens stop working; an ID
\* that a create has read of it is nobody's from then on.
DeleteEntity(p) ==
    LET e == EntityName(Tenant(p), Kind(p)) IN
    /\ Goto(p, "deleteEntity", "deleteRole")
    /\ meta' = [meta EXCEPT ![e] = None]
    /\ alias' = [r \in RoleIds |-> IF alias[r] = e THEN None ELSE alias[r]]
    /\ tokens' = {k \in tokens : k.entity # e}
    /\ known' = [q \in Pipelines |-> known[q] /\ EntityName(Tenant(q), Kind(q)) # e]
    /\ UNCHANGED <<shared, role, made, secret, cmd, todo, at, rid, seen, listed, history, counts>>

DeleteRole(p) ==
    LET t == Tenant(p) k == Kind(p) IN
    /\ pc[p] = "deleteRole"
    /\ role' = [role EXCEPT ![t][k] = 0]
    /\ IF k = "reader"
       THEN /\ at' = [at EXCEPT ![p] = <<Tenant(p), "writer">>]
            /\ pc' = [pc EXCEPT ![p] = IF shared THEN "deleteEntity" ELSE "deleteRole"]
       ELSE pc' = [pc EXCEPT ![p] = "next"] /\ UNCHANGED at
    /\ UNCHANGED <<shared, made, meta, alias, tokens, secret, cmd, todo, rid, known, seen, listed, history, counts>>

\* purgeKVPrefix lists a folder and then deletes what it has listed.
ListSecrets(p) ==
    /\ Goto(p, "listSecrets", "deleteSecrets")
    /\ listed' = [listed EXCEPT ![p] = {t \in cmd[p].on : secret[t]}]
    /\ UNCHANGED <<shared, vaultState, secret, cmd, todo, at, rid, known, seen, history, counts>>

DeleteSecrets(p) ==
    /\ pc[p] = "deleteSecrets"
    /\ \/ \E t \in listed[p] :
            /\ secret' = [secret EXCEPT ![t] = FALSE]
            /\ listed' = [listed EXCEPT ![p] = @ \ {t}]
            /\ UNCHANGED pc
       \/ listed[p] = {} /\ pc' = [pc EXCEPT ![p] = "done"] /\ UNCHANGED <<secret, listed>>
    /\ UNCHANGED <<shared, vaultState, cmd, todo, at, rid, known, seen, history, counts>>

-----------------------------------------------------------------------------
(* Apps and failures                                                       *)

\* LoginAppRole: a role ID without an entity gets one of Vault's own.
Login ==
    \E t \in Allowed, k \in Kinds :
        LET r == <<t, k, role[t][k]>> IN
        /\ role[t][k] # 0 /\ logins < MaxLogins /\ logins' = logins + 1
        /\ alias' = IF alias[r] = None THEN [alias EXCEPT ![r] = Implicit] ELSE alias
        /\ tokens' = tokens \union {[of |-> r, entity |-> alias'[r]]}
        /\ UNCHANGED <<shared, role, made, meta, secret, process, history, commands, failures>>

\* The tenant a token reads and writes under the static tenant policies.
Reaches(k) ==
    IF ~shared THEN k.of[1] ELSE IF k.entity = Implicit THEN None ELSE meta[k.entity]

\* An app writes a secret with a writer token.
WriteSecret ==
    \E k \in tokens :
        /\ k.of[2] = "writer" /\ Reaches(k) # None /\ ~secret[Reaches(k)]
        /\ secret' = [secret EXCEPT ![Reaches(k)] = TRUE]
        /\ UNCHANGED <<shared, vaultState, process, history, counts>>

\* A call fails or the process is killed: the command ends where it is.
Fail(p) ==
    /\ pc[p] \notin {"idle", "done"} /\ failures < MaxFailures /\ failures' = failures + 1
    /\ Ends(p)
    /\ UNCHANGED <<shared, vaultState, secret, settled, commands, logins>>

\* No command runs.
Quiet == (\A p \in Pipelines : pc[p] = "idle") /\ UNCHANGED vars

-----------------------------------------------------------------------------
Create(p)  == StartCreate(p) \/ WriteRole(p) \/ ReadRoleId(p) \/ RoleIsMissing(p) \/ WriteEntity(p)
              \/ ReadEntity(p) \/ LookupAlias(p) \/ Unlink(p) \/ WriteAlias(p)
Destroy(p) == StartDestroy(p) \/ StartDestroyEnv(p) \/ ListRoles(p) \/ OffboardNext(p)
              \/ DeleteEntity(p) \/ DeleteRole(p) \/ ListSecrets(p) \/ DeleteSecrets(p)

Next == (\E p \in Pipelines : Create(p) \/ Destroy(p) \/ Finish(p) \/ Fail(p))
        \/ Login \/ WriteSecret \/ Quiet

Spec == Init /\ [][Next]_vars

-----------------------------------------------------------------------------
(* Correctness                                                             *)

\* A token never reaches another tenant than the one its role is for, whatever
\* entities are made, unlinked, deleted and made again around its login.
\* (bindTenantEntity, ensureEntityAlias)
Isolation == \A k \in tokens : Reaches(k) \in {None, k.of[1]}

\* A create that no destroy met leaves a tenant every later login reaches, also
\* when logins and other creates came between its calls.  (CreateTenant)
Onboarded ==
    \A t \in Tenants : settled[t] = "created" =>
        \A k \in Kinds :
            /\ role[t][k] # 0
            /\ shared => /\ alias[<<t, k, role[t][k]>>] = EntityName(t, k)
                         /\ meta[EntityName(t, k)] = t

\* A destroy, of the tenant or of its env, that nothing met leaves no role to log
\* in with; on a shared cluster that of the tenant also leaves no token that still
\* reaches it, whatever half-made state earlier commands had left.  (OffboardTenant,
\* DestroyEnv, which only finds tenants that still have a role)
Offboarded ==
    \A t \in Tenants : settled[t] \in {"gone", "purged", "envGone"} =>
        /\ \A k \in Kinds : role[t][k] = 0
        /\ shared /\ settled[t] # "envGone" => \A k \in tokens : Reaches(k) # t

\* On a shared cluster a purged tenant stays purged: no token of it can write a
\* secret behind the list that the purge works on.  (OffboardTenant, purgeKVPrefix)
PurgeIsFinal ==
    shared => \A t \in Tenants : settled[t] = "purged" => ~secret[t]
=============================================================================
