------------------------------ MODULE Policies ------------------------------
(***************************************************************************)
(* What the seven policy templates let the holder of a token do: Vault     *)
(* renders them for the token's identity and decides every request by the  *)
(* rule whose path fits it best.                                           *)
(*                                                                         *)
(* A name is a sequence of atoms, so that one name may begin with another; *)
(* a path is the sequence of its segments, which are names.                *)
(***************************************************************************)
EXTENDS Integers, Sequences, SequencesExt

CONSTANTS
    Envs,          \* the env names
    Ids,           \* the tenant IDs
    SharedModes    \* the values SHARED_ENVS may have

\* ValidateTenantID, ValidateEnvName: no separator and no wildcard.
ValidName(n) == n \in Seq(STRING) \ {<<>>} /\ \A i \in DOMAIN n : n[i] \notin {".", "/", "+", "*"}

ASSUME Names == \A n \in Envs \union Ids : ValidName(n)
ASSUME Modes == SharedModes \subseteq BOOLEAN

VARIABLES
    shared,     \* SHARED_ENVS
    token,      \* who asks: the policy of the token, and env and tenant of its identity
    request,    \* the path, the capability and the parameters asked for
    answer      \* what Vault says

vars == <<shared, token, request, answer>>

Kinds    == {"reader", "writer"}
Families == {"data", "metadata", "delete", "undelete", "destroy"}
Managed  == {"create", "read", "update", "delete"}
Caps     == Managed \union {"patch", "list", "sudo"}
TenantPolicy(k) == IF k = "reader" THEN "tenant-reader" ELSE "tenant-writer"
AppsPolicy(k)   == IF k = "reader" THEN "apps-reader" ELSE "apps-writer"
TenantMount(k)  == IF k = "reader" THEN "approle-reader" ELSE "approle-writer"
Other(k)        == IF k = "reader" THEN "writer" ELSE "reader"

\* The parameters told apart: the policies a role is given, its lifetimes and
\* uses, and the policies, disabled and metadata of an entity.
RolePolicies == {"tenant-reader", "tenant-writer", "platform"}
Params == RolePolicies \union {"limits", "policies", "disabled", "metadata"}

Unknown == <<>>   \* no env, no tenant

\* A path of words that hold one atom each.
Words(ws) == [i \in DOMAIN ws |-> <<ws[i]>>]

TenantRole(env, id) == IF env = Unknown THEN id ELSE env \o <<".">> \o id

Folder(env, id) == IF env = Unknown THEN <<<<"customers">>, id>>
                                    ELSE <<<<"envs">>, env, <<"customers">>, id>>

-----------------------------------------------------------------------------
(* Rules, and how Vault decides by them                                    *)

Plus == <<"+">>

\* A rule fits its path; with glob also every path that goes on from its last segment.
Exact(path, caps, takes) == [path |-> path, glob |-> FALSE, caps |-> caps, takes |-> takes]
Glob(path, caps, takes)  == [path |-> path, glob |-> TRUE, caps |-> caps, takes |-> takes]

Grant(path, caps) == Exact(path, caps, Params)
Below(path, caps) == Glob(Append(path, <<>>), caps, Params)
Deny(path)        == Grant(path, {"deny"})
DenyBelow(path)   == Below(path, {"deny"})

Fits(r, path) ==
    LET n == Len(r.path) IN
    /\ IF r.glob THEN Len(path) >= n ELSE Len(path) = n
    /\ \A i \in 1..n : \/ r.path[i] = Plus \/ r.path[i] = path[i]
                       \/ r.glob /\ i = n /\ IsPrefix(r.path[n], path[n])

\* Where the first wildcard of a rule is: its segment, and the atoms before it
\* in that segment; a rule without one has it past its end.
Wildcard(r) ==
    LET n == Len(r.path)
        plus == {i \in 1..n : r.path[i] = Plus}
    IN IF plus # {} THEN [segment |-> CHOOSE i \in plus : \A j \in plus : i <= j, atoms |-> 0]
       ELSE IF r.glob THEN [segment |-> n, atoms |-> Len(r.path[n])]
       ELSE [segment |-> n + 1, atoms |-> 0]

\* Of two rules that fit, s is no better than r: the better is the one whose first
\* wildcard comes later, then the one that does not end in a glob.
NoBetter(s, r) ==
    LET v == Wildcard(s)
        w == Wildcard(r)
    IN \/ v.segment < w.segment
       \/ v.segment = w.segment /\ v.atoms < w.atoms
       \/ v = w /\ (r.glob => s.glob)

Granted(rules, req) ==
    LET fit  == {r \in rules : Fits(r, req.path)}
        best == {r \in fit : \A s \in fit : NoBetter(s, r)}
    IN /\ \E r \in best : req.cap \in r.caps /\ req.params \subseteq r.takes
       /\ \A r \in best : "deny" \notin r.caps

-----------------------------------------------------------------------------
(* The templates                                                           *)

Self == {Grant(Words(<<"auth", "token", "lookup-self">>), {"read"}),
         Grant(Words(<<"auth", "token", "renew-self">>), {"update"})}

\* Vault's own default policy, which every token has too.
Default == Self \union {Grant(Words(<<"auth", "token", "revoke-self">>), {"update"})}

DenyTokenCreate == Glob(Words(<<"auth", "token", "create">>), {"deny"}, Params)

RolePath(k) == Words(<<"auth", TenantMount(k), "role">>)

\* Fault: what an entity write may set is not restricted.
Entities_AnyParam ==
    {Grant(Words(<<"identity", "entity">>), {"create", "update"}),
     Below(Words(<<"identity", "entity", "name">>), {"read", "update", "delete"})}

\* Fault: an alias may be created and not updated, which is how Vault takes the call.
Entities_CreateOnly ==
    {Below(Words(<<"identity", "entity", "name">>), {"read", "update", "delete"}),
     Grant(Words(<<"identity", "entity-alias">>), {"create"}),
     Below(Words(<<"identity", "entity-alias", "id">>), {"read", "delete"}),
     Grant(Words(<<"identity", "lookup", "entity">>), {"update"})}

\* On a shared cluster entities and aliases may be written, with denied_parameters.
Entities ==
    {Exact(Words(<<"identity", "entity">>), {"create", "update"}, Params \ {"policies", "disabled"}),
     Glob(Append(Words(<<"identity", "entity", "name">>), <<>>), {"read", "update", "delete"}, Params \ {"policies", "disabled"}),
     Grant(Words(<<"identity", "entity-alias">>), {"create", "update"}),
     Below(Words(<<"identity", "entity-alias", "id">>), {"read", "delete"}),
     Grant(Words(<<"identity", "lookup", "entity">>), {"update"}),
     Deny(Words(<<"identity", "entity", "merge">>)),
     Glob(Words(<<"identity", "group">>), {"deny"}, Params),
     DenyBelow(Words(<<"identity", "oidc">>)), DenyBelow(Words(<<"identity", "mfa">>))}

\* Fault: the policies of a role are not pinned.
TenantRoles_AnyPolicy(k) ==
    {Grant(RolePath(k), {"list"}), Below(RolePath(k), Managed \union {"list"}),
     Grant(RolePath(k) \o <<Plus, <<"role-id">>>>, {"read"}),
     Grant(RolePath(k) \o <<Plus, <<"secret-id">>>>, {"update"})}

\* Roles of one mount, with allowed_parameters that pin them to the tenant policy.
TenantRoles(k) ==
    {Grant(RolePath(k), {"list"}),
     Glob(Append(RolePath(k), <<>>), Managed \union {"list"}, {TenantPolicy(k), "limits"}),
     Grant(RolePath(k) \o <<Plus, <<"role-id">>>>, {"read"}),
     Grant(RolePath(k) \o <<Plus, <<"secret-id">>>>, {"update"})}

Provisioning ==
    TenantRoles("reader") \union TenantRoles("writer") \union Self
    \union {Grant(Words(<<"sys", s>>), {"read"}) : s \in {"mounts", "auth"}}
    \union {DenyBelow(<<<<"kv">>>>), Deny(Words(<<"sys", "audit">>)), DenyTokenCreate}
    \union {DenyBelow(Words(<<"sys", s>>)) :
              s \in {"policies", "policy", "audit", "audit-hash", "mounts", "auth"}}
    \union IF shared THEN Entities ELSE {DenyBelow(<<<<"identity">>>>)}

AppsAuth ==
    {Grant(Words(<<"sys", "auth">>), {"read"}), DenyBelow(<<<<"kv">>>>)}
    \union Self
    \union {Grant(Words(<<"auth", m, "role">>), {"list"}) : m \in {"aws", "gcp"}}
    \union {Below(Words(<<"auth", m, "role">>), Managed \union {"list"}) :
              m \in {"aws", "gcp"}}
    \union IF shared THEN Entities ELSE {}

Operator ==
    {Grant(Words(w), {"read", "sudo"}) : w \in {<<"sys", "health">>, <<"sys", "mounts">>, <<"sys", "audit">>}}
    \union {Grant(Words(<<"sys", s>>), {"read"}) : s \in {"seal-status", "leader", "auth"}}
    \union {Grant(Words(<<"sys", "storage", "raft">> \o s), {"read"}) :
              s \in {<<"snapshot">>, <<"configuration">>, <<"autopilot", "state">>}}
    \union {Below(Words(<<"sys", "mounts">>), {"read"}), Below(Words(<<"sys", "policies", "acl">>), {"read"}),
            Grant(Words(<<"sys", "policies", "acl">>), {"list"})}
    \union {Grant(RolePath(k), {"list"}) : k \in Kinds} \union {Below(RolePath(k), {"read"}) : k \in Kinds}
    \union {Grant(Words(<<"sys", "leases", s>>), {"update"}) : s \in {"lookup", "revoke"}}
    \union {Below(Words(<<"sys", "leases", "lookup">>), {"list", "read"}),
            Below(Words(<<"sys", "leases", "revoke-prefix">>), {"update", "sudo"})}
    \union {Grant(Words(<<"sys", "generate-root">>), Managed \union {"sudo"}),
            Below(Words(<<"sys", "generate-root">>), Managed \union {"sudo"})}
    \union {Grant(Words(w), {"update", "sudo"}) :
              w \in {<<"sys", "step-down">>, <<"sys", "storage", "raft", "remove-peer">>}}
    \union Default
    \union {DenyBelow(Words(<<"kv", f>>)) : f \in {"data", "metadata"}}
    \union {Deny(Words(<<"sys", "policies", "acl", "operator">>)), DenyBelow(Words(<<"sys", "audit">>)),
            Deny(Words(<<"sys", "storage", "raft", "snapshot-force">>))}

\* Fault: the env is not closed by the dot.
Minting_NoDot(k) ==
    IF ~shared
    THEN {Grant(RolePath(k) \o <<Plus, <<"role-id">>>>, {"read"}),
          Grant(RolePath(k) \o <<Plus, <<"secret-id">>>>, {"update"})}
    ELSE IF token.env = Unknown THEN {}
    ELSE {Glob(Append(RolePath(k), token.env), {"read", "update"}, {})}

\* The secret IDs and role IDs of one mount; on a shared cluster those of the env
\* in the metadata of the app's entity, with every parameter denied.
Minting(k) ==
    IF ~shared
    THEN {Grant(RolePath(k) \o <<Plus, <<"role-id">>>>, {"read"}),
          Grant(RolePath(k) \o <<Plus, <<"secret-id">>>>, {"update"})}
    ELSE IF token.env = Unknown THEN {}
    ELSE {Glob(Append(RolePath(k), token.env \o <<".">>), {"read", "update"}, {})}

Apps(k) ==
    Minting(k) \union Self
    \union {DenyBelow(Words(<<"auth", TenantMount(Other(k))>>)), DenyBelow(<<<<"kv">>>>),
            DenyBelow(<<<<"sys">>>>), DenyTokenCreate, DenyBelow(<<<<"identity">>>>)}

AppsReader == Apps("reader")
AppsWriter == Apps("writer")

Top == IF shared THEN <<"envs">> ELSE <<"customers">>

\* What every tenant template denies; the tenant's own folder, if there is one, fits better.
TenantDenies ==
    {DenyBelow(<<<<"kv">>, <<f>>, Top>>) : f \in Families}
    \union {DenyBelow(RolePath(k)) : k \in Kinds}
    \union {DenyBelow(<<<<"sys">>>>), DenyTokenCreate, DenyBelow(<<<<"identity">>>>),
            Deny(Words(<<"kv", "config">>))}

\* Fault: the rule ends with the env.
Own_WholeEnv(family, caps) ==
    IF token.tenant = Unknown THEN {}
    ELSE {Below(<<<<"kv">>, <<family>>, Top>> \o IF shared THEN <<token.env>> ELSE <<>>, caps)}

\* A template of an identity without the metadata renders no rule.
Own(family, caps) ==
    IF token.tenant = Unknown THEN {}
    ELSE {Below(<<<<"kv">>, <<family>>>> \o Folder(token.env, token.tenant), caps)}

TenantReader ==
    Own("data", {"read"}) \union Own("metadata", {"read", "list"}) \union Self \union TenantDenies

TenantWriter ==
    Own("data", Caps \ {"sudo"}) \union Own("metadata", Managed \union {"list"})
    \union (UNION {Own(f, {"update"}) : f \in {"delete", "undelete", "destroy"}})
    \union Self \union TenantDenies

\* RenderPolicy
RenderPolicy(name) ==
    CASE name = "provisioning"  -> Provisioning
      [] name = "operator"      -> Operator
      [] name = "apps-auth"     -> AppsAuth
      [] name = "apps-reader"   -> AppsReader
      [] name = "apps-writer"   -> AppsWriter
      [] name = "tenant-reader" -> TenantReader
      [] name = "tenant-writer" -> TenantWriter

-----------------------------------------------------------------------------
(* LintPolicy                                                              *)

Segment(r, i) == IF r.glob /\ i = Len(r.path) /\ r.path[i] = <<>> THEN <<"*">> ELSE r.path[i]

\* isLiteralSegment
IsLiteral(r, i) == Segment(r, i) \notin {<<"*">>, Plus}

\* Fault: the env and the tenant are looked for one segment too far.
LintRule_TooFar(name, r) ==
    LET n == Len(r.path) IN
    /\ n >= 4 /\ r.caps # {"deny"} /\ r.path[1] = <<"kv">> /\ r.path[3] = <<"envs">> =>
          n >= 7 /\ IsLiteral(r, 4) /\ r.path[5] = <<"customers">> /\ IsLiteral(r, 7)

\* One rule passes: its capabilities are known, deny stands alone, sudo is the
\* operator's; a grant on the KV mount names a KV v2 family, and under the tenants
\* and the envs it names one of each.  (A family "*" can only end a path; that path is
\* kv/*, which is refused as the whole mount.)
LintRule(name, r) ==
    LET n == Len(r.path)
        seg(i) == IF i > n THEN <<>> ELSE Segment(r, i)
    IN /\ r.caps # {} /\ r.caps \subseteq Caps \union {"deny"}
       /\ "deny" \in r.caps => r.caps = {"deny"}
       /\ "sudo" \in r.caps => name = "operator"
       /\ r.caps # {"deny"} => seg(1) # <<"*">>
       /\ r.caps # {"deny"} /\ seg(1) = <<"kv">> =>
            /\ seg(2) \in {<<f>> : f \in Families \union {"config", "subkeys"}}
            /\ ~(n = 3 /\ seg(2) \in {<<"data">>, <<"metadata">>} /\ seg(3) = <<"*">>)
            /\ ~(n = 4 /\ seg(3) = <<"customers">> /\ seg(4) = <<"*">>)
            /\ n >= 4 /\ seg(3) = <<"envs">> =>
                 n >= 6 /\ IsLiteral(r, 4) /\ seg(5) = <<"customers">> /\ IsLiteral(r, 6)

\* No path is declared twice; of a rule repeated word for word a set knows nothing.
Lint(name, rules) ==
    /\ rules # {}
    /\ \A r \in rules : LintRule(name, r)
    /\ \A r, s \in rules : r.path = s.path /\ r.glob = s.glob => r = s

-----------------------------------------------------------------------------
(* Requests                                                                *)

Call(path, cap, params) == [path |-> path, cap |-> cap, params |-> params]

TenantEnvs == IF shared THEN Envs ELSE {Unknown}

\* The calls of LoginAppRole, of CreateTenant, of OffboardTenant and of ListTenants.
LoginAppRole(k, e, i) ==
    {Call(RolePath(k) \o <<TenantRole(e, i), <<"role-id">>>>, "read", {}),
     Call(RolePath(k) \o <<TenantRole(e, i), <<"secret-id">>>>, "update", {})}

EntityPath(k, e, i) ==
    Words(<<"identity", "entity", "name", TenantMount(k)>>) \o <<TenantRole(e, i)>>

CreateTenant(k, e, i) ==
    {Call(Append(RolePath(k), TenantRole(e, i)), c, {TenantPolicy(k), "limits"}) : c \in {"create", "update"}}
    \union IF ~shared THEN {} ELSE
      {Call(RolePath(k) \o <<TenantRole(e, i), <<"role-id">>>>, "read", {}),
       Call(Words(<<"sys", "auth">>), "read", {}),
       Call(EntityPath(k, e, i), "update", {"metadata"}), Call(EntityPath(k, e, i), "read", {}),
       Call(Words(<<"identity", "lookup", "entity">>), "update", {}),
       Call(Words(<<"identity", "entity-alias", "id", "alias">>), "delete", {}),
       Call(Words(<<"identity", "entity-alias">>), "update", {})}

OffboardTenant(k, e, i) ==
    {Call(Append(RolePath(k), TenantRole(e, i)), "delete", {})}
    \union IF shared THEN {Call(EntityPath(k, e, i), "delete", {})} ELSE {}

ListTenants == {Call(RolePath(k), "list", {}) : k \in Kinds}

\* LeaveRaft and the health of the node.
Membership ==
    {Call(Words(<<"sys", "storage", "raft", "configuration">>), "read", {}),
     Call(Words(<<"sys", "storage", "raft", "autopilot", "state">>), "read", {}),
     Call(Words(<<"sys", "storage", "raft", "remove-peer">>), "update", {}),
     Call(Words(<<"sys", "leader">>), "read", {})}
    \union {Call(Words(<<"sys", "step-down">>), c, {}) : c \in {"update", "sudo"}}

\* cancelStaleAttempt and generateRoot.
GenerateRoot ==
    {Call(Words(<<"sys", "generate-root", "attempt">>), c, {}) : c \in {"read", "update", "delete"}}
    \union {Call(Words(<<"sys", "generate-root", "update">>), "update", {})}

\* The calls the program makes with the token: the provisioning token creates,
\* lists and offboards tenants, and bootstrap looks itself up with it; the operator
\* token serves the nodes, snapshots and break-glass; an app logs in by its broker.
Runs ==
    LET tenantCalls == UNION {CreateTenant(k, e, i) \union OffboardTenant(k, e, i) \union LoginAppRole(k, e, i) :
                                k \in Kinds, e \in TenantEnvs, i \in Ids}
        self(s, c) == Call(Words(<<"auth", "token", s>>), c, {})
    IN CASE token.policy = "provisioning" -> tenantCalls \union ListTenants \union {self("lookup-self", "read")}
         [] token.policy = "operator" ->
              Membership \union GenerateRoot
              \union {self("lookup-self", "read"), self("renew-self", "update"),
                      Call(Words(<<"sys", "storage", "raft", "snapshot">>), "read", {}),
                      Call(Words(<<"sys", "mounts", "kv", "tune">>), "read", {})}
         [] token.policy \in {AppsPolicy(k) : k \in Kinds} ->
              UNION {LoginAppRole(k, token.env, i) :
                       k \in {k \in Kinds : AppsPolicy(k) = token.policy /\ token.env \in TenantEnvs}, i \in Ids}
         [] OTHER -> {}

\* What else may be asked for: secrets, roles, entities and the platform itself.
SecretPaths ==
    {<<<<"kv">>, <<f>>>> \o Folder(e, i) \o <<<<"secret">>>> :
       f \in Families \union {"subkeys"}, e \in TenantEnvs, i \in Ids}
    \union {<<<<"kv">>, <<f>>, Top, <<"secret">>>> : f \in Families}

RolePaths ==
    {RolePath(k) \o <<TenantRole(e, i)>> \o sub :
       k \in Kinds, e \in TenantEnvs, i \in Ids,
       sub \in {<<>>, Words(<<"role-id">>), Words(<<"secret-id">>), Words(<<"policies">>)}}

EntityPaths ==
    {EntityPath(k, e, i) : k \in Kinds, e \in TenantEnvs, i \in Ids}
    \union {Words(<<"identity">> \o w) :
              w \in {<<"entity">>, <<"entity", "merge">>, <<"entity-alias">>, <<"group">>, <<"group", "name", "g">>,
                     <<"oidc", "key", "k">>, <<"mfa", "method", "m">>}}

PlatformPaths ==
    {Words(<<"sys">> \o w) :
       w \in {<<"policies", "acl", "operator">>, <<"policies", "acl", "provisioning">>, <<"policy", "operator">>,
              <<"audit">>, <<"audit", "file">>, <<"mounts", "kv">>, <<"mounts", "kv", "tune">>,
              <<"auth", "approle-reader">>, <<"storage", "raft", "snapshot">>, <<"storage", "raft", "snapshot-force">>}}
    \union {<<<<"auth">>, <<"token">>, <<"create">>>>, <<<<"auth">>, <<"token">>, <<"create", "-orphan">>>>,
            Words(<<"kv", "config">>)}

Requests ==
    {Call(p, c, {}) : p \in SecretPaths \union PlatformPaths, c \in Caps}
    \union {Call(p, c, ps) : p \in RolePaths, c \in Managed, ps \in {{}} \union {{x} : x \in RolePolicies}}
    \union {Call(p, c, ps) : p \in EntityPaths, c \in Managed, ps \in {{}, {"metadata"}, {"policies"}, {"disabled"}}}

\* Tokens whose identity has the metadata of an app or a tenant, or has none.
Tokens ==
    {[policy |-> p, env |-> Unknown, tenant |-> Unknown] :
       p \in {"provisioning", "operator", "apps-auth"} \union {AppsPolicy(k) : k \in Kinds}
             \union {TenantPolicy(k) : k \in Kinds}}
    \union {[policy |-> AppsPolicy(k), env |-> e, tenant |-> Unknown] : k \in Kinds, e \in TenantEnvs}
    \union {[policy |-> TenantPolicy(k), env |-> e, tenant |-> i] : k \in Kinds, e \in TenantEnvs, i \in Ids}

-----------------------------------------------------------------------------
Init ==
    /\ shared \in SharedModes
    /\ token \in Tokens
    /\ request \in Requests \union Runs
    /\ answer = "none"

Decide ==
    /\ answer = "none"
    /\ answer' = IF Granted(RenderPolicy(token.policy) \union Default, request) THEN "granted" ELSE "denied"
    /\ UNCHANGED <<shared, token, request>>

\* Every request is answered once.
Answered == answer # "none" /\ UNCHANGED vars

Next == Decide \/ Answered

Spec == Init /\ [][Next]_vars

-----------------------------------------------------------------------------
(* Correctness                                                             *)

Asks(seg, n) == Len(request.path) >= n /\ request.path[n] = <<seg>>

\* Only a tenant token reads or changes secrets, only below its own tenant's folder,
\* and a reader's only reads; no env or tenant whose name begins with another's is
\* taken for it.  (README, Tenant isolation and Identities)
SecretsOfOneTenant ==
    answer = "granted" /\ Asks("kv", 1) =>
        \E k \in Kinds :
            /\ token.policy = TenantPolicy(k) /\ token.tenant # Unknown
            /\ IsPrefix(Folder(token.env, token.tenant), SubSeq(request.path, 3, Len(request.path)))
            /\ k = "reader" => request.cap \in {"read", "list"}

\* Whoever may write a tenant role can give it no policy but the tenant policy of its
\* mount, at any path of the role, whichever of the overlapping rules decides; the
\* parameters of a secret ID give it none.  (provisioning.hcl.tpl, allowed_parameters)
RolesPinned ==
    \A k \in Kinds :
        answer = "granted" /\ IsPrefix(RolePath(k), request.path) /\ request.cap # "read"
        /\ request.path[Len(request.path)] # <<"secret-id">> =>
            request.params \intersect RolePolicies \subseteq {TenantPolicy(k)}

\* A broker touches roles of its own mount only, on a shared cluster those of its own
\* env only and without a parameter, and never creates or deletes one.
\* (apps-reader.hcl.tpl, apps-writer.hcl.tpl)
BrokersInEnv ==
    \A k, m \in Kinds :
        answer = "granted" /\ token.policy = AppsPolicy(k) /\ IsPrefix(RolePath(m), request.path) =>
            /\ m = k /\ request.cap \in {"read", "update"}
            /\ shared => /\ request.params = {}
                         /\ \E i \in Ids : request.path[4] = TenantRole(token.env, i)
            /\ ~shared => Len(request.path) = 5

\* No token but root changes policies, audit devices, mounts, auth methods or the KV
\* configuration, restores a snapshot or creates a token, and none gives an entity
\* policies, merges entities or writes groups.  (README, Identities and Shared cluster)
PlatformUnchanged ==
    answer = "granted" /\ request.cap \notin {"read", "list", "sudo"} =>
        /\ request.path \notin PlatformPaths
        /\ Asks("identity", 1) => ~Asks("merge", 3) /\ ~Asks("group", 2)
        /\ Asks("identity", 1) /\ Asks("entity", 2) => request.params \intersect {"policies", "disabled"} = {}

\* Every call of the program is granted to the token it makes the call with, in both
\* modes.  (CreateTenant, OffboardTenant, ListTenants, LoginAppRole, LeaveRaft,
\* NodeHealthOK, RaftSnapshot, BreakGlass.Begin)
CommandsPermitted == request \in Runs => answer # "denied"

\* Configure can apply every policy it renders: none is stopped by its lint.  (Configure)
TemplatesPass == Lint(token.policy, RenderPolicy(token.policy))
=============================================================================
