--------------------------- MODULE Policies_proofs ---------------------------
(***************************************************************************)
(* Theorems about the policy templates, for all names of envs and tenants. *)
(***************************************************************************)
EXTENDS Policies, SequenceTheorems, TLAPS

(***************************************************************************)
(* Names and paths.                                                        *)
(***************************************************************************)

LEMMA WordsIs ==
    ASSUME NEW ws, Len(ws) \in Nat, DOMAIN ws = 1..Len(ws)
    PROVE  Len(Words(ws)) = Len(ws) /\ \A i \in 1..Len(ws) : Words(ws)[i] = <<ws[i]>>
BY DEF Words

LEMMA Words2 == \A a, b : Words(<<a, b>>) = <<<<a>>, <<b>>>>
BY DEF Words

LEMMA Words3 == \A a, b, c : Words(<<a, b, c>>) = <<<<a>>, <<b>>, <<c>>>>
BY DEF Words

LEMMA NameSeq ==
    /\ \A n \in Envs \union Ids \union {Unknown} : n \in Seq(STRING)
    /\ \A n \in Envs \union Ids : n # Plus /\ n # Unknown /\ \A i \in DOMAIN n : n[i] # "."
<1>1. ASSUME NEW n \in Envs \union Ids
      PROVE  n \in Seq(STRING) /\ n # <<>> /\ \A i \in DOMAIN n : n[i] \notin {".", "/", "+", "*"}
  BY Names DEF ValidName
<1>2. ASSUME NEW n \in Envs \union Ids PROVE n # Plus
  BY <1>1 DEF Plus
<1>3. Unknown = <<>> /\ <<>> \in Seq(STRING)
  BY DEF Unknown
<1> QED BY <1>1, <1>2, <1>3

(***************************************************************************)
(* What a rule fits, and what it says of what it fits.                     *)
(***************************************************************************)

LEMMA RuleFields ==
    ASSUME NEW p, NEW caps
    PROVE  /\ Grant(p, caps).caps = caps /\ Grant(p, caps).takes = Params
           /\ Below(p, caps).caps = caps /\ Below(p, caps).takes = Params
BY DEF Grant, Below, Exact, Glob

LEMMA ExactFields ==
    ASSUME NEW p, NEW caps, NEW takes
    PROVE  /\ Exact(p, caps, takes).caps = caps /\ Exact(p, caps, takes).takes = takes
           /\ Glob(p, caps, takes).caps = caps /\ Glob(p, caps, takes).takes = takes
BY DEF Exact, Glob

LEMMA Denies == \A p : Deny(p).caps = {"deny"} /\ DenyBelow(p).caps = {"deny"}
BY RuleFields DEF Deny, DenyBelow

LEMMA FitsWords ==
    ASSUME NEW ws, Len(ws) \in Nat, DOMAIN ws = 1..Len(ws), \A i \in 1..Len(ws) : ws[i] # "+",
           NEW caps, NEW takes, NEW path, Fits(Exact(Words(ws), caps, takes), path)
    PROVE  Len(path) = Len(ws) /\ \A i \in 1..Len(ws) : path[i] = <<ws[i]>>
<1>1. \A i \in 1..Len(ws) : <<ws[i]>> # Plus
  BY DEF Plus
<1> QED BY WordsIs, <1>1 DEF Fits, Exact

LEMMA Below2 ==
    ASSUME NEW a, NEW b, a # "+", b # "+", NEW caps, NEW takes, NEW path,
           Fits(Glob(Append(Words(<<a, b>>), <<>>), caps, takes), path)
    PROVE  Len(path) >= 3 /\ path[1] = <<a>> /\ path[2] = <<b>>
<1>1. \A x, y : x # Plus /\ y # Plus /\ Fits(Glob(Append(<<x, y>>, <<>>), caps, takes), path) =>
        Len(path) >= 3 /\ path[1] = x /\ path[2] = y
  BY DEF Fits, Glob
<1>2. Words(<<a, b>>) = <<<<a>>, <<b>>>> /\ <<a>> # Plus /\ <<b>> # Plus
  BY DEF Words, Plus
<1> QED BY <1>1, <1>2

\* A rule that ends with the beginning d of a segment.
LEMMA Glob3 ==
    ASSUME NEW a, NEW b, NEW c, a # "+", b # "+", c # "+", NEW d, d # Plus, NEW caps, NEW takes, NEW path
    PROVE  Fits(Glob(Append(Words(<<a, b, c>>), d), caps, takes), path) =>
             /\ Len(path) >= 4 /\ path[1] = <<a>> /\ path[2] = <<b>> /\ path[3] = <<c>>
             /\ path[4] = d \/ IsPrefix(d, path[4])
<1>1. \A x, y, z : x # Plus /\ y # Plus /\ z # Plus /\ Fits(Glob(Append(<<x, y, z>>, d), caps, takes), path) =>
        /\ Len(path) >= 4 /\ path[1] = x /\ path[2] = y /\ path[3] = z
        /\ path[4] = d \/ IsPrefix(d, path[4])
  BY DEF Fits, Glob
<1>2. Words(<<a, b, c>>) = <<<<a>>, <<b>>, <<c>>>>
  BY Words3
<1>3. <<a>> # Plus /\ <<b>> # Plus /\ <<c>> # Plus
  BY DEF Plus
<1> QED BY <1>1, <1>2, <1>3

LEMMA Below3 ==
    ASSUME NEW a, NEW b, NEW c, a # "+", b # "+", c # "+", NEW caps, NEW takes, NEW path,
           Fits(Glob(Append(Words(<<a, b, c>>), <<>>), caps, takes), path)
    PROVE  Len(path) >= 4 /\ path[1] = <<a>> /\ path[2] = <<b>> /\ path[3] = <<c>>
<1>1. <<>> # Plus
  BY DEF Plus
<1> QED BY <1>1, Glob3

LEMMA Plus5 ==
    ASSUME NEW a, NEW b, NEW c, NEW d, a # "+", b # "+", c # "+", d # "+", NEW caps, NEW takes, NEW path
    PROVE  Fits(Exact(Words(<<a, b, c>>) \o <<Plus, <<d>>>>, caps, takes), path) =>
             Len(path) = 5 /\ path[1] = <<a>> /\ path[2] = <<b>> /\ path[3] = <<c>> /\ path[5] = <<d>>
<1>1. \A x, y, z, u : x # Plus /\ y # Plus /\ z # Plus /\ u # Plus /\ Fits(Exact(<<x, y, z>> \o <<Plus, u>>, caps, takes), path) =>
        Len(path) = 5 /\ path[1] = x /\ path[2] = y /\ path[3] = z /\ path[5] = u
  BY DEF Fits, Exact
<1>2. Words(<<a, b, c>>) = <<<<a>>, <<b>>, <<c>>>>
  BY Words3
<1>3. <<a>> # Plus /\ <<b>> # Plus /\ <<c>> # Plus /\ <<d>> # Plus
  BY DEF Plus
<1> QED BY <1>1, <1>2, <1>3

LEMMA Mounts ==
    ASSUME NEW k \in Kinds
    PROVE  /\ TenantMount(k) \in {"approle-reader", "approle-writer"} /\ TenantMount(k) # "+"
           /\ \A m \in Kinds : TenantMount(m) = TenantMount(k) => m = k
BY DEF Kinds, TenantMount

LEMMA SelfReach ==
    ASSUME NEW r \in Default, NEW path, Fits(r, path)
    PROVE  /\ Len(path) = 3 /\ path[1] = <<"auth">> /\ path[2] = <<"token">>
           /\ path[3] \in {<<"lookup-self">>, <<"renew-self">>, <<"revoke-self">>}
<1>1. CASE r = Grant(Words(<<"auth", "token", "lookup-self">>), {"read"})
  <2>1. Len(path) = 3 /\ path[1] = <<"auth">> /\ path[2] = <<"token">> /\ path[3] = <<"lookup-self">>
    BY <1>1, FitsWords DEF Grant
  <2> QED BY <2>1
<1>2. CASE r = Grant(Words(<<"auth", "token", "renew-self">>), {"update"})
  <2>1. Len(path) = 3 /\ path[1] = <<"auth">> /\ path[2] = <<"token">> /\ path[3] = <<"renew-self">>
    BY <1>2, FitsWords DEF Grant
  <2> QED BY <2>1
<1>3. CASE r = Grant(Words(<<"auth", "token", "revoke-self">>), {"update"})
  <2>1. Len(path) = 3 /\ path[1] = <<"auth">> /\ path[2] = <<"token">> /\ path[3] = <<"revoke-self">>
    BY <1>3, FitsWords DEF Grant
  <2> QED BY <2>1
<1> QED BY <1>1, <1>2, <1>3 DEF Default, Self

LEMMA EntityReach ==
    ASSUME NEW r \in Entities, NEW path, Fits(r, path), "deny" \notin r.caps
    PROVE  /\ path[1] = <<"identity">> /\ path[2] \in {<<"entity">>, <<"entity-alias">>, <<"lookup">>}
           /\ path[2] = <<"entity">> => r.takes = Params \ {"policies", "disabled"}
           /\ Len(path) = 2 \/ path[3] \in {<<"name">>, <<"id">>, <<"entity">>}
<1>1. CASE r = Exact(Words(<<"identity", "entity">>), {"create", "update"}, Params \ {"policies", "disabled"})
  <2>1. Len(path) = 2 /\ path[1] = <<"identity">> /\ path[2] = <<"entity">>
    BY <1>1, FitsWords
  <2>2. r.takes = Params \ {"policies", "disabled"}
    BY <1>1, ExactFields
  <2> QED BY <2>1, <2>2
<1>2. CASE r = Glob(Append(Words(<<"identity", "entity", "name">>), <<>>),
                    {"read", "update", "delete"}, Params \ {"policies", "disabled"})
  <2>1. Len(path) >= 4 /\ path[1] = <<"identity">> /\ path[2] = <<"entity">> /\ path[3] = <<"name">>
    BY <1>2, Below3
  <2>2. r.takes = Params \ {"policies", "disabled"}
    BY <1>2, ExactFields
  <2> QED BY <2>1, <2>2
<1>3. CASE r = Grant(Words(<<"identity", "entity-alias">>), {"create", "update"})
  <2>1. Len(path) = 2 /\ path[1] = <<"identity">> /\ path[2] = <<"entity-alias">>
    BY <1>3, FitsWords DEF Grant
  <2> QED BY <2>1
<1>4. CASE r = Below(Words(<<"identity", "entity-alias", "id">>), {"read", "delete"})
  <2>1. Len(path) >= 4 /\ path[1] = <<"identity">> /\ path[2] = <<"entity-alias">> /\ path[3] = <<"id">>
    BY <1>4, Below3 DEF Below
  <2> QED BY <2>1
<1>5. CASE r = Grant(Words(<<"identity", "lookup", "entity">>), {"update"})
  <2>1. Len(path) = 3 /\ path[1] = <<"identity">> /\ path[2] = <<"lookup">> /\ path[3] = <<"entity">>
    BY <1>5, FitsWords DEF Grant
  <2> QED BY <2>1
<1>6. /\ Deny(Words(<<"identity", "entity", "merge">>)).caps = {"deny"}
      /\ Glob(Words(<<"identity", "group">>), {"deny"}, Params).caps = {"deny"}
      /\ DenyBelow(Words(<<"identity", "oidc">>)).caps = {"deny"}
      /\ DenyBelow(Words(<<"identity", "mfa">>)).caps = {"deny"}
  BY Denies, ExactFields
<1> QED BY <1>1, <1>2, <1>3, <1>4, <1>5, <1>6 DEF Entities

\* The rules on the roles of one mount.
LEMMA RoleReach ==
    ASSUME NEW k \in Kinds, NEW r \in TenantRoles(k), NEW path, Fits(r, path)
    PROVE  /\ path[1] = <<"auth">> /\ path[2] = <<TenantMount(k)>> /\ path[3] = <<"role">>
           /\ \/ Len(path) = 3 /\ r.caps = {"list"}
              \/ Len(path) >= 4 /\ r.takes = {TenantPolicy(k), "limits"}
              \/ Len(path) = 5 /\ path[5] = <<"role-id">> /\ r.caps = {"read"}
              \/ Len(path) = 5 /\ path[5] = <<"secret-id">> /\ r.caps = {"update"}
<1>0. TenantMount(k) # "+"
  BY Mounts
<1>1. CASE r = Grant(RolePath(k), {"list"})
  <2>1. Len(path) = 3 /\ path[1] = <<"auth">> /\ path[2] = <<TenantMount(k)>> /\ path[3] = <<"role">>
    BY <1>0, <1>1, FitsWords DEF Grant, RolePath
  <2> QED BY <1>1, <2>1, RuleFields
<1>2. CASE r = Glob(Append(RolePath(k), <<>>), Managed \union {"list"}, {TenantPolicy(k), "limits"})
  <2>1. Len(path) >= 4 /\ path[1] = <<"auth">> /\ path[2] = <<TenantMount(k)>> /\ path[3] = <<"role">>
    BY <1>0, <1>2, Below3 DEF RolePath
  <2> QED BY <1>2, <2>1, ExactFields
<1>3. ASSUME NEW s, s # "+", NEW c, r = Grant(RolePath(k) \o <<Plus, <<s>>>>, c)
      PROVE  /\ Len(path) = 5 /\ path[1] = <<"auth">> /\ path[2] = <<TenantMount(k)>> /\ path[3] = <<"role">>
             /\ path[5] = <<s>> /\ r.caps = c
  <2>1. Fits(Exact(Words(<<"auth", TenantMount(k), "role">>) \o <<Plus, <<s>>>>, c, Params), path)
    BY <1>3 DEF Grant, RolePath
  <2>2. r.caps = c
    BY <1>3, RuleFields
  <2> QED BY <1>0, <1>3, <2>1, <2>2, Plus5
<1>4. CASE r = Grant(RolePath(k) \o <<Plus, <<"role-id">>>>, {"read"})
  BY <1>3, <1>4
<1>5. CASE r = Grant(RolePath(k) \o <<Plus, <<"secret-id">>>>, {"update"})
  BY <1>3, <1>5
<1> QED BY <1>1, <1>2, <1>4, <1>5 DEF TenantRoles

LEMMA ProvisioningReach ==
    ASSUME NEW r \in Provisioning, NEW path, Fits(r, path), "deny" \notin r.caps
    PROVE  \/ \E k \in Kinds : r \in TenantRoles(k)
           \/ r \in Default
           \/ path[1] = <<"sys">> /\ r.caps = {"read"}
           \/ r \in Entities
<1>1. CASE r \in TenantRoles("reader") \union TenantRoles("writer") \union Self
  BY <1>1 DEF Kinds, Default
<1>2. ASSUME NEW s \in {"mounts", "auth"}, r = Grant(Words(<<"sys", s>>), {"read"})
      PROVE  path[1] = <<"sys">> /\ r.caps = {"read"}
  <2>1. Len(path) = 2 /\ path[1] = <<"sys">> /\ path[2] = <<s>>
    BY <1>2, FitsWords DEF Grant
  <2>2. r.caps = {"read"}
    BY <1>2, RuleFields
  <2> QED BY <2>1, <2>2
<1>3. /\ r # DenyBelow(<<<<"kv">>>>) /\ r # Deny(Words(<<"sys", "audit">>)) /\ r # DenyTokenCreate
      /\ r # DenyBelow(<<<<"identity">>>>) /\ \A s : r # DenyBelow(Words(<<"sys", s>>))
  BY Denies, ExactFields DEF DenyTokenCreate
<1> QED BY <1>1, <1>2, <1>3 DEF Provisioning

LEMMA AppsAuthReach ==
    ASSUME NEW r \in AppsAuth, NEW path, Fits(r, path), "deny" \notin r.caps
    PROVE  \/ path[1] = <<"auth">> /\ path[2] \in {<<"aws">>, <<"gcp">>}
           \/ r \in Default
           \/ path[1] = <<"sys">> /\ r.caps = {"read"}
           \/ r \in Entities
<1>1. CASE r = Grant(Words(<<"sys", "auth">>), {"read"})
  <2>1. Len(path) = 2 /\ path[1] = <<"sys">> /\ path[2] = <<"auth">>
    BY <1>1, FitsWords DEF Grant
  <2>2. r.caps = {"read"}
    BY <1>1, RuleFields
  <2> QED BY <2>1, <2>2
<1>2. ASSUME NEW m \in {"aws", "gcp"}, r = Grant(Words(<<"auth", m, "role">>), {"list"})
      PROVE  path[1] = <<"auth">> /\ path[2] = <<m>>
  <2>1. m # "+"
    OBVIOUS
  <2> QED BY <1>2, <2>1, FitsWords DEF Grant
<1>3. ASSUME NEW m \in {"aws", "gcp"}, r = Below(Words(<<"auth", m, "role">>), Managed \union {"list"})
      PROVE  path[1] = <<"auth">> /\ path[2] = <<m>>
  <2>1. m # "+"
    OBVIOUS
  <2> QED BY <1>3, <2>1, Below3 DEF Below
<1>4. r # DenyBelow(<<<<"kv">>>>)
  BY Denies
<1>5. CASE r \in Self \union Entities
  BY <1>5 DEF Default
<1> QED BY <1>1, <1>2, <1>3, <1>4, <1>5 DEF AppsAuth

\* The rules of the apps policies: none but a broker's own.
LEMMA AppsReach ==
    ASSUME NEW k \in Kinds, NEW r \in Apps(k), "deny" \notin r.caps
    PROVE  r \in Minting(k) \/ r \in Default
<1>1. /\ r # DenyBelow(Words(<<"auth", TenantMount(Other(k))>>)) /\ r # DenyBelow(<<<<"kv">>>>)
      /\ r # DenyBelow(<<<<"sys">>>>) /\ r # DenyTokenCreate /\ r # DenyBelow(<<<<"identity">>>>)
  BY Denies, ExactFields DEF DenyTokenCreate
<1> QED BY <1>1 DEF Apps, Default

LEMMA DotNotPlus == ASSUME NEW S, NEW e \in Seq(S) PROVE e \o <<".">> # Plus
<1>1. <<".">> \in Seq({"."} \union S) /\ e \in Seq({"."} \union S) /\ Len(<<".">>) = 1 /\ <<".">>[1] = "."
  OBVIOUS
<1>2. Len(e \o <<".">>) = Len(e) + 1 /\ (e \o <<".">>)[Len(e) + 1] = "."
  BY <1>1, ConcatProperties
<1>3. Len(Plus) = 1 /\ Plus[1] # "."
  BY DEF Plus
<1> QED BY <1>2, <1>3

LEMMA MintingReach ==
    ASSUME NEW k \in Kinds, NEW r \in Minting(k), NEW path, Fits(r, path), NEW S, token.env \in Seq(S)
    PROVE  /\ path[1] = <<"auth">> /\ path[2] = <<TenantMount(k)>> /\ path[3] = <<"role">>
           /\ shared => /\ token.env # Unknown /\ r.takes = {} /\ r.caps = {"read", "update"} /\ Len(path) >= 4
                        /\ path[4] = token.env \o <<".">> \/ IsPrefix(token.env \o <<".">>, path[4])
           /\ ~shared => /\ Len(path) = 5
                         /\ \/ path[5] = <<"role-id">> /\ r.caps = {"read"}
                            \/ path[5] = <<"secret-id">> /\ r.caps = {"update"}
<1>0. TenantMount(k) # "+"
  BY Mounts
<1>1. CASE shared
  <2>1. token.env # Unknown /\ r = Glob(Append(RolePath(k), token.env \o <<".">>), {"read", "update"}, {})
    BY <1>1 DEF Minting
  <2>2. r.caps = {"read", "update"} /\ r.takes = {}
    BY <2>1, ExactFields
  <2>3. token.env \o <<".">> # Plus
    BY DotNotPlus
  <2>4. Fits(Glob(Append(Words(<<"auth", TenantMount(k), "role">>), token.env \o <<".">>), {"read", "update"}, {}), path)
    BY <2>1 DEF RolePath
  <2>5. /\ Len(path) >= 4 /\ path[1] = <<"auth">> /\ path[2] = <<TenantMount(k)>> /\ path[3] = <<"role">>
        /\ path[4] = token.env \o <<".">> \/ IsPrefix(token.env \o <<".">>, path[4])
    BY <1>0, <2>3, <2>4, Glob3
  <2> QED BY <1>1, <2>1, <2>2, <2>5
<1>2. CASE ~shared
  <2>1. ASSUME NEW s, s # "+", NEW c, r = Grant(RolePath(k) \o <<Plus, <<s>>>>, c)
        PROVE  /\ Len(path) = 5 /\ path[1] = <<"auth">> /\ path[2] = <<TenantMount(k)>> /\ path[3] = <<"role">>
               /\ path[5] = <<s>> /\ r.caps = c
    <3>1. Fits(Exact(Words(<<"auth", TenantMount(k), "role">>) \o <<Plus, <<s>>>>, c, Params), path)
      BY <2>1 DEF Grant, RolePath
    <3>2. r.caps = c
      BY <2>1, RuleFields
    <3> QED BY <1>0, <2>1, <3>1, <3>2, Plus5
  <2>2. CASE r = Grant(RolePath(k) \o <<Plus, <<"role-id">>>>, {"read"})
    BY <1>2, <2>1, <2>2
  <2>3. CASE r = Grant(RolePath(k) \o <<Plus, <<"secret-id">>>>, {"update"})
    BY <1>2, <2>1, <2>3
  <2> QED BY <1>2, <2>2, <2>3 DEF Minting
<1> QED BY <1>1, <1>2

LEMMA Concat31 == ASSUME NEW a, NEW b, NEW c, NEW d PROVE <<a, b, c>> \o <<d>> = <<a, b, c, d>>
<1> DEFINE S == {a, b, c, d}
<1>1. <<a, b, c>> \in Seq(S) /\ <<d>> \in Seq(S) /\ <<a, b, c, d>> \in Seq(S)
  OBVIOUS
<1>2. <<a, b, c>> \o <<d>> \in Seq(S) /\ Len(<<a, b, c>> \o <<d>>) = 4 /\ Len(<<a, b, c, d>>) = 4
  BY <1>1, ConcatProperties
<1>3. \A i \in 1..4 : (<<a, b, c>> \o <<d>>)[i] = <<a, b, c, d>>[i]
  OBVIOUS
<1> HIDE DEF S
<1> QED BY <1>1, <1>2, <1>3, SeqEqual

LEMMA Concat32 == ASSUME NEW a, NEW b, NEW c, NEW d, NEW e PROVE <<a, b, c>> \o <<d, e>> = <<a, b, c, d, e>>
<1> DEFINE S == {a, b, c, d, e}
<1>1. <<a, b, c>> \in Seq(S) /\ <<d, e>> \in Seq(S) /\ <<a, b, c, d, e>> \in Seq(S)
  OBVIOUS
<1>2. <<a, b, c>> \o <<d, e>> \in Seq(S) /\ Len(<<a, b, c>> \o <<d, e>>) = 5 /\ Len(<<a, b, c, d, e>>) = 5
  BY <1>1, ConcatProperties
<1>3. \A i \in 1..5 : (<<a, b, c>> \o <<d, e>>)[i] = <<a, b, c, d, e>>[i]
  OBVIOUS
<1> HIDE DEF S
<1> QED BY <1>1, <1>2, <1>3, SeqEqual

\* The paths of the rules on raft.
LEMMA RaftWords ==
    /\ Words(<<"sys", "storage", "raft">> \o <<"snapshot">>) = Words(<<"sys", "storage", "raft", "snapshot">>)
    /\ Words(<<"sys", "storage", "raft">> \o <<"configuration">>) = Words(<<"sys", "storage", "raft", "configuration">>)
    /\ Words(<<"sys", "storage", "raft">> \o <<"autopilot", "state">>)
          = Words(<<"sys", "storage", "raft", "autopilot", "state">>)
<1>1. /\ <<"sys", "storage", "raft">> \o <<"snapshot">> = <<"sys", "storage", "raft", "snapshot">>
      /\ <<"sys", "storage", "raft">> \o <<"configuration">> = <<"sys", "storage", "raft", "configuration">>
  BY Concat31
<1>2. <<"sys", "storage", "raft">> \o <<"autopilot", "state">> = <<"sys", "storage", "raft", "autopilot", "state">>
  BY Concat32
<1> QED BY <1>1, <1>2

LEMMA OperatorReach ==
    ASSUME NEW r \in Operator, NEW path, Fits(r, path), "deny" \notin r.caps
    PROVE  \/ r \in Default
           \/ \E k \in Kinds : /\ path[1] = <<"auth">> /\ path[2] = <<TenantMount(k)>>
                               /\ r.caps \subseteq {"list", "read"}
           \/ /\ path[1] = <<"sys">>
              /\ \/ r.caps \subseteq {"list", "read", "sudo"}
                 \/ path[2] \in {<<"leases">>, <<"generate-root">>, <<"step-down">>}
                 \/ path[2] = <<"storage">> /\ path[4] = <<"remove-peer">>
<1> DEFINE Reads == path[1] = <<"sys">> /\ r.caps \subseteq {"list", "read", "sudo"}
           Acts  == path[1] = <<"sys">> /\ path[2] \in {<<"leases">>, <<"generate-root">>, <<"step-down">>}
           Peer  == path[1] = <<"sys">> /\ path[2] = <<"storage">> /\ path[4] = <<"remove-peer">>
           Roles == \E k \in Kinds : path[1] = <<"auth">> /\ path[2] = <<TenantMount(k)>> /\ r.caps \subseteq {"list", "read"}
<1>1. ASSUME NEW w \in {<<"sys", "health">>, <<"sys", "mounts">>, <<"sys", "audit">>}, r = Grant(Words(w), {"read", "sudo"})
      PROVE  Reads
  <2>1. CASE w = <<"sys", "health">>
    <3>1. path[1] = <<"sys">>
      BY <1>1, <2>1, FitsWords DEF Grant
    <3> QED BY <1>1, <3>1, RuleFields
  <2>2. CASE w = <<"sys", "mounts">>
    <3>1. path[1] = <<"sys">>
      BY <1>1, <2>2, FitsWords DEF Grant
    <3> QED BY <1>1, <3>1, RuleFields
  <2>3. CASE w = <<"sys", "audit">>
    <3>1. path[1] = <<"sys">>
      BY <1>1, <2>3, FitsWords DEF Grant
    <3> QED BY <1>1, <3>1, RuleFields
  <2> QED BY <2>1, <2>2, <2>3
<1>2. ASSUME NEW s \in {"seal-status", "leader", "auth"}, r = Grant(Words(<<"sys", s>>), {"read"})
      PROVE  Reads
  <2>1. s # "+"
    OBVIOUS
  <2>2. path[1] = <<"sys">>
    BY <1>2, <2>1, FitsWords DEF Grant
  <2> QED BY <1>2, <2>2, RuleFields
<1>3. ASSUME NEW s \in {<<"snapshot">>, <<"configuration">>, <<"autopilot", "state">>},
             r = Grant(Words(<<"sys", "storage", "raft">> \o s), {"read"})
      PROVE  Reads
  <2>1. CASE s = <<"snapshot">>
    <3>1. Fits(Grant(Words(<<"sys", "storage", "raft", "snapshot">>), {"read"}), path)
      BY <1>3, <2>1, RaftWords
    <3>2. path[1] = <<"sys">>
      BY <3>1, FitsWords DEF Grant
    <3> QED BY <1>3, <3>2, RuleFields
  <2>2. CASE s = <<"configuration">>
    <3>1. Fits(Grant(Words(<<"sys", "storage", "raft", "configuration">>), {"read"}), path)
      BY <1>3, <2>2, RaftWords
    <3>2. path[1] = <<"sys">>
      BY <3>1, FitsWords DEF Grant
    <3> QED BY <1>3, <3>2, RuleFields
  <2>3. CASE s = <<"autopilot", "state">>
    <3>1. Fits(Grant(Words(<<"sys", "storage", "raft", "autopilot", "state">>), {"read"}), path)
      BY <1>3, <2>3, RaftWords
    <3>2. path[1] = <<"sys">>
      BY <3>1, FitsWords DEF Grant
    <3> QED BY <1>3, <3>2, RuleFields
  <2> QED BY <1>3, <2>1, <2>2, <2>3
<1>4. CASE r = Below(Words(<<"sys", "mounts">>), {"read"})
  <2>1. path[1] = <<"sys">>
    BY <1>4, Below2 DEF Below
  <2>2. Reads
    BY <1>4, <2>1, RuleFields
  <2> QED BY <2>2
<1>5. CASE r = Below(Words(<<"sys", "policies", "acl">>), {"read"})
  <2>1. path[1] = <<"sys">>
    BY <1>5, Below3 DEF Below
  <2>2. Reads
    BY <1>5, <2>1, RuleFields
  <2> QED BY <2>2
<1>6. CASE r = Grant(Words(<<"sys", "policies", "acl">>), {"list"})
  <2>1. path[1] = <<"sys">>
    BY <1>6, FitsWords DEF Grant
  <2>2. Reads
    BY <1>6, <2>1, RuleFields
  <2> QED BY <2>2
<1>7. ASSUME NEW k \in Kinds, r = Grant(RolePath(k), {"list"}) \/ r = Below(RolePath(k), {"read"})
      PROVE  path[1] = <<"auth">> /\ path[2] = <<TenantMount(k)>> /\ r.caps \subseteq {"list", "read"}
  <2>0. TenantMount(k) # "+"
    BY Mounts
  <2>1. CASE r = Grant(RolePath(k), {"list"})
    <3>1. path[1] = <<"auth">> /\ path[2] = <<TenantMount(k)>>
      BY <2>0, <2>1, FitsWords DEF Grant, RolePath
    <3> QED BY <2>1, <3>1, RuleFields
  <2>2. CASE r = Below(RolePath(k), {"read"})
    <3>1. path[1] = <<"auth">> /\ path[2] = <<TenantMount(k)>>
      BY <2>0, <2>2, Below3 DEF Below, RolePath
    <3> QED BY <2>2, <3>1, RuleFields
  <2> QED BY <1>7, <2>1, <2>2
<1>8. ASSUME NEW s \in {"lookup", "revoke"}, r = Grant(Words(<<"sys", "leases", s>>), {"update"})
      PROVE  Acts
  <2>1. s # "+"
    OBVIOUS
  <2>2. path[1] = <<"sys">> /\ path[2] = <<"leases">>
    BY <1>8, <2>1, FitsWords DEF Grant
  <2> QED BY <2>2
<1>9. ASSUME NEW s, s # "+", NEW c, r = Below(Words(<<"sys", "leases", s>>), c)
      PROVE  Acts
  <2>2. path[1] = <<"sys">> /\ path[2] = <<"leases">>
    BY <1>9, Below3 DEF Below
  <2> QED BY <2>2
<1>10. CASE r = Grant(Words(<<"sys", "generate-root">>), Managed \union {"sudo"})
  <2>1. path[1] = <<"sys">> /\ path[2] = <<"generate-root">>
    BY <1>10, FitsWords DEF Grant
  <2> QED BY <2>1
<1>11. CASE r = Below(Words(<<"sys", "generate-root">>), Managed \union {"sudo"})
  <2>1. path[1] = <<"sys">> /\ path[2] = <<"generate-root">>
    BY <1>11, Below2 DEF Below
  <2> QED BY <2>1
<1>12. ASSUME NEW w \in {<<"sys", "step-down">>, <<"sys", "storage", "raft", "remove-peer">>},
              r = Grant(Words(w), {"update", "sudo"})
       PROVE  Acts \/ Peer
  <2>1. CASE w = <<"sys", "step-down">>
    <3>1. path[1] = <<"sys">> /\ path[2] = <<"step-down">>
      BY <1>12, <2>1, FitsWords DEF Grant
    <3> QED BY <3>1
  <2>2. CASE w = <<"sys", "storage", "raft", "remove-peer">>
    <3>1. path[1] = <<"sys">> /\ path[2] = <<"storage">> /\ path[4] = <<"remove-peer">>
      BY <1>12, <2>2, FitsWords DEF Grant
    <3> QED BY <3>1
  <2> QED BY <1>12, <2>1, <2>2
<1>13. \A p : r # DenyBelow(p) /\ r # Deny(p)
  BY Denies
<1>14. CASE r \in Default
  BY <1>14
<1>15. CASE \E w \in {<<"sys", "health">>, <<"sys", "mounts">>, <<"sys", "audit">>} : r = Grant(Words(w), {"read", "sudo"})
  BY <1>1, <1>15
<1>16. CASE \E s \in {"seal-status", "leader", "auth"} : r = Grant(Words(<<"sys", s>>), {"read"})
  BY <1>2, <1>16
<1>17. CASE \E s \in {<<"snapshot">>, <<"configuration">>, <<"autopilot", "state">>} :
              r = Grant(Words(<<"sys", "storage", "raft">> \o s), {"read"})
  BY <1>3, <1>17
<1>18. CASE \E k \in Kinds : r = Grant(RolePath(k), {"list"}) \/ r = Below(RolePath(k), {"read"})
  BY <1>7, <1>18
<1>19. CASE \E s \in {"lookup", "revoke"} : r = Grant(Words(<<"sys", "leases", s>>), {"update"})
  BY <1>8, <1>19
<1>20. CASE r = Below(Words(<<"sys", "leases", "lookup">>), {"list", "read"})
  BY <1>9, <1>20
<1>21. CASE r = Below(Words(<<"sys", "leases", "revoke-prefix">>), {"update", "sudo"})
  BY <1>9, <1>21
<1>22. CASE \E w \in {<<"sys", "step-down">>, <<"sys", "storage", "raft", "remove-peer">>} :
              r = Grant(Words(w), {"update", "sudo"})
  BY <1>12, <1>22
<1> QED BY <1>4, <1>5, <1>6, <1>10, <1>11, <1>13, <1>14, <1>15, <1>16, <1>17, <1>18, <1>19, <1>20, <1>21, <1>22 DEF Operator

LEMMA TenantReach ==
    ASSUME NEW k \in Kinds, token.policy = TenantPolicy(k), NEW r \in RenderPolicy(token.policy), "deny" \notin r.caps
    PROVE  \/ r \in Default
           \/ /\ token.tenant # Unknown
              /\ \E f \in Families : \E caps :
                    /\ r = Below(<<<<"kv">>, <<f>>>> \o Folder(token.env, token.tenant), caps)
                    /\ k = "reader" => caps \subseteq {"read", "list"}
<1>1. r \notin TenantDenies
  <2>1. \A p : r # DenyBelow(p) /\ r # Deny(p)
    BY Denies
  <2>2. r # DenyTokenCreate
    BY ExactFields DEF DenyTokenCreate
  <2> QED BY <2>1, <2>2 DEF TenantDenies
<1>2. ASSUME NEW f, NEW caps, r \in Own(f, caps)
      PROVE  token.tenant # Unknown /\ r = Below(<<<<"kv">>, <<f>>>> \o Folder(token.env, token.tenant), caps)
  BY <1>2 DEF Own
<1>3. CASE k = "reader"
  <2>1. RenderPolicy(token.policy) = TenantReader
    BY <1>3 DEF RenderPolicy, TenantPolicy
  <2>2. r \in Own("data", {"read"}) \/ r \in Own("metadata", {"read", "list"}) \/ r \in Default
    BY <1>1, <2>1 DEF TenantReader, Default
  <2>3. /\ {"read"} \subseteq {"read", "list"} /\ {"read", "list"} \subseteq {"read", "list"}
        /\ "data" \in Families /\ "metadata" \in Families
    BY DEF Families
  <2> QED BY <1>2, <2>2, <2>3
<1>4. CASE k = "writer"
  <2>1. RenderPolicy(token.policy) = TenantWriter
    BY <1>4 DEF RenderPolicy, TenantPolicy
  <2> DEFINE Data == Own("data", Caps \ {"sudo"})
             Meta == Own("metadata", Managed \union {"list"})
             Acts == UNION {Own(f, {"update"}) : f \in {"delete", "undelete", "destroy"}}
  <2>2. r \in Data \/ r \in Meta \/ r \in Acts \/ r \in Default
    <3>1. TenantWriter = Data \union Meta \union Acts \union Self \union TenantDenies
      BY DEF TenantWriter
    <3>2. Self \subseteq Default
      BY DEF Default
    <3> HIDE DEF Data, Meta, Acts
    <3> QED BY <1>1, <2>1, <3>1, <3>2
  <2>3. CASE r \in Acts
    <3>1. PICK f \in {"delete", "undelete", "destroy"} : r \in Own(f, {"update"})
      BY <2>3, Zenon
    <3>2. f \in Families
      BY DEF Families
    <3> QED BY <1>2, <1>4, <3>1, <3>2
  <2>4. CASE r \in Data
    BY <1>2, <1>4, <2>4 DEF Families
  <2>5. CASE r \in Meta
    BY <1>2, <1>4, <2>5 DEF Families
  <2> QED BY <2>2, <2>3, <2>4, <2>5
<1> QED BY <1>3, <1>4 DEF Kinds

\* What the elements of a prefix are.
LEMMA PrefixElements ==
    ASSUME NEW S, NEW s \in Seq(S), NEW t \in Seq(S)
    PROVE  IsPrefix(s, t) <=> Len(s) <= Len(t) /\ \A i \in 1..Len(s) : s[i] = t[i]
<1>1. Len(s) \in Nat /\ Len(t) \in Nat
  OBVIOUS
<1>2. SubSeq(s, 1, Len(s)) = s
  BY SubSeqFull
<1>3. ASSUME Len(s) <= Len(t)
      PROVE  /\ SubSeq(t, 1, Len(s)) \in Seq(S) /\ Len(SubSeq(t, 1, Len(s))) = Len(s)
             /\ \A i \in 1..Len(s) : SubSeq(t, 1, Len(s))[i] = t[i]
  <2>1. \A i \in 1..Len(s) : t[i] \in S
    BY <1>1, <1>3
  <2> QED BY <1>1, <2>1, SubSeqProperties
<1>4. ASSUME Len(s) <= Len(t), \A i \in 1..Len(s) : s[i] = t[i] PROVE s = SubSeq(t, 1, Len(s))
  BY <1>3, <1>4, SeqEqual
<1> QED BY <1>1, <1>2, <1>3, <1>4 DEF IsPrefix

\* A rule below a folder of the KV mount fits nothing outside the folder.
LEMMA FolderFits ==
    ASSUME NEW f, <<f>> # Plus, NEW S, NEW folder \in Seq(S), Plus \notin S, NEW caps,
           NEW T, NEW path \in Seq(T), Fits(Below(<<<<"kv">>, <<f>>>> \o folder, caps), path)
    PROVE  path[1] = <<"kv">> /\ path[2] = <<f>> /\ Len(path) >= Len(folder) + 3
           /\ IsPrefix(folder, SubSeq(path, 3, Len(path)))
<1> DEFINE p == <<<<"kv">>, <<f>>>> \o folder
           r == Below(p, caps)
           U == {<<"kv">>, <<f>>, <<>>} \union S
<1>1. <<<<"kv">>, <<f>>>> \in Seq(U) /\ Len(<<<<"kv">>, <<f>>>>) = 2 /\ folder \in Seq(U) /\ <<>> \in U
  OBVIOUS
<1>2. /\ p \in Seq(U) /\ Len(p) = Len(folder) + 2 /\ p[1] = <<"kv">> /\ p[2] = <<f>>
      /\ \A i \in 1..Len(folder) : p[i + 2] = folder[i]
  BY <1>1, ConcatProperties
<1> HIDE DEF U, p
<1>3. /\ r.glob /\ Len(r.path) = Len(p) + 1 /\ \A i \in 1..Len(p) : r.path[i] = p[i]
  BY <1>1, <1>2, AppendProperties DEF Below, Glob
<1>4. Fits(r, path)
  BY DEF p
<1> HIDE DEF r
<1>5. Len(path) >= Len(p) + 1 /\ \A i \in 1..Len(p) : p[i] = Plus \/ path[i] = p[i]
  <2>1. Len(p) \in Nat
    BY <1>2
  <2>2. Len(path) >= Len(p) + 1
    BY <1>3, <1>4 DEF Fits
  <2>3. \A i \in 1..Len(p) + 1 : r.path[i] = Plus \/ r.path[i] = path[i] \/ i = Len(p) + 1
    BY <1>3, <1>4 DEF Fits
  <2> QED BY <1>3, <2>1, <2>2, <2>3
<1>6. Len(folder) \in Nat /\ Len(path) \in Nat /\ <<"kv">> # Plus
  BY DEF Plus
<1>7. path[1] = <<"kv">> /\ path[2] = <<f>> /\ Len(path) >= Len(folder) + 3
  <2>1. 1 \in 1..Len(p) /\ 2 \in 1..Len(p)
    BY <1>2, <1>6
  <2>2. p[1] # Plus /\ p[2] # Plus
    BY <1>2, <1>6
  <2>3. path[1] = p[1] /\ path[2] = p[2]
    BY <1>5, <2>1, <2>2
  <2>4. Len(path) >= Len(folder) + 3
    BY <1>2, <1>5, <1>6
  <2> QED BY <1>2, <2>3, <2>4
<1>8. \A i \in 1..Len(folder) : path[i + 2] = folder[i]
  <2> SUFFICES ASSUME NEW i \in 1..Len(folder) PROVE path[i + 2] = folder[i]
    OBVIOUS
  <2>1. i + 2 \in 1..Len(p) /\ folder[i] \in S
    BY <1>2, <1>6
  <2> QED BY <1>2, <1>5, <2>1
<1> DEFINE rest == SubSeq(path, 3, Len(path))
<1>9. rest \in Seq(T) /\ Len(rest) = Len(path) - 2 /\ \A i \in 1..Len(path) - 2 : rest[i] = path[i + 2]
  <2>1. \A i \in 3..Len(path) : path[i] \in T
    BY <1>6
  <2>2. rest \in Seq(T) /\ Len(rest) = Len(path) - 3 + 1 /\ \A i \in 1..Len(path) - 3 + 1 : rest[i] = path[3 + i - 1]
    BY <1>6, <1>7, <2>1, SubSeqProperties
  <2> QED BY <1>6, <2>2
<1> HIDE DEF rest
<1>10. \A i \in 1..Len(folder) : folder[i] = rest[i]
  BY <1>6, <1>7, <1>8, <1>9
<1>11. folder \in Seq(S \union T) /\ rest \in Seq(S \union T)
  BY <1>9
<1>12. IsPrefix(folder, rest)
  BY <1>6, <1>7, <1>9, <1>10, <1>11, PrefixElements
<1> QED BY <1>7, <1>12 DEF rest

LEMMA FolderIs ==
    ASSUME NEW e \in Envs \union {Unknown}, NEW i \in Ids
    PROVE  Folder(e, i) \in Seq({<<"customers">>, <<"envs">>} \union Envs \union Ids) /\ Len(Folder(e, i)) >= 2
<1>1. CASE e = Unknown
  BY <1>1 DEF Folder
<1>2. CASE e # Unknown
  BY <1>2 DEF Folder
<1> QED BY <1>1, <1>2

(***************************************************************************)
(* Who holds a token, and what grants a request.                           *)
(***************************************************************************)

LEMMA TokenIs ==
    ASSUME token \in Tokens
    PROVE  \/ token.policy \in {"provisioning", "operator", "apps-auth"} /\ token.env = Unknown
           \/ \E k \in Kinds : token.policy = AppsPolicy(k) /\ token.env \in TenantEnvs \union {Unknown}
           \/ \E k \in Kinds : /\ token.policy = TenantPolicy(k)
                               /\ token.tenant # Unknown => token.env \in TenantEnvs /\ token.tenant \in Ids
BY DEF Tokens

LEMMA PolicyNames ==
    /\ RenderPolicy("provisioning") = Provisioning /\ RenderPolicy("operator") = Operator
    /\ RenderPolicy("apps-auth") = AppsAuth
    /\ \A k \in Kinds : RenderPolicy(AppsPolicy(k)) = Apps(k)
<1>1. /\ RenderPolicy("provisioning") = Provisioning /\ RenderPolicy("operator") = Operator
      /\ RenderPolicy("apps-auth") = AppsAuth
  BY DEF RenderPolicy
<1>2. RenderPolicy("apps-reader") = Apps("reader") /\ RenderPolicy("apps-writer") = Apps("writer")
  BY DEF RenderPolicy, AppsReader, AppsWriter
<1> QED BY <1>1, <1>2 DEF Kinds, AppsPolicy

LEMMA GrantingRule ==
    ASSUME NEW rules, NEW q, Granted(rules, q)
    PROVE  \E r \in rules : Fits(r, q.path) /\ q.cap \in r.caps /\ q.params \subseteq r.takes /\ "deny" \notin r.caps
BY DEF Granted

\* What the rules of a token fit; the three kinds of policy apart.
LEMMA Reach ==
    ASSUME token \in Tokens, NEW r \in RenderPolicy(token.policy) \union Default, "deny" \notin r.caps,
           NEW path, Fits(r, path)
    PROVE  \/ path[1] \in {<<"auth">>, <<"sys">>, <<"identity">>}
           \/ /\ \E k \in Kinds : token.policy = TenantPolicy(k)
              /\ token.tenant # Unknown /\ r \notin Default
<1>1. CASE r \in Default
  BY <1>1, SelfReach
<1>2. CASE r \in Entities
  BY <1>2, EntityReach
<1>3. CASE r \in Provisioning
  BY <1>1, <1>2, <1>3, ProvisioningReach, RoleReach
<1>4. CASE r \in Operator
  BY <1>1, <1>4, OperatorReach
<1>5. CASE r \in AppsAuth
  BY <1>1, <1>2, <1>5, AppsAuthReach
<1>6. ASSUME NEW k \in Kinds, r \in Apps(k), token.env \in Seq(STRING)
      PROVE  path[1] = <<"auth">>
  BY <1>6, AppsReach, MintingReach, SelfReach
<1>7. ASSUME NEW k \in Kinds, token.policy = TenantPolicy(k), r \in RenderPolicy(token.policy), r \notin Default
      PROVE  token.tenant # Unknown
  BY <1>7, TenantReach
<1>8. TenantEnvs \union {Unknown} \subseteq Seq(STRING)
  BY NameSeq DEF TenantEnvs
<1> QED BY <1>1, <1>3, <1>4, <1>5, <1>6, <1>7, <1>8, TokenIs, PolicyNames

LEMMA RolePrefix ==
    ASSUME NEW k \in Kinds, NEW T, NEW path \in Seq(T), IsPrefix(RolePath(k), path)
    PROVE  Len(path) >= 3 /\ path[1] = <<"auth">> /\ path[2] = <<TenantMount(k)>> /\ path[3] = <<"role">>
<1> DEFINE p == RolePath(k)
           U == {<<"auth">>, <<TenantMount(k)>>, <<"role">>} \union T
<1>1. p = <<<<"auth">>, <<TenantMount(k)>>, <<"role">>>>
  BY Words3 DEF RolePath
<1>2. p \in Seq(U) /\ Len(p) = 3 /\ p[1] = <<"auth">> /\ p[2] = <<TenantMount(k)>> /\ p[3] = <<"role">>
  BY <1>1
<1>3. path \in Seq(U)
  OBVIOUS
<1> HIDE DEF p, U
<1>4. IsPrefix(p, path)
  BY DEF p
<1>5. Len(p) <= Len(path) /\ \A i \in 1..Len(p) : p[i] = path[i]
  BY <1>2, <1>3, <1>4, PrefixElements
<1>6. path[1] = p[1] /\ path[2] = p[2] /\ path[3] = p[3]
  BY <1>2, <1>5
<1> QED BY <1>2, <1>5, <1>6

LEMMA PoliciesDiffer ==
    ASSUME NEW k \in Kinds
    PROVE  /\ TenantPolicy(k) \notin {"provisioning", "operator", "apps-auth"}
           /\ AppsPolicy(k) \notin {"provisioning", "operator", "apps-auth"}
           /\ \A m \in Kinds : TenantPolicy(k) # AppsPolicy(m)
BY DEF Kinds, TenantPolicy, AppsPolicy

\* What a rule of a tenant policy fits, the default policy's rules aside.
LEMMA TenantFits ==
    ASSUME token \in Tokens, NEW k \in Kinds, token.policy = TenantPolicy(k), NEW r \in RenderPolicy(token.policy),
           r \notin Default, "deny" \notin r.caps, NEW T, NEW path \in Seq(T), Fits(r, path)
    PROVE  /\ path[1] = <<"kv">> /\ Len(path) >= 4 /\ token.tenant # Unknown
           /\ IsPrefix(Folder(token.env, token.tenant), SubSeq(path, 3, Len(path)))
           /\ k = "reader" => r.caps \subseteq {"read", "list"}
<1>1. PICK f, caps :
         /\ f \in Families /\ token.tenant # Unknown /\ r = Below(<<<<"kv">>, <<f>>>> \o Folder(token.env, token.tenant), caps)
         /\ k = "reader" => caps \subseteq {"read", "list"}
  BY TenantReach
<1>2. r.caps = caps
  BY <1>1, RuleFields
<1>3. token.env \in Envs \union {Unknown} /\ token.tenant \in Ids
  BY <1>1, TokenIs, PoliciesDiffer DEF TenantEnvs
<1> DEFINE S == {<<"customers">>, <<"envs">>} \union Envs \union Ids
<1>4. Folder(token.env, token.tenant) \in Seq(S) /\ Len(Folder(token.env, token.tenant)) >= 2
  BY <1>3, FolderIs
<1>5. Plus \notin S
  <2>1. <<"customers">> # Plus /\ <<"envs">> # Plus
    BY DEF Plus
  <2> QED BY <2>1, NameSeq
<1>6. <<f>> # Plus
  BY <1>1 DEF Families, Plus
<1> HIDE DEF S
<1>7. Fits(Below(<<<<"kv">>, <<f>>>> \o Folder(token.env, token.tenant), caps), path)
  BY <1>1
<1>8. /\ path[1] = <<"kv">> /\ Len(path) >= Len(Folder(token.env, token.tenant)) + 3
      /\ IsPrefix(Folder(token.env, token.tenant), SubSeq(path, 3, Len(path)))
  BY <1>4, <1>5, <1>6, <1>7, FolderFits
<1>9. Len(path) >= 4
  BY <1>4, <1>8
<1> QED BY <1>1, <1>2, <1>8, <1>9

(***************************************************************************)
(* Whatever is asked for: not only the paths that Requests lists.          *)
(***************************************************************************)

\* A secret is read or changed with a tenant token only, in the folder of its own
\* tenant, at any path below the KV mount; a reader only reads.  (tenant-reader.hcl.tpl,
\* tenant-writer.hcl.tpl)
THEOREM AnySecretOfOneTenant ==
    ASSUME token \in Tokens, NEW q, NEW T, q.path \in Seq(T),
           Granted(RenderPolicy(token.policy) \union Default, q), q.path[1] = <<"kv">>
    PROVE  \E k \in Kinds :
              /\ token.policy = TenantPolicy(k) /\ token.tenant # Unknown
              /\ IsPrefix(Folder(token.env, token.tenant), SubSeq(q.path, 3, Len(q.path)))
              /\ k = "reader" => q.cap \in {"read", "list"}
<1>1. PICK r \in RenderPolicy(token.policy) \union Default : Fits(r, q.path) /\ q.cap \in r.caps /\ "deny" \notin r.caps
  BY GrantingRule
<1>2. q.path[1] \notin {<<"auth">>, <<"sys">>, <<"identity">>}
  OBVIOUS
<1>3. PICK k \in Kinds : token.policy = TenantPolicy(k) /\ token.tenant # Unknown /\ r \notin Default
  BY <1>1, <1>2, Reach
<1>4. /\ IsPrefix(Folder(token.env, token.tenant), SubSeq(q.path, 3, Len(q.path)))
      /\ k = "reader" => r.caps \subseteq {"read", "list"}
  BY <1>1, <1>3, TenantFits
<1> QED BY <1>1, <1>3, <1>4

\* Whatever is written to any path of a role, the policies it is given are the tenant
\* policy of its mount or none; what mints a secret ID is no write of the role.
\* (provisioning.hcl.tpl, allowed_parameters)
THEOREM AnyRolePinned ==
    ASSUME token \in Tokens, NEW q, NEW T, q.path \in Seq(T), NEW k \in Kinds,
           Granted(RenderPolicy(token.policy) \union Default, q), IsPrefix(RolePath(k), q.path),
           q.cap \notin {"read", "list"}, q.path[Len(q.path)] # <<"secret-id">>
    PROVE  q.params \intersect RolePolicies \subseteq {TenantPolicy(k)}
<1>1. PICK r \in RenderPolicy(token.policy) \union Default :
         Fits(r, q.path) /\ q.cap \in r.caps /\ q.params \subseteq r.takes /\ "deny" \notin r.caps
  BY GrantingRule
<1>2. q.path[1] = <<"auth">> /\ q.path[2] = <<TenantMount(k)>>
  BY RolePrefix
<1>3. TenantMount(k) \in {"approle-reader", "approle-writer"}
  BY Mounts
<1>4. r \notin Default
  BY <1>1, <1>2, <1>3, SelfReach
<1>5. r \notin Entities
  BY <1>1, <1>2, EntityReach
<1>6. ASSUME NEW m \in Kinds, r \in TenantRoles(m)
      PROVE  q.params \intersect RolePolicies \subseteq {TenantPolicy(k)}
  <2>1. /\ q.path[2] = <<TenantMount(m)>>
        /\ \/ r.caps = {"list"} \/ r.caps = {"read"} \/ r.takes = {TenantPolicy(m), "limits"}
           \/ Len(q.path) = 5 /\ q.path[5] = <<"secret-id">>
    BY <1>1, <1>6, RoleReach
  <2>2. m = k
    BY <1>2, <2>1, Mounts
  <2>3. r.takes = {TenantPolicy(k), "limits"}
    BY <1>1, <2>1, <2>2
  <2> QED BY <1>1, <2>3 DEF RolePolicies
<1>7. CASE r \in Provisioning
  BY <1>1, <1>2, <1>4, <1>5, <1>6, <1>7, ProvisioningReach
<1>8. r \notin Operator
  BY <1>1, <1>2, <1>4, OperatorReach
<1>9. r \notin AppsAuth
  BY <1>1, <1>2, <1>3, <1>4, <1>5, AppsAuthReach
<1>10. ASSUME NEW m \in Kinds, r \in Apps(m), token.env \in Seq(STRING)
       PROVE  q.params = {}
  <2>1. r \in Minting(m)
    BY <1>1, <1>4, <1>10, AppsReach
  <2>2. /\ shared => r.takes = {}
        /\ ~shared => Len(q.path) = 5 /\ (r.caps = {"read"} \/ q.path[5] = <<"secret-id">>)
    BY <1>1, <1>10, <2>1, MintingReach
  <2> QED BY <1>1, <2>2
<1>11. ~\E m \in Kinds : token.policy = TenantPolicy(m) /\ r \in RenderPolicy(token.policy)
  BY <1>1, <1>2, <1>4, TenantFits
<1>12. TenantEnvs \union {Unknown} \subseteq Seq(STRING)
  BY NameSeq DEF TenantEnvs
<1> QED BY <1>4, <1>7, <1>8, <1>9, <1>10, <1>11, <1>12, TokenIs, PolicyNames

\* What a broker does to a role, it does to one of its own mount, and on a shared
\* cluster to one of its own env and without a parameter.  (apps-reader.hcl.tpl,
\* apps-writer.hcl.tpl)
THEOREM AnyBrokerInEnv ==
    ASSUME token \in Tokens, NEW q, NEW T, q.path \in Seq(T), NEW k \in Kinds, NEW m \in Kinds,
           Granted(RenderPolicy(token.policy) \union Default, q), token.policy = AppsPolicy(k),
           IsPrefix(RolePath(m), q.path)
    PROVE  /\ m = k /\ q.cap \in {"read", "update"}
           /\ shared => /\ q.params = {} /\ Len(q.path) >= 4 /\ token.env \in Envs
                        /\ q.path[4] = token.env \o <<".">> \/ IsPrefix(token.env \o <<".">>, q.path[4])
           /\ ~shared => Len(q.path) = 5
<1>1. PICK r \in RenderPolicy(token.policy) \union Default :
         Fits(r, q.path) /\ q.cap \in r.caps /\ q.params \subseteq r.takes /\ "deny" \notin r.caps
  BY GrantingRule
<1>2. q.path[1] = <<"auth">> /\ q.path[2] = <<TenantMount(m)>>
  BY RolePrefix
<1>3. TenantMount(m) \in {"approle-reader", "approle-writer"}
  BY Mounts
<1>4. r \notin Default
  BY <1>1, <1>2, <1>3, SelfReach
<1>5. r \in Minting(k)
  BY <1>1, <1>4, AppsReach, PolicyNames
<1>6. token.env \in TenantEnvs \union {Unknown}
  BY PoliciesDiffer, TokenIs
<1>7. token.env \in Seq(STRING)
  BY <1>6, NameSeq DEF TenantEnvs
<1>8. /\ q.path[2] = <<TenantMount(k)>>
      /\ shared => /\ token.env # Unknown /\ r.takes = {} /\ r.caps = {"read", "update"} /\ Len(q.path) >= 4
                   /\ q.path[4] = token.env \o <<".">> \/ IsPrefix(token.env \o <<".">>, q.path[4])
      /\ ~shared => Len(q.path) = 5 /\ (r.caps = {"read"} \/ r.caps = {"update"})
  BY <1>1, <1>5, <1>7, MintingReach
<1>9. m = k
  BY <1>2, <1>8, Mounts
<1>10. shared => token.env \in Envs
  BY <1>6, <1>8 DEF TenantEnvs
<1>11. shared => q.params = {}
  BY <1>1, <1>8
<1> QED BY <1>1, <1>8, <1>9, <1>10, <1>11

\* A path of words with a word in front.
LEMMA Words1Concat ==
    ASSUME NEW a, NEW w, Len(w) \in Nat, DOMAIN w = 1..Len(w), NEW S, w \in Seq(S)
    PROVE  /\ Len(Words(<<a>> \o w)) = Len(w) + 1 /\ Words(<<a>> \o w)[1] = <<a>>
           /\ \A i \in 1..Len(w) : Words(<<a>> \o w)[i + 1] = <<w[i]>>
<1> DEFINE U == S \union {a}
           p == <<a>> \o w
<1>1. <<a>> \in Seq(U) /\ w \in Seq(U) /\ Len(<<a>>) = 1 /\ <<a>>[1] = a
  OBVIOUS
<1>2. p \in Seq(U) /\ Len(p) = Len(w) + 1 /\ p[1] = a /\ \A i \in 1..Len(w) : p[i + 1] = w[i]
  BY <1>1, ConcatProperties
<1> HIDE DEF p, U
<1>3. Len(p) \in Nat /\ DOMAIN p = 1..Len(p)
  BY <1>2
<1>4. Len(Words(p)) = Len(p) /\ \A i \in 1..Len(p) : Words(p)[i] = <<p[i]>>
  BY <1>3, WordsIs
<1>5. 1 \in 1..Len(p) /\ \A i \in 1..Len(w) : i + 1 \in 1..Len(p)
  BY <1>2
<1>6. Len(Words(p)) = Len(w) + 1 /\ Words(p)[1] = <<a>> /\ \A i \in 1..Len(w) : Words(p)[i + 1] = <<w[i]>>
  BY <1>2, <1>4, <1>5
<1> QED BY <1>6 DEF p

LEMMA SysPath ==
    ASSUME NEW w, Len(w) \in Nat \ {0}, w = [i \in 1..Len(w) |-> w[i]]
    PROVE  /\ Words(<<"sys">> \o w)[1] = <<"sys">> /\ Words(<<"sys">> \o w)[2] = <<w[1]>>
           /\ Len(w) = 3 => Words(<<"sys">> \o w)[4] = <<w[3]>>
<1>1. w \in Seq({w[i] : i \in 1..Len(w)})
  <2>1. Len(w) \in Nat /\ w \in [1..Len(w) -> {w[i] : i \in 1..Len(w)}]
    OBVIOUS
  <2> QED BY <2>1
<1>2. 1 \in 1..Len(w) /\ (Len(w) = 3 => 3 \in 1..Len(w))
  OBVIOUS
<1>3. Words(<<"sys">> \o w)[1] = <<"sys">> /\ \A i \in 1..Len(w) : Words(<<"sys">> \o w)[i + 1] = <<w[i]>>
  <2>1. DOMAIN w = 1..Len(w)
    OBVIOUS
  <2> QED BY <1>1, <2>1, Words1Concat
<1>4. Words(<<"sys">> \o w)[1 + 1] = <<w[1]>> /\ (Len(w) = 3 => Words(<<"sys">> \o w)[3 + 1] = <<w[3]>>)
  BY <1>2, <1>3
<1> QED BY <1>3, <1>4

LEMMA PlatformPathIs ==
    ASSUME NEW path \in PlatformPaths
    PROVE  \/ /\ path[1] = <<"sys">>
              /\ \/ path[2] \in {<<"policies">>, <<"policy">>, <<"audit">>, <<"mounts">>, <<"auth">>}
                 \/ path[2] = <<"storage">> /\ path[4] \in {<<"snapshot">>, <<"snapshot-force">>}
           \/ path[1] = <<"auth">> /\ path[2] = <<"token">> /\ path[3] \in {<<"create">>, <<"create", "-orphan">>}
           \/ path[1] = <<"kv">> /\ Len(path) = 2
<1>1. ASSUME NEW w, Len(w) \in Nat \ {0}, w = [i \in 1..Len(w) |-> w[i]], path = Words(<<"sys">> \o w)
      PROVE  path[1] = <<"sys">> /\ path[2] = <<w[1]>> /\ (Len(w) = 3 => path[4] = <<w[3]>>)
  BY <1>1, SysPath
<1>2. CASE path = Words(<<"sys">> \o <<"policies", "acl", "operator">>)
  <2>1. path[1] = <<"sys">> /\ path[2] = <<"policies">>
    BY <1>1, <1>2
  <2> QED BY <2>1
<1>3. CASE path = Words(<<"sys">> \o <<"policies", "acl", "provisioning">>)
  <2>1. path[1] = <<"sys">> /\ path[2] = <<"policies">>
    BY <1>1, <1>3
  <2> QED BY <2>1
<1>4. CASE path = Words(<<"sys">> \o <<"policy", "operator">>)
  <2>1. path[1] = <<"sys">> /\ path[2] = <<"policy">>
    BY <1>1, <1>4
  <2> QED BY <2>1
<1>5. CASE path = Words(<<"sys">> \o <<"audit">>)
  <2>1. path[1] = <<"sys">> /\ path[2] = <<"audit">>
    BY <1>1, <1>5
  <2> QED BY <2>1
<1>6. CASE path = Words(<<"sys">> \o <<"audit", "file">>)
  <2>1. path[1] = <<"sys">> /\ path[2] = <<"audit">>
    BY <1>1, <1>6
  <2> QED BY <2>1
<1>7. CASE path = Words(<<"sys">> \o <<"mounts", "kv">>)
  <2>1. path[1] = <<"sys">> /\ path[2] = <<"mounts">>
    BY <1>1, <1>7
  <2> QED BY <2>1
<1>8. CASE path = Words(<<"sys">> \o <<"mounts", "kv", "tune">>)
  <2>1. path[1] = <<"sys">> /\ path[2] = <<"mounts">>
    BY <1>1, <1>8
  <2> QED BY <2>1
<1>9. CASE path = Words(<<"sys">> \o <<"auth", "approle-reader">>)
  <2>1. path[1] = <<"sys">> /\ path[2] = <<"auth">>
    BY <1>1, <1>9
  <2> QED BY <2>1
<1>10. CASE path = Words(<<"sys">> \o <<"storage", "raft", "snapshot">>)
  <2>1. path[1] = <<"sys">> /\ path[2] = <<"storage">> /\ path[4] = <<"snapshot">>
    BY <1>1, <1>10
  <2> QED BY <2>1
<1>11. CASE path = Words(<<"sys">> \o <<"storage", "raft", "snapshot-force">>)
  <2>1. path[1] = <<"sys">> /\ path[2] = <<"storage">> /\ path[4] = <<"snapshot-force">>
    BY <1>1, <1>11
  <2> QED BY <2>1
<1>12. CASE path = <<<<"auth">>, <<"token">>, <<"create">>>>
  <2>1. path[1] = <<"auth">> /\ path[2] = <<"token">> /\ path[3] = <<"create">>
    BY <1>12
  <2> QED BY <2>1
<1>14. CASE path = <<<<"auth">>, <<"token">>, <<"create", "-orphan">>>>
  <2>1. path[1] = <<"auth">> /\ path[2] = <<"token">> /\ path[3] = <<"create", "-orphan">>
    BY <1>14
  <2> QED BY <2>1
<1>13. CASE path = Words(<<"kv", "config">>)
  <2>1. path[1] = <<"kv">> /\ Len(path) = 2
    BY <1>13, Words2
  <2> QED BY <2>1
<1> QED BY <1>2, <1>3, <1>4, <1>5, <1>6, <1>7, <1>8, <1>9, <1>10, <1>11, <1>12, <1>13, <1>14 DEF PlatformPaths

\* Nobody changes, deletes or patches what the platform is made of, whichever rule of
\* whichever policy decides; and no write of an entity gives it policies, disables it,
\* merges it or writes a group.  (operator.hcl.tpl, provisioning.hcl.tpl,
\* apps-auth.hcl.tpl)
THEOREM AnyPlatformUnchanged ==
    ASSUME token \in Tokens, NEW q, NEW T, q.path \in Seq(T),
           Granted(RenderPolicy(token.policy) \union Default, q), q.cap \notin {"read", "list", "sudo"}
    PROVE  /\ q.path \notin PlatformPaths
           /\ q.path[1] = <<"identity">> =>
                /\ q.path[2] # <<"group">> /\ (Len(q.path) >= 3 => q.path[3] # <<"merge">>)
                /\ q.path[2] = <<"entity">> => q.params \intersect {"policies", "disabled"} = {}
<1>1. PICK r \in RenderPolicy(token.policy) \union Default :
         Fits(r, q.path) /\ q.cap \in r.caps /\ q.params \subseteq r.takes /\ "deny" \notin r.caps
  BY GrantingRule
<1> DEFINE path   == q.path
           Role   == path[1] = <<"auth">> /\ path[2] \in {<<"approle-reader">>, <<"approle-writer">>, <<"aws">>, <<"gcp">>}
           Itself == /\ path[1] = <<"auth">> /\ path[2] = <<"token">>
                     /\ path[3] \in {<<"lookup-self">>, <<"renew-self">>, <<"revoke-self">>}
           System == /\ path[1] = <<"sys">>
                     /\ \/ path[2] \in {<<"leases">>, <<"generate-root">>, <<"step-down">>}
                        \/ path[2] = <<"storage">> /\ path[4] = <<"remove-peer">>
           Person == /\ path[1] = <<"identity">> /\ path[2] \in {<<"entity">>, <<"entity-alias">>, <<"lookup">>}
                     /\ Len(path) = 2 \/ path[3] \in {<<"name">>, <<"id">>, <<"entity">>}
                     /\ path[2] = <<"entity">> => q.params \intersect {"policies", "disabled"} = {}
           Secret == path[1] = <<"kv">> /\ Len(path) >= 4
<1>2. Role \/ Itself \/ System \/ Person \/ Secret
  <2>1. CASE r \in Default
    BY <1>1, <2>1, SelfReach
  <2>2. CASE r \in Entities
    BY <1>1, <2>2, EntityReach
  <2>3. ASSUME NEW k \in Kinds, path[1] = <<"auth">>, path[2] = <<TenantMount(k)>>
        PROVE  Role
    BY <2>3, Mounts
  <2>4. CASE r \in Provisioning
    <3>1. ASSUME NEW k \in Kinds, r \in TenantRoles(k) PROVE Role
      BY <1>1, <2>3, <3>1, RoleReach
    <3>2. r.caps # {"read"}
      BY <1>1
    <3> QED BY <1>1, <2>1, <2>2, <2>4, <3>1, <3>2, ProvisioningReach
  <2>5. CASE r \in Operator
    <3>1. ~(r.caps \subseteq {"list", "read"}) /\ ~(r.caps \subseteq {"list", "read", "sudo"})
      BY <1>1
    <3>2. r \in Default \/ System
      BY <1>1, <2>5, <3>1, OperatorReach
    <3> QED BY <2>1, <3>2
  <2>6. CASE r \in AppsAuth
    <3>1. r.caps # {"read"}
      BY <1>1
    <3>2. CASE path[1] = <<"auth">> /\ path[2] \in {<<"aws">>, <<"gcp">>}
      BY <3>2
    <3> QED BY <1>1, <2>1, <2>2, <2>6, <3>1, <3>2, AppsAuthReach
  <2>7. ASSUME NEW k \in Kinds, r \in Apps(k), token.env \in Seq(STRING)
        PROVE  Role \/ Itself
    <3>1. CASE r \in Minting(k)
      <4>1. path[1] = <<"auth">> /\ path[2] = <<TenantMount(k)>>
        BY <1>1, <2>7, <3>1, MintingReach
      <4> QED BY <2>3, <4>1
    <3> QED BY <1>1, <2>1, <2>7, <3>1, AppsReach, SelfReach
  <2>8. ASSUME NEW k \in Kinds, token.policy = TenantPolicy(k), r \in RenderPolicy(token.policy), r \notin Default
        PROVE  Secret
    BY <1>1, <2>8, TenantFits
  <2>9. TenantEnvs \union {Unknown} \subseteq Seq(STRING)
    BY NameSeq DEF TenantEnvs
  <2> HIDE DEF Role, Itself, System, Person, Secret
  <2> QED BY <2>1, <2>4, <2>5, <2>6, <2>7, <2>8, <2>9, TokenIs, PolicyNames
<1>3. /\ path[1] = <<"identity">> => path[2] # <<"group">> /\ (Len(path) >= 3 => path[3] # <<"merge">>)
      /\ path[1] = <<"identity">> /\ path[2] = <<"entity">> => q.params \intersect {"policies", "disabled"} = {}
  <2>1. CASE Person
    BY <2>1
  <2>2. CASE Role \/ Itself \/ System \/ Secret
    BY <2>2
  <2> QED BY <1>2, <2>1, <2>2
<1>4. path \notin PlatformPaths
  <2> SUFFICES ASSUME path \in PlatformPaths PROVE FALSE
    OBVIOUS
  <2>1. CASE Role \/ Itself
    <3>1. path[1] = <<"auth">> /\ path[2] = <<"token">> /\ path[3] \in {<<"create">>, <<"create", "-orphan">>}
      BY <2>1, PlatformPathIs
    <3> QED BY <2>1, <3>1
  <2>2. CASE System
    <3>1. \/ path[2] \in {<<"policies">>, <<"policy">>, <<"audit">>, <<"mounts">>, <<"auth">>}
          \/ path[2] = <<"storage">> /\ path[4] \in {<<"snapshot">>, <<"snapshot-force">>}
      BY <2>2, PlatformPathIs
    <3> QED BY <2>2, <3>1
  <2>3. CASE Person
    BY <2>3, PlatformPathIs
  <2>4. CASE Secret
    <3>1. Len(path) = 2
      BY <2>4, PlatformPathIs
    <3> QED BY <2>4, <3>1
  <2> QED BY <1>2, <2>1, <2>2, <2>3, <2>4
<1> QED BY <1>3, <1>4

(***************************************************************************)
(* The steps of the specification.                                         *)
(***************************************************************************)

\* Who asks, and for what, does not change, and the answer is Vault's.
AnswerInv ==
    /\ token \in Tokens
    /\ request \in Requests \union Runs
    /\ answer \in {"none", "granted", "denied"}
    /\ answer = "granted" => Granted(RenderPolicy(token.policy) \union Default, request)
    /\ answer = "denied" => ~Granted(RenderPolicy(token.policy) \union Default, request)

\* The rules and the requests depend on the mode and the token, which stay.
LEMMA Unchanged ==
    ASSUME UNCHANGED <<shared, token>>
    PROVE  /\ TenantEnvs' = TenantEnvs /\ Tokens' = Tokens /\ Requests' = Requests /\ Runs' = Runs
           /\ RenderPolicy(token.policy)' = RenderPolicy(token.policy)
<1>1. TenantEnvs' = TenantEnvs /\ Top' = Top
  BY DEF TenantEnvs, Top
<1>2. Tokens' = Tokens
  BY <1>1 DEF Tokens
<1>3. SecretPaths' = SecretPaths
  BY <1>1 DEF SecretPaths
<1>4. RolePaths' = RolePaths
  BY <1>1 DEF RolePaths
<1>5. EntityPaths' = EntityPaths
  BY <1>1 DEF EntityPaths
<1>6. Requests' = Requests
  BY <1>3, <1>4, <1>5 DEF Requests
<1>7. \A k, e, i : CreateTenant(k, e, i)' = CreateTenant(k, e, i) /\ OffboardTenant(k, e, i)' = OffboardTenant(k, e, i)
  BY DEF CreateTenant, OffboardTenant
<1>8. Runs' = Runs
  BY <1>1, <1>7 DEF Runs
<1>9. Provisioning' = Provisioning /\ AppsAuth' = AppsAuth
  BY DEF Provisioning, AppsAuth
<1>10. \A k : Minting(k)' = Minting(k)
  BY DEF Minting
<1>11. \A k : Apps(k)' = Apps(k)
  BY <1>10 DEF Apps
<1>12. \A f, c : Own(f, c)' = Own(f, c)
  BY DEF Own
<1>13. TenantDenies' = TenantDenies
  BY <1>1 DEF TenantDenies
<1>14. TenantReader' = TenantReader
  BY <1>12, <1>13 DEF TenantReader
<1>15. TenantWriter' = TenantWriter
  BY <1>12, <1>13 DEF TenantWriter
<1>16. AppsReader' = AppsReader /\ AppsWriter' = AppsWriter
  BY <1>11 DEF AppsReader, AppsWriter
<1>17. \A n : RenderPolicy(n)' = RenderPolicy(n)
  BY <1>9, <1>14, <1>15, <1>16 DEF RenderPolicy
<1> QED BY <1>1, <1>2, <1>6, <1>8, <1>17

\* An answer is the decision on the request that was made, for good.
LEMMA Answers == Spec => []AnswerInv
<1>1. Init => AnswerInv
  BY DEF Init, AnswerInv
<1>2. AnswerInv /\ [Next]_vars => AnswerInv'
  <2> SUFFICES ASSUME AnswerInv, [Next]_vars PROVE AnswerInv'
    OBVIOUS
  <2>1. shared' = shared /\ token' = token /\ request' = request
    BY DEF Next, Decide, Answered, vars
  <2>2. /\ Tokens' = Tokens /\ Requests' = Requests /\ Runs' = Runs
        /\ RenderPolicy(token.policy)' = RenderPolicy(token.policy)
    BY <2>1, Unchanged
  <2> DEFINE G == Granted(RenderPolicy(token.policy) \union Default, request)
  <2>3. G' = G
    BY <2>1, <2>2
  <2> HIDE DEF G
  <2>4. token' \in Tokens' /\ request' \in (Requests \union Runs)'
    BY <2>1, <2>2 DEF AnswerInv
  <2>5. CASE Decide
    <3>1. answer' = IF G THEN "granted" ELSE "denied"
      BY <2>5 DEF Decide, G
    <3>2. answer' \in {"none", "granted", "denied"} /\ (answer' = "granted" => G') /\ (answer' = "denied" => ~G')
      BY <2>3, <3>1
    <3> QED BY <2>4, <3>2 DEF AnswerInv, G
  <2>6. CASE UNCHANGED vars
    <3>1. answer' = answer
      BY <2>6 DEF vars
    <3>2. answer \in {"none", "granted", "denied"} /\ (answer = "granted" => G) /\ (answer = "denied" => ~G)
      BY DEF AnswerInv, G
    <3>3. answer' \in {"none", "granted", "denied"} /\ (answer' = "granted" => G') /\ (answer' = "denied" => ~G')
      BY <2>3, <3>1, <3>2
    <3> QED BY <2>4, <3>3 DEF AnswerInv, G
  <2> QED BY <2>5, <2>6 DEF Next, Answered
<1> QED BY <1>1, <1>2, PTL DEF Spec

(***************************************************************************)
(* What is asked for.                                                      *)
(***************************************************************************)

\* What the paths of Requests and Runs have in common: below a tenant mount they
\* name the role of a tenant.
Asked(p) ==
    /\ \E T : p \in Seq(T)
    /\ \/ p[1] # <<"auth">> \/ p[2] = <<"token">> \/ Len(p) = 3
       \/ \E e \in TenantEnvs, i \in Ids : p[4] = TenantRole(e, i)

LEMMA WordsSeq == ASSUME NEW ws, Len(ws) \in Nat, DOMAIN ws = 1..Len(ws) PROVE \E T : Words(ws) \in Seq(T)
<1>1. Words(ws) \in Seq({<<ws[i]>> : i \in 1..Len(ws)})
  BY DEF Words
<1> QED BY <1>1

LEMMA AskedWords ==
    ASSUME NEW ws, Len(ws) \in Nat \ {0}, DOMAIN ws = 1..Len(ws), ws[1] # "auth"
    PROVE  Asked(Words(ws))
<1>1. Words(ws)[1] = <<ws[1]>>
  BY WordsIs
<1> QED BY <1>1, WordsSeq DEF Asked

\* The paths of the token itself, and the list of roles.
LEMMA AskedAuth ==
    ASSUME NEW a, NEW b, NEW c
    PROVE  Asked(Words(<<a, b, c>>))
<1>1. Words(<<a, b, c>>) = <<<<a>>, <<b>>, <<c>>>>
  BY Words3
<1>2. <<<<a>>, <<b>>, <<c>>>> \in Seq({<<a>>, <<b>>, <<c>>}) /\ Len(<<<<a>>, <<b>>, <<c>>>>) = 3
  OBVIOUS
<1> QED BY <1>1, <1>2 DEF Asked

\* A word of its own and other words.
LEMMA AskedConcat ==
    ASSUME NEW a, a # "auth", NEW w, Len(w) \in Nat, w = [i \in 1..Len(w) |-> w[i]]
    PROVE  Asked(Words(<<a>> \o w))
<1> DEFINE U == {a} \union {w[i] : i \in 1..Len(w)}
           p == <<a>> \o w
<1>1. w \in Seq(U)
  <2>1. w \in [1..Len(w) -> U]
    OBVIOUS
  <2> QED BY <2>1
<1>2. <<a>> \in Seq(U) /\ Len(<<a>>) = 1 /\ <<a>>[1] = a
  OBVIOUS
<1>3. p \in Seq(U) /\ Len(p) = Len(w) + 1 /\ p[1] = a
  BY <1>1, <1>2, ConcatProperties
<1> HIDE DEF p, U
<1>4. Len(p) \in Nat \ {0} /\ DOMAIN p = 1..Len(p)
  BY <1>3
<1>5. p[1] # "auth"
  BY <1>3
<1>6. Asked(Words(p))
  BY <1>4, <1>5, AskedWords
<1> QED BY <1>6 DEF p

\* What begins with another segment than auth.
LEMMA AskedFront ==
    ASSUME NEW S, NEW p \in Seq(S), Len(p) >= 1, p[1] # <<"auth">>, NEW T, NEW t \in Seq(T)
    PROVE  /\ Asked(p \o t) /\ p \o t \in Seq(S \union T) /\ Len(p \o t) >= 1 /\ (p \o t)[1] # <<"auth">>
<1> DEFINE U == S \union T
<1>1. p \in Seq(U) /\ t \in Seq(U) /\ Len(p) \in Nat /\ Len(t) \in Nat
  OBVIOUS
<1>2. p \o t \in Seq(U) /\ Len(p \o t) = Len(p) + Len(t) /\ (p \o t)[1] = p[1]
  BY <1>1, ConcatProperties
<1>3. Len(p \o t) >= 1 /\ (p \o t)[1] # <<"auth">>
  BY <1>1, <1>2
<1> QED BY <1>2, <1>3 DEF Asked

\* The paths of a role.
LEMMA AskedRole ==
    ASSUME NEW k \in Kinds, NEW e \in TenantEnvs, NEW i \in Ids, NEW T, NEW t \in Seq(T)
    PROVE  /\ Asked(Append(RolePath(k), TenantRole(e, i)))
           /\ Asked(RolePath(k) \o <<TenantRole(e, i)>> \o t)
           /\ \A s : Asked(RolePath(k) \o <<TenantRole(e, i), s>>)
<1> DEFINE p == RolePath(k)
           role == TenantRole(e, i)
           U == {<<"auth">>, <<TenantMount(k)>>, <<"role">>, role} \union T
<1>1. p \in Seq(U) /\ Len(p) = 3
  <2>1. p = <<<<"auth">>, <<TenantMount(k)>>, <<"role">>>>
    BY Words3 DEF RolePath
  <2> QED BY <2>1
<1>2. t \in Seq(U) /\ role \in U
  OBVIOUS
<1> HIDE DEF p, role, U
<1>3. Append(p, role) \in Seq(U) /\ Append(p, role)[4] = role
  <2>1. Append(p, role) \in Seq(U) /\ Append(p, role)[Len(p) + 1] = role
    BY <1>1, <1>2, AppendProperties
  <2>2. Len(p) + 1 = 4
    BY <1>1
  <2> QED BY <2>1, <2>2
<1>4. <<role>> \in Seq(U) /\ Len(<<role>>) = 1 /\ <<role>>[1] = role
  BY <1>2
<1>5. p \o <<role>> \in Seq(U) /\ Len(p \o <<role>>) = 4 /\ (p \o <<role>>)[4] = role
  <2>1. /\ p \o <<role>> \in Seq(U) /\ Len(p \o <<role>>) = Len(p) + 1
        /\ \A j \in 1..Len(p) + 1 : (p \o <<role>>)[j] = IF j <= Len(p) THEN p[j] ELSE <<role>>[j - Len(p)]
    BY <1>1, <1>4, ConcatProperties
  <2>2. (p \o <<role>>)[4] = <<role>>[4 - 3]
    BY <1>1, <2>1
  <2> QED BY <1>1, <1>4, <2>1, <2>2
<1>6. p \o <<role>> \o t \in Seq(U) /\ (p \o <<role>> \o t)[4] = role
  BY <1>2, <1>5, ConcatProperties
<1>7. ASSUME NEW s
      PROVE  p \o <<role, s>> \in Seq(U \union {s}) /\ (p \o <<role, s>>)[4] = role
  <2> DEFINE V == U \union {s}
             u == <<role, s>>
  <2>1. p \in Seq(V) /\ u \in Seq(V) /\ Len(u) = 2 /\ u[1] = role
    BY <1>1, <1>2
  <2> HIDE DEF V, u
  <2>2. /\ p \o u \in Seq(V)
        /\ \A j \in 1..Len(p) + Len(u) : (p \o u)[j] = IF j <= Len(p) THEN p[j] ELSE u[j - Len(p)]
    BY <2>1, ConcatProperties
  <2>3. 4 \in 1..Len(p) + Len(u) /\ ~(4 <= Len(p)) /\ 4 - Len(p) = 1
    BY <1>1, <2>1
  <2>4. (p \o u)[4] = u[4 - Len(p)]
    BY <2>2, <2>3
  <2>5. (p \o u)[4] = role
    BY <2>1, <2>3, <2>4
  <2> QED BY <2>2, <2>5 DEF V, u
<1>8. Asked(Append(p, role))
  BY <1>3 DEF Asked, role
<1>9. Asked(p \o <<role>> \o t)
  BY <1>6 DEF Asked, role
<1>10. \A s : Asked(p \o <<role, s>>)
  BY <1>7 DEF Asked, role
<1> QED BY <1>8, <1>9, <1>10 DEF p, role

LEMMA AskedSecret == ASSUME NEW p \in SecretPaths PROVE Asked(p)
<1>1. CASE p \in {<<<<"kv">>, <<f>>, Top, <<"secret">>>> : f \in Families}
  <2>1. PICK f \in Families : p = <<<<"kv">>, <<f>>, Top, <<"secret">>>>
    BY <1>1
  <2>2. p \in Seq({<<"kv">>, <<f>>, Top, <<"secret">>}) /\ p[1] # <<"auth">>
    BY <2>1
  <2> QED BY <2>2 DEF Asked
<1>2. ASSUME NEW f, NEW e \in TenantEnvs, NEW i \in Ids, p = <<<<"kv">>, <<f>>>> \o Folder(e, i) \o <<<<"secret">>>>
      PROVE  Asked(p)
  <2> DEFINE h == <<<<"kv">>, <<f>>>>
             g == Folder(e, i)
             t == <<<<"secret">>>>
             T == {<<"customers">>, <<"envs">>} \union Envs \union Ids
  <2>1. h \in Seq({<<"kv">>, <<f>>}) /\ Len(h) >= 1 /\ h[1] # <<"auth">>
    OBVIOUS
  <2>2. g \in Seq(T)
    BY FolderIs DEF TenantEnvs
  <2>3. t \in Seq({<<"secret">>})
    OBVIOUS
  <2> HIDE DEF h, g, t, T
  <2>4. h \o g \in Seq({<<"kv">>, <<f>>} \union T) /\ Len(h \o g) >= 1 /\ (h \o g)[1] # <<"auth">>
    BY <2>1, <2>2, AskedFront
  <2>5. Asked(h \o g \o t)
    BY <2>3, <2>4, AskedFront
  <2> QED BY <1>2, <2>5 DEF h, g, t
<1>3. ASSUME p \notin {<<<<"kv">>, <<f>>, Top, <<"secret">>>> : f \in Families}
      PROVE  Asked(p)
  <2> DEFINE F(f, e, i) == <<<<"kv">>, <<f>>>> \o Folder(e, i) \o <<<<"secret">>>>
             N == {<<<<"kv">>, <<f>>, Top, <<"secret">>>> : f \in Families}
  <2>3. SecretPaths = {F(f, e, i) : f \in Families \union {"subkeys"}, e \in TenantEnvs, i \in Ids} \union N
    BY DEF SecretPaths
  <2>4. p \notin N
    BY <1>3
  <2> HIDE DEF F, N
  <2>1. p \in {F(f, e, i) : f \in Families \union {"subkeys"}, e \in TenantEnvs, i \in Ids}
    BY <2>3, <2>4
  <2> USE DEF F
  <2>2. ASSUME NEW f, NEW e \in TenantEnvs, NEW i \in Ids, p = F(f, e, i) PROVE Asked(p)
    BY <1>2, <2>2
  <2> HIDE DEF F
  <2> QED BY <2>1, <2>2
<1> QED BY <1>1, <1>3

LEMMA AskedSys ==
    ASSUME NEW w, Len(w) \in Nat, w = [i \in 1..Len(w) |-> w[i]]
    PROVE  Asked(Words(<<"sys">> \o w)) /\ Asked(Words(<<"identity">> \o w))
<1>1. "sys" # "auth" /\ "identity" # "auth"
  OBVIOUS
<1> QED BY <1>1, AskedConcat

\* A sequence of one, two or three is what AskedSys asks of it.
LEMMA FewWords ==
    /\ \A a : Len(<<a>>) \in Nat /\ <<a>> = [i \in 1..Len(<<a>>) |-> <<a>>[i]]
    /\ \A a, b : Len(<<a, b>>) \in Nat /\ <<a, b>> = [i \in 1..Len(<<a, b>>) |-> <<a, b>>[i]]
    /\ \A a, b, c : Len(<<a, b, c>>) \in Nat /\ <<a, b, c>> = [i \in 1..Len(<<a, b, c>>) |-> <<a, b, c>>[i]]
<1>1. \A a : Len(<<a>>) \in Nat /\ <<a>> = [i \in 1..Len(<<a>>) |-> <<a>>[i]]
  OBVIOUS
<1>2. \A a, b : Len(<<a, b>>) \in Nat /\ <<a, b>> = [i \in 1..Len(<<a, b>>) |-> <<a, b>>[i]]
  OBVIOUS
<1>3. \A a, b, c : Len(<<a, b, c>>) \in Nat /\ <<a, b, c>> = [i \in 1..Len(<<a, b, c>>) |-> <<a, b, c>>[i]]
  OBVIOUS
<1> QED BY <1>1, <1>2, <1>3

LEMMA AskedFew ==
    /\ \A a : Asked(Words(<<"sys">> \o <<a>>)) /\ Asked(Words(<<"identity">> \o <<a>>))
    /\ \A a, b : Asked(Words(<<"sys">> \o <<a, b>>)) /\ Asked(Words(<<"identity">> \o <<a, b>>))
    /\ \A a, b, c : Asked(Words(<<"sys">> \o <<a, b, c>>)) /\ Asked(Words(<<"identity">> \o <<a, b, c>>))
<1>1. ASSUME NEW a PROVE Asked(Words(<<"sys">> \o <<a>>)) /\ Asked(Words(<<"identity">> \o <<a>>))
  <2>1. \E w : w = <<a>> /\ Len(w) \in Nat /\ w = [i \in 1..Len(w) |-> w[i]]
    BY FewWords
  <2> QED BY <2>1, AskedSys
<1>2. ASSUME NEW a, NEW b PROVE Asked(Words(<<"sys">> \o <<a, b>>)) /\ Asked(Words(<<"identity">> \o <<a, b>>))
  <2>1. \E w : w = <<a, b>> /\ Len(w) \in Nat /\ w = [i \in 1..Len(w) |-> w[i]]
    BY FewWords
  <2> QED BY <2>1, AskedSys
<1>3. ASSUME NEW a, NEW b, NEW c
      PROVE  Asked(Words(<<"sys">> \o <<a, b, c>>)) /\ Asked(Words(<<"identity">> \o <<a, b, c>>))
  <2> DEFINE w == <<a, b, c>>
  <2>1. Len(w) \in Nat /\ w = [i \in 1..Len(w) |-> w[i]]
    BY FewWords
  <2> HIDE DEF w
  <2>2. Asked(Words(<<"sys">> \o w)) /\ Asked(Words(<<"identity">> \o w))
    BY <2>1, AskedSys
  <2> QED BY <2>2 DEF w
<1> QED BY <1>1, <1>2, <1>3

LEMMA AskedPlatform == ASSUME NEW p \in PlatformPaths PROVE Asked(p)
<1>1. CASE p = <<<<"auth">>, <<"token">>, <<"create">>>>
  <2>1. p \in Seq({<<"auth">>, <<"token">>, <<"create">>}) /\ p[2] = <<"token">>
    BY <1>1
  <2> QED BY <2>1 DEF Asked
<1>2. CASE p = <<<<"auth">>, <<"token">>, <<"create", "-orphan">>>>
  <2>1. p \in Seq({<<"auth">>, <<"token">>, <<"create", "-orphan">>}) /\ p[2] = <<"token">>
    BY <1>2
  <2> QED BY <2>1 DEF Asked
<1>3. CASE p = Words(<<"kv", "config">>)
  <2>1. p = <<<<"kv">>, <<"config">>>>
    BY <1>3, Words2
  <2>2. p \in Seq({<<"kv">>, <<"config">>}) /\ p[1] # <<"auth">>
    BY <2>1
  <2> QED BY <2>2 DEF Asked
<1>4. ASSUME NEW w, \/ \E a : w = <<a>>
                    \/ \E a, b : w = <<a, b>>
                    \/ \E a, b, c : w = <<a, b, c>>
      PROVE  Asked(Words(<<"sys">> \o w))
  BY <1>4, AskedFew
<1> QED BY <1>1, <1>2, <1>3, <1>4 DEF PlatformPaths

LEMMA AskedEntity ==
    /\ \A k \in Kinds, e \in TenantEnvs, i \in Ids : Asked(EntityPath(k, e, i))
    /\ \A p \in EntityPaths : Asked(p)
<1>1. ASSUME NEW k \in Kinds, NEW e \in TenantEnvs, NEW i \in Ids PROVE Asked(EntityPath(k, e, i))
  <2> DEFINE h == Words(<<"identity", "entity", "name", TenantMount(k)>>)
             t == <<TenantRole(e, i)>>
  <2>1. h = <<<<"identity">>, <<"entity">>, <<"name">>, <<TenantMount(k)>>>>
    BY DEF Words
  <2> DEFINE H == {<<"identity">>, <<"entity">>, <<"name">>, <<TenantMount(k)>>}
  <2>2. Len(h) >= 1 /\ h[1] # <<"auth">>
    BY <2>1
  <2>5. h \in Seq(H)
    <3>1. \A w, x, y, z : <<w, x, y, z>> \in Seq({w, x, y, z})
      OBVIOUS
    <3>2. <<<<"identity">>, <<"entity">>, <<"name">>, <<TenantMount(k)>>>> \in Seq(H)
      BY <3>1
    <3> HIDE DEF h, H
    <3> QED BY <2>1, <3>2
  <2>3. t \in Seq({TenantRole(e, i)})
    OBVIOUS
  <2> HIDE DEF h, t, H
  <2>4. Asked(h \o t)
    BY <2>2, <2>3, <2>5, AskedFront
  <2> QED BY <2>4 DEF EntityPath, h, t
<1>2. ASSUME NEW w, \/ \E a : w = <<a>>
                    \/ \E a, b : w = <<a, b>>
                    \/ \E a, b, c : w = <<a, b, c>>
      PROVE  Asked(Words(<<"identity">> \o w))
  BY <1>2, AskedFew
<1> QED BY <1>1, <1>2 DEF EntityPaths

LEMMA AskedRoles ==
    /\ \A p \in RolePaths : Asked(p)
    /\ \A k \in Kinds : Asked(RolePath(k))
<1>1. ASSUME NEW k \in Kinds, NEW e \in TenantEnvs, NEW i \in Ids,
             NEW sub \in {<<>>, Words(<<"role-id">>), Words(<<"secret-id">>), Words(<<"policies">>)}
      PROVE  Asked(RolePath(k) \o <<TenantRole(e, i)>> \o sub)
  <2>1. ASSUME NEW a PROVE \E T : Words(<<a>>) \in Seq(T)
    <3>1. Len(<<a>>) \in Nat /\ DOMAIN <<a>> = 1..Len(<<a>>)
      OBVIOUS
    <3> QED BY <3>1, WordsSeq
  <2>3. <<>> \in Seq({})
    OBVIOUS
  <2>2. \E T : sub \in Seq(T)
    BY <2>1, <2>3
  <2> QED BY <2>2, AskedRole
<1>2. ASSUME NEW k \in Kinds PROVE Asked(RolePath(k))
  BY AskedAuth DEF RolePath
<1> DEFINE F(k, e, i, sub) == RolePath(k) \o <<TenantRole(e, i)>> \o sub
           Subs == {<<>>, Words(<<"role-id">>), Words(<<"secret-id">>), Words(<<"policies">>)}
<1>3. RolePaths = {F(k, e, i, sub) : k \in Kinds, e \in TenantEnvs, i \in Ids, sub \in Subs}
  BY DEF RolePaths
<1>4. \A k \in Kinds, e \in TenantEnvs, i \in Ids, sub \in Subs : Asked(F(k, e, i, sub))
  BY <1>1
<1> HIDE DEF F, Subs
<1>5. \A p \in RolePaths : Asked(p)
  BY <1>3, <1>4
<1> QED BY <1>2, <1>5

\* A call on such a path; what lists takes no parameter.
Good(q) == Asked(q.path) /\ (q.cap = "list" => q.params = {})

LEMMA CallIs ==
    ASSUME NEW p, NEW c, NEW ps
    PROVE  Call(p, c, ps).path = p /\ Call(p, c, ps).cap = c /\ Call(p, c, ps).params = ps
BY DEF Call

LEMMA GoodCall ==
    ASSUME NEW p, Asked(p)
    PROVE  /\ \A c : Good(Call(p, c, {}))
           /\ \A c, ps : c # "list" => Good(Call(p, c, ps))
BY CallIs DEF Good

LEMMA GoodRequests == ASSUME NEW q \in Requests PROVE Good(q)
<1>1. ASSUME NEW p \in SecretPaths \union PlatformPaths, NEW c \in Caps PROVE Good(Call(p, c, {}))
  BY AskedSecret, AskedPlatform, GoodCall
<1>2. ASSUME NEW p \in RolePaths \union EntityPaths, NEW c \in Managed, NEW ps PROVE Good(Call(p, c, ps))
  <2>1. c # "list"
    BY DEF Managed
  <2> QED BY <2>1, AskedRoles, AskedEntity, GoodCall
<1> DEFINE N1 == {{}} \union {{x} : x \in RolePolicies}
           N2 == {{}, {"metadata"}, {"policies"}, {"disabled"}}
           R1 == {Call(p, c, {}) : p \in SecretPaths \union PlatformPaths, c \in Caps}
           R2 == {Call(p, c, ps) : p \in RolePaths, c \in Managed, ps \in N1}
           R3 == {Call(p, c, ps) : p \in EntityPaths, c \in Managed, ps \in N2}
<1>3. Requests = R1 \union R2 \union R3
  BY DEF Requests
<1> HIDE DEF N1, N2
<1>4. \A x \in R1 : Good(x)
  BY <1>1
<1>5. \A x \in R2 : Good(x)
  BY <1>2
<1>6. \A x \in R3 : Good(x)
  BY <1>2
<1> HIDE DEF R1, R2, R3
<1> QED BY <1>3, <1>4, <1>5, <1>6

LEMMA GoodLogin ==
    ASSUME NEW k \in Kinds, NEW e \in TenantEnvs, NEW i \in Ids, NEW q \in LoginAppRole(k, e, i)
    PROVE  Good(q)
<1> DEFINE p(s) == RolePath(k) \o <<TenantRole(e, i), s>>
<1>1. \A s : Asked(p(s))
  <2>1. \A s : Asked(RolePath(k) \o <<TenantRole(e, i), s>>)
    <3>1. <<>> \in Seq({})
      OBVIOUS
    <3> QED BY <3>1, AskedRole
  <2> QED BY <2>1
<1>2. q \in {Call(p(<<"role-id">>), "read", {}), Call(p(<<"secret-id">>), "update", {})}
  BY DEF LoginAppRole
<1> HIDE DEF p
<1> QED BY <1>1, <1>2, GoodCall

LEMMA GoodCreate ==
    ASSUME NEW k \in Kinds, NEW e \in TenantEnvs, NEW i \in Ids, NEW q \in CreateTenant(k, e, i)
    PROVE  Good(q)
<1> DEFINE role == Append(RolePath(k), TenantRole(e, i))
           W == {Call(role, c, {TenantPolicy(k), "limits"}) : c \in {"create", "update"}}
           ask == Call(RolePath(k) \o <<TenantRole(e, i), <<"role-id">>>>, "read", {})
           auth == Words(<<"sys", "auth">>)
           entity == EntityPath(k, e, i)
           lookup == Words(<<"identity", "lookup", "entity">>)
           alias == Words(<<"identity", "entity-alias", "id", "alias">>)
           link == Words(<<"identity", "entity-alias">>)
           E == {ask, Call(auth, "read", {}), Call(entity, "update", {"metadata"}), Call(entity, "read", {}),
                 Call(lookup, "update", {}), Call(alias, "delete", {}), Call(link, "update", {})}
<1>1. q \in W \/ q \in E
  BY DEF CreateTenant
<1>2. Asked(role)
  <2>1. <<>> \in Seq({})
    OBVIOUS
  <2> QED BY <2>1, AskedRole
<1>3. Good(ask)
  BY GoodLogin DEF LoginAppRole
<1>4. \A a, b : a # "auth" => Asked(Words(<<a, b>>))
  <2>1. \A a, b : Len(<<a, b>>) \in Nat \ {0} /\ DOMAIN <<a, b>> = 1..Len(<<a, b>>) /\ <<a, b>>[1] = a
    OBVIOUS
  <2> QED BY <2>1, AskedWords
<1>5. Asked(auth) /\ Asked(link)
  <2>1. "sys" # "auth" /\ "identity" # "auth"
    OBVIOUS
  <2> QED BY <2>1, <1>4
<1>6. Asked(lookup)
  BY AskedAuth
<1>7. Asked(alias)
  <2>1. ASSUME NEW a, NEW b, NEW c, NEW d, a # "auth" PROVE Asked(Words(<<a, b, c, d>>))
    <3>1. Len(<<a, b, c, d>>) \in Nat \ {0} /\ DOMAIN <<a, b, c, d>> = 1..Len(<<a, b, c, d>>) /\ <<a, b, c, d>>[1] = a
      OBVIOUS
    <3> QED BY <2>1, <3>1, AskedWords
  <2>2. "identity" # "auth"
    OBVIOUS
  <2> QED BY <2>1, <2>2
<1>8. Asked(entity)
  BY AskedEntity
<1> HIDE DEF role, ask, auth, entity, lookup, alias, link
<1>9. \A x \in W : Good(x)
  BY <1>2, GoodCall
<1>10. \A x \in E : Good(x)
  <2>1. Good(Call(auth, "read", {})) /\ Good(Call(lookup, "update", {})) /\ Good(Call(link, "update", {}))
    BY <1>5, <1>6, GoodCall
  <2>2. Good(Call(entity, "update", {"metadata"})) /\ Good(Call(entity, "read", {})) /\ Good(Call(alias, "delete", {}))
    BY <1>7, <1>8, GoodCall
  <2> QED BY <1>3, <2>1, <2>2
<1> QED BY <1>1, <1>9, <1>10

LEMMA GoodOffboard ==
    ASSUME NEW k \in Kinds, NEW e \in TenantEnvs, NEW i \in Ids, NEW q \in OffboardTenant(k, e, i)
    PROVE  Good(q)
<1>1. Asked(Append(RolePath(k), TenantRole(e, i))) /\ Asked(EntityPath(k, e, i))
  <2>1. <<>> \in Seq({})
    OBVIOUS
  <2> QED BY <2>1, AskedRole, AskedEntity
<1>2. \/ q = Call(Append(RolePath(k), TenantRole(e, i)), "delete", {})
      \/ q = Call(EntityPath(k, e, i), "delete", {})
  BY DEF OffboardTenant
<1> QED BY <1>1, <1>2, GoodCall

\* The paths of three, four and five words that are not below auth.
LEMMA AskedMore ==
    ASSUME NEW a, a # "auth"
    PROVE  /\ \A b : Asked(Words(<<a, b>>))
           /\ \A b, c, d : Asked(Words(<<a, b, c, d>>))
           /\ \A b, c, d, e : Asked(Words(<<a, b, c, d, e>>))
<1>1. ASSUME NEW b PROVE Asked(Words(<<a, b>>))
  <2>1. Len(<<a, b>>) \in Nat \ {0} /\ DOMAIN <<a, b>> = 1..Len(<<a, b>>) /\ <<a, b>>[1] = a
    OBVIOUS
  <2> QED BY <2>1, AskedWords
<1>2. ASSUME NEW b, NEW c, NEW d PROVE Asked(Words(<<a, b, c, d>>))
  <2>1. Len(<<a, b, c, d>>) \in Nat \ {0} /\ DOMAIN <<a, b, c, d>> = 1..Len(<<a, b, c, d>>) /\ <<a, b, c, d>>[1] = a
    OBVIOUS
  <2> QED BY <2>1, AskedWords
<1>3. ASSUME NEW b, NEW c, NEW d, NEW e PROVE Asked(Words(<<a, b, c, d, e>>))
  <2>1. /\ Len(<<a, b, c, d, e>>) \in Nat \ {0} /\ DOMAIN <<a, b, c, d, e>> = 1..Len(<<a, b, c, d, e>>)
        /\ <<a, b, c, d, e>>[1] = a
    OBVIOUS
  <2> QED BY <2>1, AskedWords
<1> QED BY <1>1, <1>2, <1>3

LEMMA GoodMembership == ASSUME NEW q \in Membership PROVE Good(q)
<1> DEFINE config == Words(<<"sys", "storage", "raft", "configuration">>)
           state  == Words(<<"sys", "storage", "raft", "autopilot", "state">>)
           remove == Words(<<"sys", "storage", "raft", "remove-peer">>)
           leader == Words(<<"sys", "leader">>)
           step   == Words(<<"sys", "step-down">>)
<1>1. Asked(config) /\ Asked(state) /\ Asked(remove) /\ Asked(leader) /\ Asked(step)
  <2>1. "sys" # "auth"
    OBVIOUS
  <2>2. Asked(config) /\ Asked(remove)
    BY <2>1, AskedMore
  <2>3. Asked(leader) /\ Asked(step)
    BY <2>1, AskedMore
  <2>4. Asked(state)
    BY <2>1, AskedMore
  <2> QED BY <2>2, <2>3, <2>4
<1>2. \/ q \in {Call(config, "read", {}), Call(state, "read", {}), Call(remove, "update", {}), Call(leader, "read", {})}
      \/ \E c : q = Call(step, c, {})
  BY DEF Membership
<1> HIDE DEF config, state, remove, leader, step
<1> QED BY <1>1, <1>2, GoodCall

LEMMA GoodRoot == ASSUME NEW q \in GenerateRoot PROVE Good(q)
<1> DEFINE attempt == Words(<<"sys", "generate-root", "attempt">>)
           update  == Words(<<"sys", "generate-root", "update">>)
<1>1. Asked(attempt) /\ Asked(update)
  BY AskedAuth
<1>2. (\E c : q = Call(attempt, c, {})) \/ q = Call(update, "update", {})
  BY DEF GenerateRoot
<1> HIDE DEF attempt, update
<1> QED BY <1>1, <1>2, GoodCall

LEMMA GoodList == ASSUME NEW q \in ListTenants PROVE Good(q)
<1>1. PICK k \in Kinds : q = Call(RolePath(k), "list", {})
  BY DEF ListTenants
<1> QED BY <1>1, AskedRoles, GoodCall

LEMMA GoodSelf == \A s, c : Good(Call(Words(<<"auth", "token", s>>), c, {}))
BY AskedAuth, GoodCall

\* The calls made with each token.
LEMMA RunsOf ==
    /\ token.policy = "provisioning" =>
         Runs = (UNION {CreateTenant(k, e, i) \union OffboardTenant(k, e, i) \union LoginAppRole(k, e, i) :
                          k \in Kinds, e \in TenantEnvs, i \in Ids})
                \union ListTenants \union {Call(Words(<<"auth", "token", "lookup-self">>), "read", {})}
    /\ token.policy = "operator" =>
         Runs = Membership \union GenerateRoot
                \union {Call(Words(<<"auth", "token", "lookup-self">>), "read", {}),
                        Call(Words(<<"auth", "token", "renew-self">>), "update", {}),
                        Call(Words(<<"sys", "storage", "raft", "snapshot">>), "read", {}),
                        Call(Words(<<"sys", "mounts", "kv", "tune">>), "read", {})}
    /\ \A q \in Runs : token.policy \notin {"provisioning", "operator"} =>
         \E k \in Kinds, i \in Ids :
           token.policy = AppsPolicy(k) /\ token.env \in TenantEnvs /\ q \in LoginAppRole(k, token.env, i)
<1> DEFINE Tenant == UNION {CreateTenant(k, e, i) \union OffboardTenant(k, e, i) \union LoginAppRole(k, e, i) :
                              k \in Kinds, e \in TenantEnvs, i \in Ids}
           Once == {Call(Words(<<"auth", "token", "lookup-self">>), "read", {})}
           Node == {Call(Words(<<"auth", "token", "lookup-self">>), "read", {}),
                    Call(Words(<<"auth", "token", "renew-self">>), "update", {}),
                    Call(Words(<<"sys", "storage", "raft", "snapshot">>), "read", {}),
                    Call(Words(<<"sys", "mounts", "kv", "tune">>), "read", {})}
           Brokers == {AppsPolicy(k) : k \in Kinds}
           Login == UNION {LoginAppRole(k, token.env, i) :
                             k \in {k \in Kinds : AppsPolicy(k) = token.policy /\ token.env \in TenantEnvs}, i \in Ids}
<1>1. Runs = CASE token.policy = "provisioning" -> Tenant \union ListTenants \union Once
               [] token.policy = "operator" -> Membership \union GenerateRoot \union Node
               [] token.policy \in Brokers -> Login
               [] OTHER -> {}
  BY DEF Runs
<1>2. "provisioning" \notin Brokers /\ "operator" \notin Brokers
  BY DEF AppsPolicy
<1>3. ASSUME NEW q \in Login
      PROVE  \E k \in Kinds, i \in Ids :
               token.policy = AppsPolicy(k) /\ token.env \in TenantEnvs /\ q \in LoginAppRole(k, token.env, i)
  OBVIOUS
<1> HIDE DEF Tenant, Once, Node, Brokers, Login
<1>4. token.policy = "provisioning" => Runs = Tenant \union ListTenants \union Once
  BY <1>1, <1>2
<1>5. token.policy = "operator" => Runs = Membership \union GenerateRoot \union Node
  BY <1>1, <1>2
<1>6. token.policy \notin {"provisioning", "operator"} => Runs = Login \/ Runs = {}
  BY <1>1
<1> QED BY <1>3, <1>4, <1>5, <1>6 DEF Tenant, Once, Node

LEMMA GoodRuns == ASSUME NEW q \in Runs PROVE Good(q)
<1>1. CASE token.policy = "provisioning"
  <2>1. ASSUME NEW k \in Kinds, NEW e \in TenantEnvs, NEW i \in Ids,
               q \in CreateTenant(k, e, i) \union OffboardTenant(k, e, i) \union LoginAppRole(k, e, i)
        PROVE  Good(q)
    BY <2>1, GoodCreate, GoodOffboard, GoodLogin
  <2>2. q \in ListTenants => Good(q)
    BY GoodList
  <2>3. Good(Call(Words(<<"auth", "token", "lookup-self">>), "read", {}))
    BY GoodSelf
  <2> QED BY <1>1, <2>1, <2>2, <2>3, RunsOf
<1>2. CASE token.policy = "operator"
  <2>1. q \in Membership \union GenerateRoot => Good(q)
    BY GoodMembership, GoodRoot
  <2>2. Good(Call(Words(<<"auth", "token", "lookup-self">>), "read", {}))
    BY GoodSelf
  <2>3. Good(Call(Words(<<"auth", "token", "renew-self">>), "update", {}))
    BY GoodSelf
  <2>4. Good(Call(Words(<<"sys", "storage", "raft", "snapshot">>), "read", {}))
    <3>1. "sys" # "auth"
      OBVIOUS
    <3>2. Asked(Words(<<"sys", "storage", "raft", "snapshot">>))
      BY <3>1, AskedMore
    <3> QED BY <3>2, GoodCall
  <2>5. Good(Call(Words(<<"sys", "mounts", "kv", "tune">>), "read", {}))
    <3>1. "sys" # "auth"
      OBVIOUS
    <3>2. Asked(Words(<<"sys", "mounts", "kv", "tune">>))
      BY <3>1, AskedMore
    <3> QED BY <3>2, GoodCall
  <2> QED BY <1>2, <2>1, <2>2, <2>3, <2>4, <2>5, RunsOf
<1>3. CASE token.policy \notin {"provisioning", "operator"}
  BY <1>3, GoodLogin, RunsOf
<1> QED BY <1>1, <1>2, <1>3

\* The role of a tenant that begins with an env and the dot is of that env.
LEMMA NoDot ==
    ASSUME NEW e \in Envs, NEW f \in Envs, NEW i \in Ids,
           TenantRole(f, i) = e \o <<".">> \/ IsPrefix(e \o <<".">>, TenantRole(f, i))
    PROVE  e = f
<1> DEFINE S == STRING \union {"."}
           d == <<".">>
           p == e \o d
           g == f \o d
           t == g \o i
<1>1. TenantRole(f, i) = t
  <2>1. f # Unknown
    BY NameSeq
  <2> QED BY <2>1 DEF TenantRole
<1>2. e \in Seq(S) /\ f \in Seq(S) /\ i \in Seq(S) /\ d \in Seq(S) /\ Len(d) = 1 /\ d[1] = "."
  BY NameSeq
<1>3. Len(e) \in Nat /\ Len(f) \in Nat /\ Len(i) \in Nat
  BY <1>2
<1>4. (\A j \in 1..Len(e) : e[j] # ".") /\ (\A j \in 1..Len(f) : f[j] # ".")
  BY <1>2, NameSeq
<1> HIDE DEF d, S
<1>5. /\ p \in Seq(S) /\ Len(p) = Len(e) + 1
      /\ \A j \in 1..Len(p) : p[j] = IF j <= Len(e) THEN e[j] ELSE d[j - Len(e)]
  <2>1. /\ p \in Seq(S) /\ Len(p) = Len(e) + Len(d)
        /\ \A j \in 1..Len(e) + Len(d) : p[j] = IF j <= Len(e) THEN e[j] ELSE d[j - Len(e)]
    BY <1>2, ConcatProperties
  <2> HIDE DEF p
  <2> QED BY <1>2, <2>1
<1>6. /\ g \in Seq(S) /\ Len(g) = Len(f) + 1
      /\ \A j \in 1..Len(g) : g[j] = IF j <= Len(f) THEN f[j] ELSE d[j - Len(f)]
  <2>1. /\ g \in Seq(S) /\ Len(g) = Len(f) + Len(d)
        /\ \A j \in 1..Len(f) + Len(d) : g[j] = IF j <= Len(f) THEN f[j] ELSE d[j - Len(f)]
    BY <1>2, ConcatProperties
  <2> HIDE DEF g
  <2> QED BY <1>2, <2>1
<1> HIDE DEF p, g
<1>7. /\ t \in Seq(S) /\ Len(t) = Len(g) + Len(i)
      /\ \A j \in 1..Len(t) : t[j] = IF j <= Len(g) THEN g[j] ELSE i[j - Len(g)]
  <2>1. /\ t \in Seq(S) /\ Len(t) = Len(g) + Len(i)
        /\ \A j \in 1..Len(g) + Len(i) : t[j] = IF j <= Len(g) THEN g[j] ELSE i[j - Len(g)]
    <3>1. g \in Seq(S) /\ i \in Seq(S)
      BY <1>2, <1>6
    <3> QED BY <3>1, ConcatProperties
  <2> HIDE DEF t
  <2> QED BY <2>1
<1>8. t = p \/ IsPrefix(p, t)
  BY <1>1 DEF p, d
<1> HIDE DEF t
<1>9. Len(p) <= Len(t) /\ \A j \in 1..Len(p) : p[j] = t[j]
  <2>1. CASE t = p
    BY <1>3, <1>5, <2>1
  <2>2. CASE IsPrefix(p, t)
    BY <1>5, <1>7, <2>2, PrefixElements
  <2> QED BY <1>8, <2>1, <2>2
<1>10. p[Len(e) + 1] = "." /\ g[Len(f) + 1] = "."
  <2>1. Len(e) + 1 \in 1..Len(p) /\ ~(Len(e) + 1 <= Len(e)) /\ (Len(e) + 1) - Len(e) = 1
    BY <1>3, <1>5
  <2>2. Len(f) + 1 \in 1..Len(g) /\ ~(Len(f) + 1 <= Len(f)) /\ (Len(f) + 1) - Len(f) = 1
    BY <1>3, <1>6
  <2> QED BY <1>2, <1>5, <1>6, <2>1, <2>2
<1>11. \A j \in 1..Len(g) : t[j] = g[j]
  BY <1>3, <1>6, <1>7
<1>12. ~(Len(e) < Len(f))
  <2> SUFFICES ASSUME Len(e) < Len(f) PROVE FALSE
    OBVIOUS
  <2>1. Len(e) + 1 \in 1..Len(p) /\ Len(e) + 1 \in 1..Len(g) /\ Len(e) + 1 \in 1..Len(f) /\ Len(e) + 1 <= Len(f)
    BY <1>3, <1>5, <1>6
  <2>2. p[Len(e) + 1] = f[Len(e) + 1]
    BY <1>6, <1>9, <1>11, <2>1
  <2> QED BY <1>4, <1>10, <2>1, <2>2
<1>13. ~(Len(f) < Len(e))
  <2> SUFFICES ASSUME Len(f) < Len(e) PROVE FALSE
    OBVIOUS
  <2>1. Len(f) + 1 \in 1..Len(p) /\ Len(f) + 1 \in 1..Len(g) /\ Len(f) + 1 \in 1..Len(e) /\ Len(f) + 1 <= Len(e)
    BY <1>3, <1>5, <1>6
  <2>2. g[Len(f) + 1] = e[Len(f) + 1]
    BY <1>5, <1>9, <1>11, <2>1
  <2> QED BY <1>4, <1>10, <2>1, <2>2
<1>14. Len(e) = Len(f)
  BY <1>3, <1>12, <1>13
<1>15. ASSUME NEW j \in 1..Len(e) PROVE e[j] = f[j]
  <2>1. j \in 1..Len(p) /\ j \in 1..Len(g) /\ j <= Len(e) /\ j <= Len(f)
    BY <1>3, <1>5, <1>6, <1>14
  <2> QED BY <1>5, <1>6, <1>9, <1>11, <2>1
<1> QED BY <1>2, <1>14, <1>15, SeqEqual

(***************************************************************************)
(* What the answers are.                                                   *)
(***************************************************************************)

\* What is asked for has a path.
LEMMA RequestIs ==
    ASSUME AnswerInv
    PROVE  token \in Tokens /\ Good(request) /\ \E T : request.path \in Seq(T)
<1>1. token \in Tokens /\ Good(request)
  BY GoodRequests, GoodRuns DEF AnswerInv
<1> QED BY <1>1 DEF Good, Asked

\* No token but a tenant's is ever answered a secret, and it only one of its own
\* folder, whatever the names of the envs and the tenants.  (tenant-reader.hcl.tpl,
\* tenant-writer.hcl.tpl; ValidateTenantID, ValidateEnvName)
THEOREM SecretsAlways == Spec => []SecretsOfOneTenant
<1>1. AnswerInv => SecretsOfOneTenant
  <2> SUFFICES ASSUME AnswerInv, answer = "granted", Asks("kv", 1)
               PROVE  \E k \in Kinds :
                        /\ token.policy = TenantPolicy(k) /\ token.tenant # Unknown
                        /\ IsPrefix(Folder(token.env, token.tenant), SubSeq(request.path, 3, Len(request.path)))
                        /\ k = "reader" => request.cap \in {"read", "list"}
    BY DEF SecretsOfOneTenant
  <2>1. token \in Tokens /\ \E T : request.path \in Seq(T)
    BY RequestIs
  <2>2. Granted(RenderPolicy(token.policy) \union Default, request) /\ request.path[1] = <<"kv">>
    BY DEF AnswerInv, Asks
  <2> QED BY <2>1, <2>2, AnySecretOfOneTenant
<1> QED BY <1>1, Answers, PTL

\* A role is only ever given the tenant policy of its mount.  (provisioning.hcl.tpl)
THEOREM RolesPinnedAlways == Spec => []RolesPinned
<1>1. AnswerInv => RolesPinned
  <2> SUFFICES ASSUME AnswerInv, answer = "granted", NEW k \in Kinds, IsPrefix(RolePath(k), request.path),
                      request.cap # "read", request.path[Len(request.path)] # <<"secret-id">>
               PROVE  request.params \intersect RolePolicies \subseteq {TenantPolicy(k)}
    BY DEF RolesPinned
  <2>1. token \in Tokens /\ Good(request)
    BY RequestIs
  <2>2. PICK T : request.path \in Seq(T)
    BY RequestIs
  <2>3. Granted(RenderPolicy(token.policy) \union Default, request)
    BY DEF AnswerInv
  <2>4. CASE request.cap = "list"
    BY <2>1, <2>4 DEF Good
  <2>5. CASE request.cap # "list"
    BY <2>1, <2>2, <2>3, <2>5, AnyRolePinned
  <2> QED BY <2>4, <2>5
<1> QED BY <1>1, Answers, PTL

\* A broker reads and mints for the roles of its mount, and on a shared cluster only
\* for those of its own env, also when the name of one env begins with another's.
\* (apps-reader.hcl.tpl, apps-writer.hcl.tpl)
THEOREM BrokersAlways == Spec => []BrokersInEnv
<1>1. AnswerInv => BrokersInEnv
  <2> SUFFICES ASSUME AnswerInv, NEW k \in Kinds, NEW m \in Kinds, answer = "granted",
                      token.policy = AppsPolicy(k), IsPrefix(RolePath(m), request.path)
               PROVE  /\ m = k /\ request.cap \in {"read", "update"}
                      /\ shared => /\ request.params = {}
                                   /\ \E i \in Ids : request.path[4] = TenantRole(token.env, i)
                      /\ ~shared => Len(request.path) = 5
    BY DEF BrokersInEnv
  <2>1. token \in Tokens /\ Good(request)
    BY RequestIs
  <2>2. PICK T : request.path \in Seq(T)
    BY RequestIs
  <2>3. Granted(RenderPolicy(token.policy) \union Default, request)
    BY DEF AnswerInv
  <2>4. /\ m = k /\ request.cap \in {"read", "update"}
        /\ shared => /\ request.params = {} /\ Len(request.path) >= 4 /\ token.env \in Envs
                     /\ \/ request.path[4] = token.env \o <<".">>
                        \/ IsPrefix(token.env \o <<".">>, request.path[4])
        /\ ~shared => Len(request.path) = 5
    BY <2>1, <2>2, <2>3, AnyBrokerInEnv
  <2>5. ASSUME shared PROVE \E i \in Ids : request.path[4] = TenantRole(token.env, i)
    <3>1. request.path[1] = <<"auth">> /\ request.path[2] = <<TenantMount(m)>>
      BY <2>2, RolePrefix
    <3>2. request.path[2] # <<"token">> /\ Len(request.path) # 3
      BY <2>4, <2>5, <3>1, Mounts
    <3>3. PICK f \in TenantEnvs, i \in Ids : request.path[4] = TenantRole(f, i)
      BY <2>1, <3>1, <3>2 DEF Good, Asked
    <3>4. f \in Envs
      BY <2>5 DEF TenantEnvs
    <3>5. token.env = f
      BY <2>4, <2>5, <3>3, <3>4, NoDot
    <3> QED BY <3>3, <3>5
  <2> QED BY <2>4, <2>5
<1> QED BY <1>1, Answers, PTL

\* What the platform is made of is changed by no token.  (README, Identities)
THEOREM PlatformAlways == Spec => []PlatformUnchanged
<1>1. AnswerInv => PlatformUnchanged
  <2> SUFFICES ASSUME AnswerInv, answer = "granted", request.cap \notin {"read", "list", "sudo"}
               PROVE  /\ request.path \notin PlatformPaths
                      /\ Asks("identity", 1) => ~Asks("merge", 3) /\ ~Asks("group", 2)
                      /\ Asks("identity", 1) /\ Asks("entity", 2) =>
                           request.params \intersect {"policies", "disabled"} = {}
    BY DEF PlatformUnchanged
  <2>1. token \in Tokens /\ Good(request)
    BY RequestIs
  <2>2. PICK T : request.path \in Seq(T)
    BY RequestIs
  <2>3. Granted(RenderPolicy(token.policy) \union Default, request)
    BY DEF AnswerInv
  <2>4. /\ request.path \notin PlatformPaths
        /\ request.path[1] = <<"identity">> =>
             /\ request.path[2] # <<"group">> /\ (Len(request.path) >= 3 => request.path[3] # <<"merge">>)
             /\ request.path[2] = <<"entity">> => request.params \intersect {"policies", "disabled"} = {}
    BY <2>1, <2>2, <2>3, AnyPlatformUnchanged
  <2> QED BY <2>4 DEF Asks
<1> QED BY <1>1, Answers, PTL

-----------------------------------------------------------------------------

(***************************************************************************)
(* What the rules of a policy are: their paths are told apart, and say     *)
(* what a rule grants.                                                     *)
(***************************************************************************)

IsExact(r) == \E p, c, t : r = Exact(p, c, t)
IsGlob(r)  == \E p, c, t : r = Glob(p, c, t)

\* A path that goes on below a folder.
Open(p) == p[Len(p)] = <<>>

Shaped(r, n, c, t) ==
    /\ r.caps = c /\ r.takes = t
    /\ Len(r.path) = n /\ \E T : r.path \in Seq(T)

\* A rule without a wildcard but at the end of an open path.
Plain(r) ==
    /\ \E T : r.path \in Seq(T)
    /\ \A i \in 1..Len(r.path) : r.path[i] # Plus
    /\ \/ IsExact(r) /\ ~Open(r.path)
       \/ IsGlob(r) /\ Open(r.path)

LEMMA Words4 == \A a, b, c, d : Words(<<a, b, c, d>>) = <<<<a>>, <<b>>, <<c>>, <<d>>>>
BY DEF Words

LEMMA Words5 == \A a, b, c, d, e : Words(<<a, b, c, d, e>>) = <<<<a>>, <<b>>, <<c>>, <<d>>, <<e>>>>
BY DEF Words

LEMMA ExactIs ==
    ASSUME NEW r, NEW p, NEW c, NEW t, r = Exact(p, c, t), NEW T, p \in Seq(T)
    PROVE  IsExact(r) /\ Shaped(r, Len(p), c, t) /\ r.path = p
<1>1. r.caps = c /\ r.takes = t /\ r.path = p
  BY DEF Exact
<1> QED BY <1>1 DEF Shaped, IsExact

LEMMA GlobIs ==
    ASSUME NEW r, NEW p, NEW c, NEW t, r = Glob(Append(p, <<>>), c, t), NEW T, p \in Seq(T)
    PROVE  IsGlob(r) /\ Shaped(r, Len(p) + 1, c, t) /\ Open(r.path) /\ \A i \in 1..Len(p) : r.path[i] = p[i]
<1> DEFINE q == Append(p, <<>>)
<1>1. p \in Seq(T \union {<<>>})
  OBVIOUS
<1>2. /\ q \in Seq(T \union {<<>>}) /\ Len(q) = Len(p) + 1 /\ q[Len(p) + 1] = <<>>
      /\ \A i \in 1..Len(p) : q[i] = p[i]
  BY <1>1, AppendProperties
<1>3. r = Glob(q, c, t)
  OBVIOUS
<1> HIDE DEF q
<1>4. r.path = q /\ r.caps = c /\ r.takes = t
  BY <1>3 DEF Glob
<1> QED BY <1>2, <1>3, <1>4 DEF Shaped, Open, IsGlob

LEMMA OpenShaped == ASSUME NEW r, NEW n, NEW c, NEW t, Shaped(r, n, c, t) PROVE Open(r.path) <=> r.path[n] = <<>>
BY DEF Shaped, Open

LEMMA PlainIs ==
    ASSUME NEW r, NEW n, NEW c, NEW t, Shaped(r, n, c, t), \A i \in 1..n : r.path[i] # Plus,
           (IsExact(r) /\ r.path[n] # <<>>) \/ (IsGlob(r) /\ r.path[n] = <<>>)
    PROVE  Plain(r) /\ r.caps = c /\ r.takes = t /\ Len(r.path) = n
BY DEF Shaped, Plain, Open

LEMMA RowExact2 ==
    ASSUME NEW r, NEW c, NEW t, NEW a, NEW b, a # "+", b # "+",
           r = Exact(Words(<<a, b>>), c, t)
    PROVE  /\ Plain(r) /\ r.caps = c /\ r.takes = t
           /\ Len(r.path) = 2 /\ r.path[1] = <<a>> /\ r.path[2] = <<b>>
<1> DEFINE p == Words(<<a, b>>)
           U == {<<a>>, <<b>>}
<1>1. p = <<<<a>>, <<b>>>>
  BY Words2
<1>2. r = Exact(p, c, t)
  OBVIOUS
<1>3. <<a>> # Plus /\ <<a>> # <<>> /\ <<b>> # Plus /\ <<b>> # <<>>
  BY DEF Plus
<1> HIDE DEF p
<1>4. p \in Seq(U)
  BY <1>1
<1>5. Len(p) = 2 /\ p[1] = <<a>> /\ p[2] = <<b>>
  BY <1>1
<1> HIDE DEF U
<1>6. Shaped(r, Len(p), c, t) /\ IsExact(r) /\ r.path = p
  BY <1>2, <1>4, ExactIs
<1>7. Len(p) = 2 /\ 1 \in 1..Len(p) /\ 2 \in 1..Len(p)
  BY <1>5
<1>8. Shaped(r, 2, c, t)
  BY <1>6, <1>7
<1>9. r.path[1] = <<a>> /\ r.path[2] = <<b>>
  BY <1>5, <1>6, <1>7
<1>10. \A i \in 1..2 : r.path[i] # Plus
  <2>1. \A i \in 1..2 : i = 1 \/ i = 2
    OBVIOUS
  <2> QED BY <1>3, <1>9, <2>1
<1>11. (IsExact(r) /\ r.path[2] # <<>>) \/ (IsGlob(r) /\ r.path[2] = <<>>)
  BY <1>3, <1>6, <1>9
<1> QED BY <1>8, <1>9, <1>10, <1>11, PlainIs

LEMMA RowGlob2 ==
    ASSUME NEW r, NEW c, NEW t, NEW a, NEW b, a # "+", b # "+",
           r = Glob(Append(Words(<<a, b>>), <<>>), c, t)
    PROVE  /\ Plain(r) /\ r.caps = c /\ r.takes = t
           /\ Len(r.path) = 3 /\ r.path[1] = <<a>> /\ r.path[2] = <<b>> /\ r.path[3] = <<>>
<1> DEFINE p == Words(<<a, b>>)
           U == {<<a>>, <<b>>}
<1>1. p = <<<<a>>, <<b>>>>
  BY Words2
<1>2. r = Glob(Append(p, <<>>), c, t)
  OBVIOUS
<1>3. <<a>> # Plus /\ <<a>> # <<>> /\ <<b>> # Plus /\ <<b>> # <<>> /\ <<>> # Plus
  BY DEF Plus
<1> HIDE DEF p
<1>4. p \in Seq(U)
  BY <1>1
<1>5. Len(p) = 2 /\ p[1] = <<a>> /\ p[2] = <<b>>
  BY <1>1
<1> HIDE DEF U
<1>6. Shaped(r, Len(p) + 1, c, t) /\ IsGlob(r) /\ Open(r.path) /\ \A i \in 1..Len(p) : r.path[i] = p[i]
  BY <1>2, <1>4, GlobIs
<1>7. Len(p) + 1 = 3 /\ 1 \in 1..Len(p) /\ 2 \in 1..Len(p)
  BY <1>5
<1>8. Shaped(r, 3, c, t)
  BY <1>6, <1>7
<1>9. r.path[1] = <<a>> /\ r.path[2] = <<b>> /\ r.path[3] = <<>>
  BY <1>5, <1>6, <1>7, <1>8, OpenShaped
<1>10. \A i \in 1..3 : r.path[i] # Plus
  <2>1. \A i \in 1..3 : i = 1 \/ i = 2 \/ i = 3
    OBVIOUS
  <2> QED BY <1>3, <1>9, <2>1
<1>11. (IsExact(r) /\ r.path[3] # <<>>) \/ (IsGlob(r) /\ r.path[3] = <<>>)
  BY <1>3, <1>6, <1>9
<1> QED BY <1>8, <1>9, <1>10, <1>11, PlainIs

LEMMA RowExact3 ==
    ASSUME NEW r, NEW c, NEW t, NEW a, NEW b, NEW d, a # "+", b # "+", d # "+",
           r = Exact(Words(<<a, b, d>>), c, t)
    PROVE  /\ Plain(r) /\ r.caps = c /\ r.takes = t
           /\ Len(r.path) = 3 /\ r.path[1] = <<a>> /\ r.path[2] = <<b>> /\ r.path[3] = <<d>>
<1> DEFINE p == Words(<<a, b, d>>)
           U == {<<a>>, <<b>>, <<d>>}
<1>1. p = <<<<a>>, <<b>>, <<d>>>>
  BY Words3
<1>2. r = Exact(p, c, t)
  OBVIOUS
<1>3. <<a>> # Plus /\ <<a>> # <<>> /\ <<b>> # Plus /\ <<b>> # <<>> /\ <<d>> # Plus /\ <<d>> # <<>>
  BY DEF Plus
<1> HIDE DEF p
<1>4. p \in Seq(U)
  BY <1>1
<1>5. Len(p) = 3 /\ p[1] = <<a>> /\ p[2] = <<b>> /\ p[3] = <<d>>
  BY <1>1
<1> HIDE DEF U
<1>6. Shaped(r, Len(p), c, t) /\ IsExact(r) /\ r.path = p
  BY <1>2, <1>4, ExactIs
<1>7. Len(p) = 3 /\ 1 \in 1..Len(p) /\ 2 \in 1..Len(p) /\ 3 \in 1..Len(p)
  BY <1>5
<1>8. Shaped(r, 3, c, t)
  BY <1>6, <1>7
<1>9. r.path[1] = <<a>> /\ r.path[2] = <<b>> /\ r.path[3] = <<d>>
  BY <1>5, <1>6, <1>7
<1>10. \A i \in 1..3 : r.path[i] # Plus
  <2>1. \A i \in 1..3 : i = 1 \/ i = 2 \/ i = 3
    OBVIOUS
  <2> QED BY <1>3, <1>9, <2>1
<1>11. (IsExact(r) /\ r.path[3] # <<>>) \/ (IsGlob(r) /\ r.path[3] = <<>>)
  BY <1>3, <1>6, <1>9
<1> QED BY <1>8, <1>9, <1>10, <1>11, PlainIs

LEMMA RowGlob3 ==
    ASSUME NEW r, NEW c, NEW t, NEW a, NEW b, NEW d, a # "+", b # "+", d # "+",
           r = Glob(Append(Words(<<a, b, d>>), <<>>), c, t)
    PROVE  /\ Plain(r) /\ r.caps = c /\ r.takes = t
           /\ Len(r.path) = 4 /\ r.path[1] = <<a>> /\ r.path[2] = <<b>> /\ r.path[3] = <<d>> /\ r.path[4] = <<>>
<1> DEFINE p == Words(<<a, b, d>>)
           U == {<<a>>, <<b>>, <<d>>}
<1>1. p = <<<<a>>, <<b>>, <<d>>>>
  BY Words3
<1>2. r = Glob(Append(p, <<>>), c, t)
  OBVIOUS
<1>3. <<a>> # Plus /\ <<a>> # <<>> /\ <<b>> # Plus /\ <<b>> # <<>> /\ <<d>> # Plus /\ <<d>> # <<>> /\ <<>> # Plus
  BY DEF Plus
<1> HIDE DEF p
<1>4. p \in Seq(U)
  BY <1>1
<1>5. Len(p) = 3 /\ p[1] = <<a>> /\ p[2] = <<b>> /\ p[3] = <<d>>
  BY <1>1
<1> HIDE DEF U
<1>6. Shaped(r, Len(p) + 1, c, t) /\ IsGlob(r) /\ Open(r.path) /\ \A i \in 1..Len(p) : r.path[i] = p[i]
  BY <1>2, <1>4, GlobIs
<1>7. Len(p) + 1 = 4 /\ 1 \in 1..Len(p) /\ 2 \in 1..Len(p) /\ 3 \in 1..Len(p)
  BY <1>5
<1>8. Shaped(r, 4, c, t)
  BY <1>6, <1>7
<1>9. r.path[1] = <<a>> /\ r.path[2] = <<b>> /\ r.path[3] = <<d>> /\ r.path[4] = <<>>
  BY <1>5, <1>6, <1>7, <1>8, OpenShaped
<1>10. \A i \in 1..4 : r.path[i] # Plus
  <2>1. \A i \in 1..4 : i = 1 \/ i = 2 \/ i = 3 \/ i = 4
    OBVIOUS
  <2> QED BY <1>3, <1>9, <2>1
<1>11. (IsExact(r) /\ r.path[4] # <<>>) \/ (IsGlob(r) /\ r.path[4] = <<>>)
  BY <1>3, <1>6, <1>9
<1> QED BY <1>8, <1>9, <1>10, <1>11, PlainIs

LEMMA RowExact4 ==
    ASSUME NEW r, NEW c, NEW t, NEW a, NEW b, NEW d, NEW e, a # "+", b # "+", d # "+", e # "+",
           r = Exact(Words(<<a, b, d, e>>), c, t)
    PROVE  /\ Plain(r) /\ r.caps = c /\ r.takes = t
           /\ Len(r.path) = 4 /\ r.path[1] = <<a>> /\ r.path[2] = <<b>> /\ r.path[3] = <<d>> /\ r.path[4] = <<e>>
<1> DEFINE p == Words(<<a, b, d, e>>)
           U == {<<a>>, <<b>>, <<d>>, <<e>>}
<1>1. p = <<<<a>>, <<b>>, <<d>>, <<e>>>>
  BY Words4
<1>2. r = Exact(p, c, t)
  OBVIOUS
<1>3. <<a>> # Plus /\ <<a>> # <<>> /\ <<b>> # Plus /\ <<b>> # <<>> /\ <<d>> # Plus /\ <<d>> # <<>> /\ <<e>> # Plus /\ <<e>> # <<>>
  BY DEF Plus
<1> HIDE DEF p
<1>4. p \in Seq(U)
  BY <1>1
<1>5. Len(p) = 4 /\ p[1] = <<a>> /\ p[2] = <<b>> /\ p[3] = <<d>> /\ p[4] = <<e>>
  BY <1>1
<1> HIDE DEF U
<1>6. Shaped(r, Len(p), c, t) /\ IsExact(r) /\ r.path = p
  BY <1>2, <1>4, ExactIs
<1>7. Len(p) = 4 /\ 1 \in 1..Len(p) /\ 2 \in 1..Len(p) /\ 3 \in 1..Len(p) /\ 4 \in 1..Len(p)
  BY <1>5
<1>8. Shaped(r, 4, c, t)
  BY <1>6, <1>7
<1>9. r.path[1] = <<a>> /\ r.path[2] = <<b>> /\ r.path[3] = <<d>> /\ r.path[4] = <<e>>
  BY <1>5, <1>6, <1>7
<1>10. \A i \in 1..4 : r.path[i] # Plus
  <2>1. \A i \in 1..4 : i = 1 \/ i = 2 \/ i = 3 \/ i = 4
    OBVIOUS
  <2> QED BY <1>3, <1>9, <2>1
<1>11. (IsExact(r) /\ r.path[4] # <<>>) \/ (IsGlob(r) /\ r.path[4] = <<>>)
  BY <1>3, <1>6, <1>9
<1> QED BY <1>8, <1>9, <1>10, <1>11, PlainIs

LEMMA RowExact5 ==
    ASSUME NEW r, NEW c, NEW t, NEW a, NEW b, NEW d, NEW e, NEW f, a # "+", b # "+", d # "+", e # "+", f # "+",
           r = Exact(Words(<<a, b, d, e, f>>), c, t)
    PROVE  /\ Plain(r) /\ r.caps = c /\ r.takes = t
           /\ Len(r.path) = 5 /\ r.path[1] = <<a>> /\ r.path[2] = <<b>> /\ r.path[3] = <<d>> /\ r.path[4] = <<e>> /\ r.path[5] = <<f>>
<1> DEFINE p == Words(<<a, b, d, e, f>>)
           U == {<<a>>, <<b>>, <<d>>, <<e>>, <<f>>}
<1>1. p = <<<<a>>, <<b>>, <<d>>, <<e>>, <<f>>>>
  BY Words5
<1>2. r = Exact(p, c, t)
  OBVIOUS
<1>3. <<a>> # Plus /\ <<a>> # <<>> /\ <<b>> # Plus /\ <<b>> # <<>> /\ <<d>> # Plus /\ <<d>> # <<>> /\ <<e>> # Plus /\ <<e>> # <<>> /\ <<f>> # Plus /\ <<f>> # <<>>
  BY DEF Plus
<1> HIDE DEF p
<1>4. p \in Seq(U)
  BY <1>1
<1>5. Len(p) = 5 /\ p[1] = <<a>> /\ p[2] = <<b>> /\ p[3] = <<d>> /\ p[4] = <<e>> /\ p[5] = <<f>>
  BY <1>1
<1> HIDE DEF U
<1>6. Shaped(r, Len(p), c, t) /\ IsExact(r) /\ r.path = p
  BY <1>2, <1>4, ExactIs
<1>7. Len(p) = 5 /\ 1 \in 1..Len(p) /\ 2 \in 1..Len(p) /\ 3 \in 1..Len(p) /\ 4 \in 1..Len(p) /\ 5 \in 1..Len(p)
  BY <1>5
<1>8. Shaped(r, 5, c, t)
  BY <1>6, <1>7
<1>9. r.path[1] = <<a>> /\ r.path[2] = <<b>> /\ r.path[3] = <<d>> /\ r.path[4] = <<e>> /\ r.path[5] = <<f>>
  BY <1>5, <1>6, <1>7
<1>10. \A i \in 1..5 : r.path[i] # Plus
  <2>1. \A i \in 1..5 : i = 1 \/ i = 2 \/ i = 3 \/ i = 4 \/ i = 5
    OBVIOUS
  <2> QED BY <1>3, <1>9, <2>1
<1>11. (IsExact(r) /\ r.path[5] # <<>>) \/ (IsGlob(r) /\ r.path[5] = <<>>)
  BY <1>3, <1>6, <1>9
<1> QED BY <1>8, <1>9, <1>10, <1>11, PlainIs

-----------------------------------------------------------------------------
(* The operator's rules.                                                   *)

\* What the operator may do at a path.
OperatorCaps(p) ==
    IF p[1] = <<"auth">> /\ p[2] = <<"token">> THEN IF p[3] = <<"lookup-self">> THEN {"read"} ELSE {"update"}
    ELSE IF p[1] = <<"auth">> THEN IF Open(p) THEN {"read"} ELSE {"list"}
    ELSE IF p[1] = <<"kv">> THEN {"deny"}
    ELSE IF p[2] = <<"health">> THEN {"read", "sudo"}
    ELSE IF p[2] = <<"mounts">> THEN IF Open(p) THEN {"read"} ELSE {"read", "sudo"}
    ELSE IF p[2] = <<"audit">> THEN IF Open(p) THEN {"deny"} ELSE {"read", "sudo"}
    ELSE IF p[2] = <<"storage">> /\ p[4] = <<"remove-peer">> THEN {"update", "sudo"}
    ELSE IF p[2] = <<"storage">> /\ p[4] = <<"snapshot-force">> THEN {"deny"}
    ELSE IF p[2] = <<"policies">> THEN IF Open(p) THEN {"read"} ELSE IF Len(p) = 3 THEN {"list"} ELSE {"deny"}
    ELSE IF p[2] = <<"leases">> /\ p[3] = <<"revoke-prefix">> THEN {"update", "sudo"}
    ELSE IF p[2] = <<"leases">> THEN IF Open(p) THEN {"list", "read"} ELSE {"update"}
    ELSE IF p[2] = <<"generate-root">> THEN Managed \union {"sudo"}
    ELSE IF p[2] = <<"step-down">> THEN {"update", "sudo"}
    ELSE {"read"}

OperatorAt(p, c) ==
    /\ c = OperatorCaps(p) /\ Len(p) >= 2
    /\ p[1] \in {<<"sys">>, <<"auth">>} \/ c = {"deny"}
    /\ Open(p) => /\ Len(p) >= 3 /\ p[1] \in {<<"sys">>, <<"auth">>, <<"kv">>}
                  /\ p[1] = <<"auth">> => p[2] # <<"token">>
                  /\ p[1] = <<"sys">> => p[2] \in {<<"mounts">>, <<"policies">>, <<"leases">>, <<"generate-root">>, <<"audit">>}
    /\ p[1] = <<"sys">> /\ p[2] \in {<<"mounts">>, <<"generate-root">>} => Len(p) = IF Open(p) THEN 3 ELSE 2

LEMMA OperatorRules ==
    ASSUME NEW r \in Operator
    PROVE  Plain(r) /\ r.takes = Params /\ OperatorAt(r.path, r.caps)
<1> DEFINE p == r.path
           c == r.caps
<1> HIDE DEF p, c
<1>1. CASE r = Grant(Words(<<"sys", "health">>), {"read", "sudo"})
  <2>1. /\ Plain(r) /\ c = {"read", "sudo"} /\ r.takes = Params
        /\ Len(p) = 2 /\ p[1] = <<"sys">> /\ p[2] = <<"health">>
    BY <1>1, RowExact2 DEF p, c, Grant
  <2>2. OperatorAt(p, c)
    BY <2>1 DEF OperatorAt, OperatorCaps, Open
  <2> QED BY <2>1, <2>2 DEF p, c
<1>2. CASE r = Grant(Words(<<"sys", "mounts">>), {"read", "sudo"})
  <2>1. /\ Plain(r) /\ c = {"read", "sudo"} /\ r.takes = Params
        /\ Len(p) = 2 /\ p[1] = <<"sys">> /\ p[2] = <<"mounts">>
    BY <1>2, RowExact2 DEF p, c, Grant
  <2>2. OperatorAt(p, c)
    BY <2>1 DEF OperatorAt, OperatorCaps, Open
  <2> QED BY <2>1, <2>2 DEF p, c
<1>3. CASE r = Grant(Words(<<"sys", "audit">>), {"read", "sudo"})
  <2>1. /\ Plain(r) /\ c = {"read", "sudo"} /\ r.takes = Params
        /\ Len(p) = 2 /\ p[1] = <<"sys">> /\ p[2] = <<"audit">>
    BY <1>3, RowExact2 DEF p, c, Grant
  <2>2. OperatorAt(p, c)
    BY <2>1 DEF OperatorAt, OperatorCaps, Open
  <2> QED BY <2>1, <2>2 DEF p, c
<1>4. CASE r = Grant(Words(<<"sys", "seal-status">>), {"read"})
  <2>1. /\ Plain(r) /\ c = {"read"} /\ r.takes = Params
        /\ Len(p) = 2 /\ p[1] = <<"sys">> /\ p[2] = <<"seal-status">>
    BY <1>4, RowExact2 DEF p, c, Grant
  <2>2. OperatorAt(p, c)
    BY <2>1 DEF OperatorAt, OperatorCaps, Open
  <2> QED BY <2>1, <2>2 DEF p, c
<1>5. CASE r = Grant(Words(<<"sys", "leader">>), {"read"})
  <2>1. /\ Plain(r) /\ c = {"read"} /\ r.takes = Params
        /\ Len(p) = 2 /\ p[1] = <<"sys">> /\ p[2] = <<"leader">>
    BY <1>5, RowExact2 DEF p, c, Grant
  <2>2. OperatorAt(p, c)
    BY <2>1 DEF OperatorAt, OperatorCaps, Open
  <2> QED BY <2>1, <2>2 DEF p, c
<1>6. CASE r = Grant(Words(<<"sys", "auth">>), {"read"})
  <2>1. /\ Plain(r) /\ c = {"read"} /\ r.takes = Params
        /\ Len(p) = 2 /\ p[1] = <<"sys">> /\ p[2] = <<"auth">>
    BY <1>6, RowExact2 DEF p, c, Grant
  <2>2. OperatorAt(p, c)
    BY <2>1 DEF OperatorAt, OperatorCaps, Open
  <2> QED BY <2>1, <2>2 DEF p, c
<1>7. CASE r = Grant(Words(<<"sys", "storage", "raft">> \o <<"snapshot">>), {"read"})
  <2>1. /\ Plain(r) /\ c = {"read"} /\ r.takes = Params
        /\ Len(p) = 4 /\ p[1] = <<"sys">> /\ p[2] = <<"storage">> /\ p[3] = <<"raft">> /\ p[4] = <<"snapshot">>
    BY <1>7, RowExact4, RaftWords DEF p, c, Grant
  <2>2. OperatorAt(p, c)
    BY <2>1 DEF OperatorAt, OperatorCaps, Open
  <2> QED BY <2>1, <2>2 DEF p, c
<1>8. CASE r = Grant(Words(<<"sys", "storage", "raft">> \o <<"configuration">>), {"read"})
  <2>1. /\ Plain(r) /\ c = {"read"} /\ r.takes = Params
        /\ Len(p) = 4 /\ p[1] = <<"sys">> /\ p[2] = <<"storage">> /\ p[3] = <<"raft">> /\ p[4] = <<"configuration">>
    BY <1>8, RowExact4, RaftWords DEF p, c, Grant
  <2>2. OperatorAt(p, c)
    BY <2>1 DEF OperatorAt, OperatorCaps, Open
  <2> QED BY <2>1, <2>2 DEF p, c
<1>9. CASE r = Grant(Words(<<"sys", "storage", "raft">> \o <<"autopilot", "state">>), {"read"})
  <2>1. /\ Plain(r) /\ c = {"read"} /\ r.takes = Params
        /\ Len(p) = 5 /\ p[1] = <<"sys">> /\ p[2] = <<"storage">> /\ p[3] = <<"raft">> /\ p[4] = <<"autopilot">> /\ p[5] = <<"state">>
    BY <1>9, RowExact5, RaftWords DEF p, c, Grant
  <2>2. OperatorAt(p, c)
    BY <2>1 DEF OperatorAt, OperatorCaps, Open
  <2> QED BY <2>1, <2>2 DEF p, c
<1>10. CASE r = Below(Words(<<"sys", "mounts">>), {"read"})
  <2>1. /\ Plain(r) /\ c = {"read"} /\ r.takes = Params
        /\ Len(p) = 3 /\ p[1] = <<"sys">> /\ p[2] = <<"mounts">> /\ p[3] = <<>>
    BY <1>10, RowGlob2 DEF p, c, Below
  <2>2. OperatorAt(p, c)
    BY <2>1 DEF OperatorAt, OperatorCaps, Open
  <2> QED BY <2>1, <2>2 DEF p, c
<1>11. CASE r = Below(Words(<<"sys", "policies", "acl">>), {"read"})
  <2>1. /\ Plain(r) /\ c = {"read"} /\ r.takes = Params
        /\ Len(p) = 4 /\ p[1] = <<"sys">> /\ p[2] = <<"policies">> /\ p[3] = <<"acl">> /\ p[4] = <<>>
    BY <1>11, RowGlob3 DEF p, c, Below
  <2>2. OperatorAt(p, c)
    BY <2>1 DEF OperatorAt, OperatorCaps, Open
  <2> QED BY <2>1, <2>2 DEF p, c
<1>12. CASE r = Grant(Words(<<"sys", "policies", "acl">>), {"list"})
  <2>1. /\ Plain(r) /\ c = {"list"} /\ r.takes = Params
        /\ Len(p) = 3 /\ p[1] = <<"sys">> /\ p[2] = <<"policies">> /\ p[3] = <<"acl">>
    BY <1>12, RowExact3 DEF p, c, Grant
  <2>2. OperatorAt(p, c)
    BY <2>1 DEF OperatorAt, OperatorCaps, Open
  <2> QED BY <2>1, <2>2 DEF p, c
<1>13. CASE r = Grant(RolePath("reader"), {"list"})
  <2>1. /\ Plain(r) /\ c = {"list"} /\ r.takes = Params
        /\ Len(p) = 3 /\ p[1] = <<"auth">> /\ p[2] = <<"approle-reader">> /\ p[3] = <<"role">>
    BY <1>13, RowExact3 DEF p, c, Grant, RolePath, TenantMount
  <2>2. OperatorAt(p, c)
    BY <2>1 DEF OperatorAt, OperatorCaps, Open
  <2> QED BY <2>1, <2>2 DEF p, c
<1>14. CASE r = Below(RolePath("reader"), {"read"})
  <2>1. /\ Plain(r) /\ c = {"read"} /\ r.takes = Params
        /\ Len(p) = 4 /\ p[1] = <<"auth">> /\ p[2] = <<"approle-reader">> /\ p[3] = <<"role">> /\ p[4] = <<>>
    BY <1>14, RowGlob3 DEF p, c, Below, RolePath, TenantMount
  <2>2. OperatorAt(p, c)
    BY <2>1 DEF OperatorAt, OperatorCaps, Open
  <2> QED BY <2>1, <2>2 DEF p, c
<1>15. CASE r = Grant(RolePath("writer"), {"list"})
  <2>1. /\ Plain(r) /\ c = {"list"} /\ r.takes = Params
        /\ Len(p) = 3 /\ p[1] = <<"auth">> /\ p[2] = <<"approle-writer">> /\ p[3] = <<"role">>
    BY <1>15, RowExact3 DEF p, c, Grant, RolePath, TenantMount
  <2>2. OperatorAt(p, c)
    BY <2>1 DEF OperatorAt, OperatorCaps, Open
  <2> QED BY <2>1, <2>2 DEF p, c
<1>16. CASE r = Below(RolePath("writer"), {"read"})
  <2>1. /\ Plain(r) /\ c = {"read"} /\ r.takes = Params
        /\ Len(p) = 4 /\ p[1] = <<"auth">> /\ p[2] = <<"approle-writer">> /\ p[3] = <<"role">> /\ p[4] = <<>>
    BY <1>16, RowGlob3 DEF p, c, Below, RolePath, TenantMount
  <2>2. OperatorAt(p, c)
    BY <2>1 DEF OperatorAt, OperatorCaps, Open
  <2> QED BY <2>1, <2>2 DEF p, c
<1>17. CASE r = Grant(Words(<<"sys", "leases", "lookup">>), {"update"})
  <2>1. /\ Plain(r) /\ c = {"update"} /\ r.takes = Params
        /\ Len(p) = 3 /\ p[1] = <<"sys">> /\ p[2] = <<"leases">> /\ p[3] = <<"lookup">>
    BY <1>17, RowExact3 DEF p, c, Grant
  <2>2. OperatorAt(p, c)
    BY <2>1 DEF OperatorAt, OperatorCaps, Open
  <2> QED BY <2>1, <2>2 DEF p, c
<1>18. CASE r = Grant(Words(<<"sys", "leases", "revoke">>), {"update"})
  <2>1. /\ Plain(r) /\ c = {"update"} /\ r.takes = Params
        /\ Len(p) = 3 /\ p[1] = <<"sys">> /\ p[2] = <<"leases">> /\ p[3] = <<"revoke">>
    BY <1>18, RowExact3 DEF p, c, Grant
  <2>2. OperatorAt(p, c)
    BY <2>1 DEF OperatorAt, OperatorCaps, Open
  <2> QED BY <2>1, <2>2 DEF p, c
<1>19. CASE r = Below(Words(<<"sys", "leases", "lookup">>), {"list", "read"})
  <2>1. /\ Plain(r) /\ c = {"list", "read"} /\ r.takes = Params
        /\ Len(p) = 4 /\ p[1] = <<"sys">> /\ p[2] = <<"leases">> /\ p[3] = <<"lookup">> /\ p[4] = <<>>
    BY <1>19, RowGlob3 DEF p, c, Below
  <2>2. OperatorAt(p, c)
    BY <2>1 DEF OperatorAt, OperatorCaps, Open
  <2> QED BY <2>1, <2>2 DEF p, c
<1>20. CASE r = Below(Words(<<"sys", "leases", "revoke-prefix">>), {"update", "sudo"})
  <2>1. /\ Plain(r) /\ c = {"update", "sudo"} /\ r.takes = Params
        /\ Len(p) = 4 /\ p[1] = <<"sys">> /\ p[2] = <<"leases">> /\ p[3] = <<"revoke-prefix">> /\ p[4] = <<>>
    BY <1>20, RowGlob3 DEF p, c, Below
  <2>2. OperatorAt(p, c)
    BY <2>1 DEF OperatorAt, OperatorCaps, Open
  <2> QED BY <2>1, <2>2 DEF p, c
<1>21. CASE r = Grant(Words(<<"sys", "generate-root">>), Managed \union {"sudo"})
  <2>1. /\ Plain(r) /\ c = Managed \union {"sudo"} /\ r.takes = Params
        /\ Len(p) = 2 /\ p[1] = <<"sys">> /\ p[2] = <<"generate-root">>
    BY <1>21, RowExact2 DEF p, c, Grant
  <2>2. OperatorAt(p, c)
    BY <2>1 DEF OperatorAt, OperatorCaps, Open
  <2> QED BY <2>1, <2>2 DEF p, c
<1>22. CASE r = Below(Words(<<"sys", "generate-root">>), Managed \union {"sudo"})
  <2>1. /\ Plain(r) /\ c = Managed \union {"sudo"} /\ r.takes = Params
        /\ Len(p) = 3 /\ p[1] = <<"sys">> /\ p[2] = <<"generate-root">> /\ p[3] = <<>>
    BY <1>22, RowGlob2 DEF p, c, Below
  <2>2. OperatorAt(p, c)
    BY <2>1 DEF OperatorAt, OperatorCaps, Open
  <2> QED BY <2>1, <2>2 DEF p, c
<1>23. CASE r = Grant(Words(<<"sys", "step-down">>), {"update", "sudo"})
  <2>1. /\ Plain(r) /\ c = {"update", "sudo"} /\ r.takes = Params
        /\ Len(p) = 2 /\ p[1] = <<"sys">> /\ p[2] = <<"step-down">>
    BY <1>23, RowExact2 DEF p, c, Grant
  <2>2. OperatorAt(p, c)
    BY <2>1 DEF OperatorAt, OperatorCaps, Open
  <2> QED BY <2>1, <2>2 DEF p, c
<1>24. CASE r = Grant(Words(<<"sys", "storage", "raft", "remove-peer">>), {"update", "sudo"})
  <2>1. /\ Plain(r) /\ c = {"update", "sudo"} /\ r.takes = Params
        /\ Len(p) = 4 /\ p[1] = <<"sys">> /\ p[2] = <<"storage">> /\ p[3] = <<"raft">> /\ p[4] = <<"remove-peer">>
    BY <1>24, RowExact4 DEF p, c, Grant
  <2>2. OperatorAt(p, c)
    BY <2>1 DEF OperatorAt, OperatorCaps, Open
  <2> QED BY <2>1, <2>2 DEF p, c
<1>25. CASE r = DenyBelow(Words(<<"kv", "data">>))
  <2>1. /\ Plain(r) /\ c = {"deny"} /\ r.takes = Params
        /\ Len(p) = 3 /\ p[1] = <<"kv">> /\ p[2] = <<"data">> /\ p[3] = <<>>
    BY <1>25, RowGlob2 DEF p, c, Below, DenyBelow
  <2>2. OperatorAt(p, c)
    BY <2>1 DEF OperatorAt, OperatorCaps, Open
  <2> QED BY <2>1, <2>2 DEF p, c
<1>26. CASE r = DenyBelow(Words(<<"kv", "metadata">>))
  <2>1. /\ Plain(r) /\ c = {"deny"} /\ r.takes = Params
        /\ Len(p) = 3 /\ p[1] = <<"kv">> /\ p[2] = <<"metadata">> /\ p[3] = <<>>
    BY <1>26, RowGlob2 DEF p, c, Below, DenyBelow
  <2>2. OperatorAt(p, c)
    BY <2>1 DEF OperatorAt, OperatorCaps, Open
  <2> QED BY <2>1, <2>2 DEF p, c
<1>27. CASE r = Deny(Words(<<"sys", "policies", "acl", "operator">>))
  <2>1. /\ Plain(r) /\ c = {"deny"} /\ r.takes = Params
        /\ Len(p) = 4 /\ p[1] = <<"sys">> /\ p[2] = <<"policies">> /\ p[3] = <<"acl">> /\ p[4] = <<"operator">>
    BY <1>27, RowExact4 DEF p, c, Grant, Deny
  <2>2. OperatorAt(p, c)
    BY <2>1 DEF OperatorAt, OperatorCaps, Open
  <2> QED BY <2>1, <2>2 DEF p, c
<1>28. CASE r = DenyBelow(Words(<<"sys", "audit">>))
  <2>1. /\ Plain(r) /\ c = {"deny"} /\ r.takes = Params
        /\ Len(p) = 3 /\ p[1] = <<"sys">> /\ p[2] = <<"audit">> /\ p[3] = <<>>
    BY <1>28, RowGlob2 DEF p, c, Below, DenyBelow
  <2>2. OperatorAt(p, c)
    BY <2>1 DEF OperatorAt, OperatorCaps, Open
  <2> QED BY <2>1, <2>2 DEF p, c
<1>29. CASE r = Deny(Words(<<"sys", "storage", "raft", "snapshot-force">>))
  <2>1. /\ Plain(r) /\ c = {"deny"} /\ r.takes = Params
        /\ Len(p) = 4 /\ p[1] = <<"sys">> /\ p[2] = <<"storage">> /\ p[3] = <<"raft">> /\ p[4] = <<"snapshot-force">>
    BY <1>29, RowExact4 DEF p, c, Grant, Deny
  <2>2. OperatorAt(p, c)
    BY <2>1 DEF OperatorAt, OperatorCaps, Open
  <2> QED BY <2>1, <2>2 DEF p, c
<1>30. CASE r = Grant(Words(<<"auth", "token", "lookup-self">>), {"read"})
  <2>1. /\ Plain(r) /\ c = {"read"} /\ r.takes = Params
        /\ Len(p) = 3 /\ p[1] = <<"auth">> /\ p[2] = <<"token">> /\ p[3] = <<"lookup-self">>
    BY <1>30, RowExact3 DEF p, c, Grant
  <2>2. OperatorAt(p, c)
    BY <2>1 DEF OperatorAt, OperatorCaps, Open
  <2> QED BY <2>1, <2>2 DEF p, c
<1>31. CASE r = Grant(Words(<<"auth", "token", "renew-self">>), {"update"})
  <2>1. /\ Plain(r) /\ c = {"update"} /\ r.takes = Params
        /\ Len(p) = 3 /\ p[1] = <<"auth">> /\ p[2] = <<"token">> /\ p[3] = <<"renew-self">>
    BY <1>31, RowExact3 DEF p, c, Grant
  <2>2. OperatorAt(p, c)
    BY <2>1 DEF OperatorAt, OperatorCaps, Open
  <2> QED BY <2>1, <2>2 DEF p, c
<1>32. CASE r = Grant(Words(<<"auth", "token", "revoke-self">>), {"update"})
  <2>1. /\ Plain(r) /\ c = {"update"} /\ r.takes = Params
        /\ Len(p) = 3 /\ p[1] = <<"auth">> /\ p[2] = <<"token">> /\ p[3] = <<"revoke-self">>
    BY <1>32, RowExact3 DEF p, c, Grant
  <2>2. OperatorAt(p, c)
    BY <2>1 DEF OperatorAt, OperatorCaps, Open
  <2> QED BY <2>1, <2>2 DEF p, c
<1> QED BY <1>1, <1>2, <1>3, <1>4, <1>5, <1>6, <1>7, <1>8, <1>9, <1>10, <1>11, <1>12, <1>13, <1>14, <1>15, <1>16, <1>17, <1>18, <1>19, <1>20, <1>21, <1>22, <1>23, <1>24, <1>25, <1>26, <1>27, <1>28, <1>29, <1>30, <1>31, <1>32 DEF Operator, Default, Self, Kinds

-----------------------------------------------------------------------------
(* What the program asks for.                                              *)

\* A rule that alone fits a request decides it.
LEMMA OnlyFit ==
    ASSUME NEW rules, NEW q, NEW r \in rules, Fits(r, q.path), q.cap \in r.caps, q.params \subseteq r.takes,
           "deny" \notin r.caps, \A s \in rules : Fits(s, q.path) => s = r
    PROVE  Granted(rules, q)
<1>1. NoBetter(r, r)
  BY DEF NoBetter
<1> QED BY <1>1 DEF Granted

LEMMA FitsItself ==
    ASSUME NEW c, NEW t, NEW T, NEW p \in Seq(T)
    PROVE  Fits(Exact(p, c, t), p)
BY DEF Fits, Exact

LEMMA EmptyPrefix == ASSUME NEW T, NEW s \in Seq(T) PROVE IsPrefix(<<>>, s)
<1>1. Len(<<>>) = 0 /\ <<>> \in Seq(T)
  OBVIOUS
<1>2. SubSeq(<<>>, 1, 0) = SubSeq(s, 1, 0)
  OBVIOUS
<1> QED BY <1>1, <1>2 DEF IsPrefix

\* A folder's rule fits what lies in it.
LEMMA FitsBelow ==
    ASSUME NEW c, NEW t, NEW T, NEW p \in Seq(T), NEW path, Len(path) \in Nat, Len(path) >= Len(p) + 1,
           \A i \in 1..Len(p) : path[i] = p[i], NEW S, path[Len(p) + 1] \in Seq(S)
    PROVE  Fits(Glob(Append(p, <<>>), c, t), path)
<1> DEFINE q == Append(p, <<>>)
           n == Len(p) + 1
<1>1. p \in Seq(T \union {<<>>})
  OBVIOUS
<1>2. Len(q) = n /\ q[n] = <<>> /\ \A i \in 1..Len(p) : q[i] = p[i]
  BY <1>1, AppendProperties
<1>3. IsPrefix(<<>>, path[n])
  BY EmptyPrefix
<1>4. \A i \in 1..n : i \in 1..Len(p) \/ i = n
  OBVIOUS
<1> HIDE DEF q
<1>5. n = Len(q) /\ Len(path) >= Len(q)
  BY <1>2
<1> HIDE DEF n
<1>6. Fits(Glob(q, c, t), path)
  BY <1>2, <1>3, <1>4, <1>5 DEF Fits, Glob
<1> QED BY <1>6 DEF q

LEMMA Concat41 == ASSUME NEW a, NEW b, NEW c, NEW d, NEW e PROVE <<a, b, c, d>> \o <<e>> = <<a, b, c, d, e>>
<1> DEFINE S == {a, b, c, d, e}
<1>1. <<a, b, c, d>> \in Seq(S) /\ <<e>> \in Seq(S) /\ <<a, b, c, d, e>> \in Seq(S)
  OBVIOUS
<1>2. <<a, b, c, d>> \o <<e>> \in Seq(S) /\ Len(<<a, b, c, d>> \o <<e>>) = 5 /\ Len(<<a, b, c, d, e>>) = 5
  BY <1>1, ConcatProperties
<1>3. \A i \in 1..5 : (<<a, b, c, d>> \o <<e>>)[i] = <<a, b, c, d, e>>[i]
  OBVIOUS
<1> HIDE DEF S
<1> QED BY <1>1, <1>2, <1>3, SeqEqual

LEMMA Append3 == ASSUME NEW a, NEW b, NEW c, NEW d PROVE Append(<<a, b, c>>, d) = <<a, b, c, d>>
<1> DEFINE S == {a, b, c, d}
           p == <<a, b, c>>
           q == Append(p, d)
           s == <<a, b, c, d>>
<1>1. p \in Seq(S) /\ Len(p) = 3 /\ p[1] = a /\ p[2] = b /\ p[3] = c
  OBVIOUS
<1>2. s \in Seq(S) /\ Len(s) = 4 /\ s[1] = a /\ s[2] = b /\ s[3] = c /\ s[4] = d
  OBVIOUS
<1>3. d \in S
  OBVIOUS
<1> HIDE DEF S, p, s
<1>8. p \in Seq(S)
  BY <1>1
<1>4. /\ Append(p, d) \in Seq(S) /\ Len(Append(p, d)) = Len(p) + 1 /\ Append(p, d)[Len(p) + 1] = d
      /\ \A i \in 1..Len(p) : Append(p, d)[i] = p[i]
  BY <1>3, <1>8, AppendProperties
<1> HIDE DEF q
<1>7. Len(q) = 4 /\ q[1] = a /\ q[2] = b /\ q[3] = c /\ q[4] = d
  BY <1>1, <1>4 DEF q
<1>5. \A i \in 1..4 : i = 1 \/ i = 2 \/ i = 3 \/ i = 4
  OBVIOUS
<1>6. q = s
  BY <1>2, <1>4, <1>5, <1>7, SeqEqual DEF q
<1> QED BY <1>6 DEF p, q, s

\* The paths of a tenant's role and of its entity.
LEMMA RolePathIs ==
    ASSUME NEW k, NEW n
    PROVE  /\ RolePath(k) = <<<<"auth">>, <<TenantMount(k)>>, <<"role">>>>
           /\ Append(RolePath(k), n) = <<<<"auth">>, <<TenantMount(k)>>, <<"role">>, n>>
           /\ \A s : RolePath(k) \o <<n, s>> = <<<<"auth">>, <<TenantMount(k)>>, <<"role">>, n, s>>
<1>1. RolePath(k) = <<<<"auth">>, <<TenantMount(k)>>, <<"role">>>>
  BY Words3 DEF RolePath
<1>2. \A a, b, c : Append(<<a, b, c>>, n) = <<a, b, c, n>>
  BY Append3
<1>3. \A a, b, c, s : <<a, b, c>> \o <<n, s>> = <<a, b, c, n, s>>
  BY Concat32
<1> QED BY <1>1, <1>2, <1>3

LEMMA EntityPathIs ==
    ASSUME NEW k, NEW e, NEW i
    PROVE  EntityPath(k, e, i) = <<<<"identity">>, <<"entity">>, <<"name">>, <<TenantMount(k)>>, TenantRole(e, i)>>
<1>1. \A a, b, c, d, n : Words(<<a, b, c, d>>) \o <<n>> = <<<<a>>, <<b>>, <<c>>, <<d>>, n>>
  <2> TAKE a, b, c, d, n
  <2>1. Words(<<a, b, c, d>>) = <<<<a>>, <<b>>, <<c>>, <<d>>>>
    BY Words4
  <2>2. <<<<a>>, <<b>>, <<c>>, <<d>>>> \o <<n>> = <<<<a>>, <<b>>, <<c>>, <<d>>, n>>
    BY Concat41
  <2> QED BY <2>1, <2>2
<1> QED BY <1>1 DEF EntityPath

LEMMA RoleSeq ==
    ASSUME NEW e \in Envs \union {Unknown}, NEW i \in Ids PROVE TenantRole(e, i) \in Seq(STRING \union {"."})
<1> DEFINE S == STRING \union {"."}
<1>1. e \in Seq(STRING) /\ i \in Seq(STRING)
  BY NameSeq
<1>2. e \in Seq(S) /\ i \in Seq(S)
  BY <1>1
<1>3. <<".">> \in Seq(S)
  OBVIOUS
<1> HIDE DEF S
<1>4. e \o <<".">> \o i \in Seq(S)
  BY <1>2, <1>3
<1>5. TenantRole(e, i) \in Seq(S)
  BY <1>2, <1>4 DEF TenantRole
<1> QED BY <1>5 DEF S

LEMMA DenyFits ==
    ASSUME NEW a, a # "+", NEW path, Fits(DenyBelow(<<<<a>>>>), path)
    PROVE  path[1] = <<a>>
<1>1. \A x : x # Plus /\ Fits(Glob(Append(<<x>>, <<>>), {"deny"}, Params), path) => path[1] = x
  BY DEF Fits, Glob
<1>2. <<a>> # Plus
  BY DEF Plus
<1> QED BY <1>1, <1>2 DEF DenyBelow, Below

\* A rule that ends with the beginning of its last segment.
LEMMA PartFits ==
    ASSUME NEW T, NEW p \in Seq(T), Len(p) >= 1, \A i \in 1..Len(p) : p[i] # Plus, NEW c, NEW t, NEW path,
           Fits(Glob(p, c, t), path)
    PROVE  /\ \A i \in 1..Len(p) : i # Len(p) => path[i] = p[i]
           /\ path[Len(p)] = p[Len(p)] \/ IsPrefix(p[Len(p)], path[Len(p)])
<1>1. Glob(p, c, t).path = p
  BY DEF Glob
<1>2. Len(p) \in Nat /\ Len(p) \in 1..Len(p)
  OBVIOUS
<1> QED BY <1>1, <1>2 DEF Fits

LEMMA NoPart ==
    ASSUME NEW a, NEW b, a # b
    PROVE  <<a>> # <<b>> /\ ~IsPrefix(<<a>>, <<b>>)
<1>1. <<a>> # <<b>>
  OBVIOUS
<1>2. ~IsPrefix(<<a>>, <<b>>)
  <2> SUFFICES ASSUME IsPrefix(<<a>>, <<b>>) PROVE FALSE
    OBVIOUS
  <2> DEFINE s == <<a>>
             u == <<b>>
             U == {a, b}
  <2>1. s \in Seq(U) /\ u \in Seq(U) /\ Len(s) = 1 /\ s[1] = a /\ u[1] = b
    OBVIOUS
  <2>2. IsPrefix(s, u)
    OBVIOUS
  <2> HIDE DEF s, u, U
  <2>3. \A j \in 1..Len(s) : s[j] = u[j]
    BY <2>1, <2>2, PrefixElements
  <2> QED BY <2>1, <2>3
<1> QED BY <1>1, <1>2

LEMMA CreateFits ==
    ASSUME NEW path, Fits(DenyTokenCreate, path)
    PROVE  path[1] = <<"auth">> /\ path[2] = <<"token">> /\ path[3] # <<"lookup-self">>
<1>1. ASSUME NEW a, NEW b, NEW c, a # "+", b # "+", c # "+", NEW caps, NEW takes,
             Fits(Glob(Words(<<a, b, c>>), caps, takes), path)
      PROVE  path[1] = <<a>> /\ path[2] = <<b>> /\ (path[3] = <<c>> \/ IsPrefix(<<c>>, path[3]))
  <2> DEFINE p == Words(<<a, b, c>>)
             U == {<<a>>, <<b>>, <<c>>}
  <2>1. <<a>> # Plus /\ <<b>> # Plus /\ <<c>> # Plus
    BY <1>1 DEF Plus
  <2>6. p = <<<<a>>, <<b>>, <<c>>>>
    BY Words3
  <2> HIDE DEF p
  <2>2. p \in Seq(U) /\ Len(p) = 3 /\ p[1] = <<a>> /\ p[2] = <<b>> /\ p[3] = <<c>>
    BY <2>6
  <2> HIDE DEF U
  <2>3. \A i \in 1..Len(p) : p[i] # Plus
    <3>1. \A i \in 1..3 : i = 1 \/ i = 2 \/ i = 3
      OBVIOUS
    <3> QED BY <2>1, <2>2, <3>1
  <2>4. Fits(Glob(p, caps, takes), path)
    BY <1>1 DEF p
  <2>5. /\ \A i \in 1..Len(p) : i # Len(p) => path[i] = p[i]
        /\ path[Len(p)] = p[Len(p)] \/ IsPrefix(p[Len(p)], path[Len(p)])
    BY <2>2, <2>3, <2>4, PartFits
  <2> QED BY <2>2, <2>5
<1>2. path[1] = <<"auth">> /\ path[2] = <<"token">> /\ (path[3] = <<"create">> \/ IsPrefix(<<"create">>, path[3]))
  BY <1>1 DEF DenyTokenCreate
<1>3. "create" # "lookup-self"
  OBVIOUS
<1>4. path[3] # <<"lookup-self">>
  <2> SUFFICES ASSUME path[3] = <<"lookup-self">> PROVE FALSE
    OBVIOUS
  <2>1. ~IsPrefix(<<"create">>, <<"lookup-self">>) /\ <<"create">> # <<"lookup-self">>
    BY <1>3, NoPart
  <2> QED BY <1>2, <2>1
<1> QED BY <1>2, <1>4

\* The parts of the provisioning policy, and what they fit.
LEMMA ProvisioningAt ==
    ASSUME NEW r \in Provisioning \union Default, NEW path, Len(path) \in Nat, Fits(r, path)
    PROVE  \/ \E k \in Kinds : r \in TenantRoles(k)
           \/ r \in Default
           \/ path[1] = <<"auth">> /\ path[2] = <<"token">> /\ path[3] # <<"lookup-self">>
           \/ path[1] = <<"sys">> /\ (r = Grant(Words(<<"sys", "auth">>), {"read"}) \/ path[2] # <<"auth">> \/ Len(path) # 2)
           \/ path[1] = <<"kv">>
           \/ shared /\ r \in Entities
           \/ ~shared /\ path[1] = <<"identity">>
<1>1. CASE r \in TenantRoles("reader") \union TenantRoles("writer") \union Self \union Default
  BY <1>1 DEF Kinds, Default
<1>2. CASE r = DenyTokenCreate
  BY <1>2, CreateFits
<1>3. CASE r = DenyBelow(<<<<"kv">>>>)
  BY <1>3, DenyFits
<1>4. CASE r = DenyBelow(<<<<"identity">>>>) /\ ~shared
  BY <1>4, DenyFits
<1>5. ASSUME NEW s, s # "+", r = DenyBelow(Words(<<"sys", s>>)) PROVE path[1] = <<"sys">> /\ Len(path) # 2
  <2>1. Len(path) >= 3 /\ path[1] = <<"sys">>
    BY <1>5, Below2 DEF DenyBelow, Below
  <2>2. Len(path) >= 3
    BY <2>1
  <2>4. \A n \in Nat : n >= 3 => n # 2
    OBVIOUS
  <2>3. Len(path) # 2
    BY <2>2, <2>4
  <2> QED BY <2>1, <2>3
<1>6. ASSUME NEW s, s # "+", NEW c, r = Grant(Words(<<"sys", s>>), c) PROVE path[1] = <<"sys">> /\ path[2] = <<s>>
  BY <1>6, FitsWords DEF Grant
<1>7. CASE \E s \in {"policies", "policy", "audit", "audit-hash", "mounts", "auth"} : r = DenyBelow(Words(<<"sys", s>>))
  BY <1>5, <1>7
<1>8. CASE r = Grant(Words(<<"sys", "mounts">>), {"read"})
  BY <1>6, <1>8
<1>9. CASE r = Deny(Words(<<"sys", "audit">>))
  BY <1>6, <1>9 DEF Deny
<1>10. CASE r = Grant(Words(<<"sys", "auth">>), {"read"})
  BY <1>6, <1>10
<1> QED BY <1>1, <1>2, <1>3, <1>4, <1>7, <1>8, <1>9, <1>10 DEF Provisioning

\* The rules on the roles of one mount, one by one.
LEMMA RoleRule ==
    ASSUME NEW k \in Kinds, NEW r \in TenantRoles(k), NEW path, Fits(r, path)
    PROVE  \/ r = Grant(RolePath(k), {"list"}) /\ Len(path) = 3
           \/ r = Glob(Append(RolePath(k), <<>>), Managed \union {"list"}, {TenantPolicy(k), "limits"}) /\ Len(path) >= 4
           \/ r = Grant(RolePath(k) \o <<Plus, <<"role-id">>>>, {"read"}) /\ Len(path) = 5 /\ path[5] = <<"role-id">>
           \/ r = Grant(RolePath(k) \o <<Plus, <<"secret-id">>>>, {"update"}) /\ Len(path) = 5 /\ path[5] = <<"secret-id">>
<1>0. TenantMount(k) # "+"
  BY Mounts
<1>1. CASE r = Grant(RolePath(k), {"list"})
  <2>1. Len(path) = 3
    BY <1>0, <1>1, FitsWords DEF Grant, RolePath
  <2> QED BY <1>1, <2>1
<1>2. CASE r = Glob(Append(RolePath(k), <<>>), Managed \union {"list"}, {TenantPolicy(k), "limits"})
  <2>1. Len(path) >= 4
    BY <1>0, <1>2, Below3 DEF RolePath
  <2> QED BY <1>2, <2>1
<1>3. ASSUME NEW s, s # "+", NEW c, r = Grant(RolePath(k) \o <<Plus, <<s>>>>, c)
      PROVE  Len(path) = 5 /\ path[5] = <<s>>
  <2>1. Fits(Exact(Words(<<"auth", TenantMount(k), "role">>) \o <<Plus, <<s>>>>, c, Params), path)
    BY <1>3 DEF Grant, RolePath
  <2> QED BY <1>0, <1>3, <2>1, Plus5
<1>4. CASE r = Grant(RolePath(k) \o <<Plus, <<"role-id">>>>, {"read"})
  BY <1>3, <1>4
<1>5. CASE r = Grant(RolePath(k) \o <<Plus, <<"secret-id">>>>, {"update"})
  BY <1>3, <1>5
<1> QED BY <1>1, <1>2, <1>4, <1>5 DEF TenantRoles

\* The rules on entities, one by one.
LEMMA EntitiesAt ==
    ASSUME NEW r \in Entities, NEW path, Fits(r, path)
    PROVE  /\ path[1] = <<"identity">>
           /\ \/ Len(path) = 2 /\ path[2] = <<"entity">>
              \/ /\ r = Glob(Append(Words(<<"identity", "entity", "name">>), <<>>), {"read", "update", "delete"},
                             Params \ {"policies", "disabled"})
                 /\ Len(path) >= 4 /\ path[2] = <<"entity">>
              \/ /\ r = Grant(Words(<<"identity", "entity-alias">>), {"create", "update"})
                 /\ Len(path) = 2 /\ path[2] = <<"entity-alias">>
              \/ /\ r = Below(Words(<<"identity", "entity-alias", "id">>), {"read", "delete"})
                 /\ Len(path) >= 4 /\ path[2] = <<"entity-alias">>
              \/ /\ r = Grant(Words(<<"identity", "lookup", "entity">>), {"update"})
                 /\ Len(path) = 3 /\ path[2] = <<"lookup">>
              \/ Len(path) = 3 /\ path[2] = <<"entity">>
              \/ \E s \in {"group", "oidc", "mfa"} : path[2] = <<s>> \/ IsPrefix(<<s>>, path[2])
<1>1. CASE r = Exact(Words(<<"identity", "entity">>), {"create", "update"}, Params \ {"policies", "disabled"})
  <2>1. Len(path) = 2 /\ path[1] = <<"identity">> /\ path[2] = <<"entity">>
    BY <1>1, FitsWords
  <2> QED BY <2>1
<1>2. CASE r = Glob(Append(Words(<<"identity", "entity", "name">>), <<>>),
                    {"read", "update", "delete"}, Params \ {"policies", "disabled"})
  <2>1. Len(path) >= 4 /\ path[1] = <<"identity">> /\ path[2] = <<"entity">>
    BY <1>2, Below3
  <2> QED BY <1>2, <2>1
<1>3. CASE r = Grant(Words(<<"identity", "entity-alias">>), {"create", "update"})
  <2>1. Len(path) = 2 /\ path[1] = <<"identity">> /\ path[2] = <<"entity-alias">>
    BY <1>3, FitsWords DEF Grant
  <2> QED BY <1>3, <2>1
<1>4. CASE r = Below(Words(<<"identity", "entity-alias", "id">>), {"read", "delete"})
  <2>1. Len(path) >= 4 /\ path[1] = <<"identity">> /\ path[2] = <<"entity-alias">>
    BY <1>4, Below3 DEF Below
  <2> QED BY <1>4, <2>1
<1>5. CASE r = Grant(Words(<<"identity", "lookup", "entity">>), {"update"})
  <2>1. Len(path) = 3 /\ path[1] = <<"identity">> /\ path[2] = <<"lookup">>
    BY <1>5, FitsWords DEF Grant
  <2> QED BY <1>5, <2>1
<1>6. CASE r = Deny(Words(<<"identity", "entity", "merge">>))
  <2>1. Len(path) = 3 /\ path[1] = <<"identity">> /\ path[2] = <<"entity">>
    BY <1>6, FitsWords DEF Grant, Deny
  <2> QED BY <2>1
<1>7. CASE r = Glob(Words(<<"identity", "group">>), {"deny"}, Params)
  <2>1. ASSUME NEW a, NEW b, a # "+", b # "+", NEW c, NEW t, Fits(Glob(Words(<<a, b>>), c, t), path)
        PROVE  path[1] = <<a>> /\ (path[2] = <<b>> \/ IsPrefix(<<b>>, path[2]))
    <3> DEFINE p == Words(<<a, b>>)
               U == {<<a>>, <<b>>}
    <3>1. <<a>> # Plus /\ <<b>> # Plus
      BY <2>1 DEF Plus
    <3>6. p = <<<<a>>, <<b>>>>
      BY Words2
    <3> HIDE DEF p
    <3>2. p \in Seq(U) /\ Len(p) = 2 /\ p[1] = <<a>> /\ p[2] = <<b>>
      BY <3>6
    <3> HIDE DEF U
    <3>3. \A i \in 1..Len(p) : p[i] # Plus
      <4>1. \A i \in 1..2 : i = 1 \/ i = 2
        OBVIOUS
      <4> QED BY <3>1, <3>2, <4>1
    <3>4. Fits(Glob(p, c, t), path)
      BY <2>1 DEF p
    <3>5. /\ \A i \in 1..Len(p) : i # Len(p) => path[i] = p[i]
          /\ path[Len(p)] = p[Len(p)] \/ IsPrefix(p[Len(p)], path[Len(p)])
      BY <3>2, <3>3, <3>4, PartFits
    <3> QED BY <3>2, <3>5
  <2>2. path[1] = <<"identity">> /\ (path[2] = <<"group">> \/ IsPrefix(<<"group">>, path[2]))
    BY <1>7, <2>1
  <2> QED BY <2>2
<1>8. CASE r = DenyBelow(Words(<<"identity", "oidc">>))
  <2>1. path[1] = <<"identity">> /\ path[2] = <<"oidc">>
    BY <1>8, Below2 DEF DenyBelow, Below
  <2> QED BY <2>1
<1>9. CASE r = DenyBelow(Words(<<"identity", "mfa">>))
  <2>1. path[1] = <<"identity">> /\ path[2] = <<"mfa">>
    BY <1>9, Below2 DEF DenyBelow, Below
  <2> QED BY <2>1
<1> QED BY <1>1, <1>2, <1>3, <1>4, <1>5, <1>6, <1>7, <1>8, <1>9 DEF Entities

\* On the roles of a mount only the rules on that mount decide.
LEMMA AtRoles ==
    ASSUME NEW k \in Kinds, NEW r \in Provisioning \union Default, NEW path, Len(path) \in Nat, Fits(r, path),
           path[1] = <<"auth">>, path[2] = <<TenantMount(k)>>
    PROVE  r \in TenantRoles(k)
<1>1. TenantMount(k) # "token"
  BY DEF TenantMount
<1>2. <<TenantMount(k)>> # <<"token">>
  BY <1>1
<1>3. <<"auth">> \notin {<<"sys">>, <<"kv">>, <<"identity">>}
  OBVIOUS
<1>4. r \notin Default
  BY <1>2, SelfReach
<1>5. r \notin Entities
  BY EntitiesAt, <1>3
<1>6. PICK m \in Kinds : r \in TenantRoles(m)
  BY <1>2, <1>3, <1>4, <1>5, ProvisioningAt
<1>7. path[2] = <<TenantMount(m)>>
  BY <1>6, RoleReach
<1>8. TenantMount(m) = TenantMount(k)
  BY <1>7
<1> QED BY <1>6, <1>8, Mounts

-----------------------------------------------------------------------------
(* The provisioning token's calls.                                         *)

\* What is below the policy of a tenant role, and of no other rule.
LEMMA RoleGranted ==
    ASSUME NEW k \in Kinds, NEW e \in TenantEnvs, NEW i \in Ids, NEW c \in Managed,
           NEW ps, ps \subseteq {TenantPolicy(k), "limits"}
    PROVE  Granted(Provisioning \union Default, Call(Append(RolePath(k), TenantRole(e, i)), c, ps))
<1> DEFINE rules == Provisioning \union Default
           path == Append(RolePath(k), TenantRole(e, i))
           q == Call(path, c, ps)
           p == RolePath(k)
           r == Glob(Append(RolePath(k), <<>>), Managed \union {"list"}, {TenantPolicy(k), "limits"})
<1>2. path = <<<<"auth">>, <<TenantMount(k)>>, <<"role">>, TenantRole(e, i)>>
  BY RolePathIs
<1>3. p = <<<<"auth">>, <<TenantMount(k)>>, <<"role">>>>
  BY RolePathIs
<1>4. r \in rules
  <2>1. r \in TenantRoles(k)
    BY DEF TenantRoles
  <2> HIDE DEF r
  <2>2. r \in TenantRoles("reader") \/ r \in TenantRoles("writer")
    BY <2>1 DEF Kinds
  <2> QED BY <2>2 DEF Provisioning
<1>5. r = Glob(Append(p, <<>>), Managed \union {"list"}, {TenantPolicy(k), "limits"})
  OBVIOUS
<1>6. r.caps = Managed \union {"list"} /\ r.takes = {TenantPolicy(k), "limits"}
  BY <1>5, ExactFields
<1> HIDE DEF rules, path, p, r
<1>1. q.path = path /\ q.cap = c /\ q.params = ps
  BY CallIs
<1> HIDE DEF q
<1>7. Len(path) = 4 /\ path[1] = <<"auth">> /\ path[2] = <<TenantMount(k)>> /\ path[3] = <<"role">> /\ path[4] = TenantRole(e, i)
  BY <1>2
<1>8. p \in Seq({<<"auth">>, <<TenantMount(k)>>, <<"role">>}) /\ Len(p) = 3
      /\ p[1] = <<"auth">> /\ p[2] = <<TenantMount(k)>> /\ p[3] = <<"role">>
  BY <1>3
<1>9. Fits(r, path)
  <2>1. path[4] \in Seq(STRING \union {"."})
    BY <1>7, RoleSeq DEF TenantEnvs
  <2>2. Len(path) \in Nat /\ Len(path) >= Len(p) + 1 /\ Len(p) + 1 = 4
    BY <1>7, <1>8
  <2>3. \A j \in 1..Len(p) : path[j] = p[j]
    <3>1. \A j \in 1..3 : j = 1 \/ j = 2 \/ j = 3
      OBVIOUS
    <3> QED BY <1>7, <1>8, <3>1
  <2> QED BY <1>5, <1>8, <2>1, <2>2, <2>3, FitsBelow
<1>10. ASSUME NEW s \in rules, Fits(s, path) PROVE s = r
  <2>1. s \in TenantRoles(k)
    BY <1>7, <1>10, AtRoles DEF rules
  <2>2. Len(path) # 3 /\ Len(path) # 5
    BY <1>7
  <2> QED BY <1>10, <2>1, <2>2, RoleRule DEF r
<1>11. c \in r.caps /\ ps \subseteq r.takes /\ "deny" \notin r.caps
  BY <1>6 DEF Managed
<1>12. Granted(rules, q)
  BY <1>1, <1>4, <1>9, <1>10, <1>11, OnlyFit
<1> QED BY <1>12 DEF rules, q, path

\* The roles of a mount are listed.
LEMMA ListGranted ==
    ASSUME NEW k \in Kinds
    PROVE  Granted(Provisioning \union Default, Call(RolePath(k), "list", {}))
<1> DEFINE rules == Provisioning \union Default
           path == RolePath(k)
           q == Call(path, "list", {})
           r == Grant(RolePath(k), {"list"})
<1>1. q.path = path /\ q.cap = "list" /\ q.params = {}
  BY CallIs
<1>2. path = <<<<"auth">>, <<TenantMount(k)>>, <<"role">>>>
  BY RolePathIs
<1>3. r \in rules
  <2>1. r \in TenantRoles(k)
    BY DEF TenantRoles
  <2> HIDE DEF r
  <2>2. r \in TenantRoles("reader") \/ r \in TenantRoles("writer")
    BY <2>1 DEF Kinds
  <2> QED BY <2>2 DEF Provisioning
<1>4. r = Exact(path, {"list"}, Params)
  BY DEF Grant
<1>5. r.caps = {"list"} /\ r.takes = Params
  BY <1>4, ExactFields
<1> HIDE DEF rules, path, q, r
<1>6. path \in Seq({<<"auth">>, <<TenantMount(k)>>, <<"role">>}) /\ Len(path) = 3
      /\ path[1] = <<"auth">> /\ path[2] = <<TenantMount(k)>>
  BY <1>2
<1>7. Fits(r, path)
  BY <1>4, <1>6, FitsItself
<1>8. ASSUME NEW s \in rules, Fits(s, path) PROVE s = r
  <2>1. s \in TenantRoles(k)
    BY <1>6, <1>8, AtRoles DEF rules
  <2>2. Len(path) # 5 /\ ~(Len(path) >= 4)
    BY <1>6
  <2> QED BY <1>8, <2>1, <2>2, RoleRule DEF r
<1>9. Granted(rules, q)
  BY <1>1, <1>3, <1>5, <1>7, <1>8, OnlyFit
<1> QED BY <1>9 DEF rules, q, path

\* Where the first wildcard of these rules is.
LEMMA PlusAt ==
    ASSUME NEW a, NEW b, NEW d, NEW e, a # "+", b # "+", d # "+", e # "+", NEW c, NEW t
    PROVE  LET r == Exact(Words(<<a, b, d>>) \o <<Plus, <<e>>>>, c, t)
           IN Wildcard(r) = [segment |-> 4, atoms |-> 0] /\ ~r.glob
<1> DEFINE p == Words(<<a, b, d>>) \o <<Plus, <<e>>>>
           r == Exact(p, c, t)
           plus == {i \in 1..Len(p) : p[i] = Plus}
<1>1. p = <<<<a>>, <<b>>, <<d>>, Plus, <<e>>>>
  <2>1. Words(<<a, b, d>>) = <<<<a>>, <<b>>, <<d>>>>
    BY Words3
  <2>2. <<<<a>>, <<b>>, <<d>>>> \o <<Plus, <<e>>>> = <<<<a>>, <<b>>, <<d>>, Plus, <<e>>>>
    BY Concat32
  <2> QED BY <2>1, <2>2
<1>2. <<a>> # Plus /\ <<b>> # Plus /\ <<d>> # Plus /\ <<e>> # Plus
  BY DEF Plus
<1> HIDE DEF p
<1>3. Len(p) = 5 /\ p[1] = <<a>> /\ p[2] = <<b>> /\ p[3] = <<d>> /\ p[4] = Plus /\ p[5] = <<e>>
  BY <1>1
<1>4. plus = {4}
  <2>1. \A i \in 1..5 : i = 1 \/ i = 2 \/ i = 3 \/ i = 4 \/ i = 5
    OBVIOUS
  <2>2. \A i \in 1..5 : p[i] = Plus <=> i = 4
    BY <1>2, <1>3, <2>1
  <2> QED BY <1>3, <2>2
<1>5. r.path = p /\ r.glob = FALSE
  BY DEF Exact
<1>6. (CHOOSE i \in {4} : \A j \in {4} : i <= j) = 4
  OBVIOUS
<1> HIDE DEF plus
<1>7. Wildcard(r) = IF plus # {} THEN [segment |-> CHOOSE i \in plus : \A j \in plus : i <= j, atoms |-> 0]
                    ELSE IF r.glob THEN [segment |-> Len(p), atoms |-> Len(p[Len(p)])]
                    ELSE [segment |-> Len(p) + 1, atoms |-> 0]
  BY <1>5 DEF Wildcard, plus
<1>8. Wildcard(r) = [segment |-> 4, atoms |-> 0]
  BY <1>4, <1>6, <1>7
<1> QED BY <1>5, <1>8 DEF p

LEMMA BelowAt ==
    ASSUME NEW a, NEW b, NEW d, a # "+", b # "+", d # "+", NEW c, NEW t
    PROVE  LET r == Glob(Append(Words(<<a, b, d>>), <<>>), c, t)
           IN Wildcard(r) = [segment |-> 4, atoms |-> 0] /\ r.glob
<1> DEFINE p == Append(Words(<<a, b, d>>), <<>>)
           r == Glob(p, c, t)
           plus == {i \in 1..Len(p) : p[i] = Plus}
<1>1. p = <<<<a>>, <<b>>, <<d>>, <<>>>>
  BY Words3, Append3
<1>2. <<a>> # Plus /\ <<b>> # Plus /\ <<d>> # Plus /\ <<>> # Plus
  BY DEF Plus
<1> HIDE DEF p
<1>3. Len(p) = 4 /\ p[1] = <<a>> /\ p[2] = <<b>> /\ p[3] = <<d>> /\ p[4] = <<>>
  BY <1>1
<1>4. plus = {}
  <2>1. \A i \in 1..4 : i = 1 \/ i = 2 \/ i = 3 \/ i = 4
    OBVIOUS
  <2>2. \A i \in 1..4 : p[i] # Plus
    BY <1>2, <1>3, <2>1
  <2> QED BY <1>3, <2>2
<1>5. r.path = p /\ r.glob = TRUE
  BY DEF Glob
<1>6. Len(p[Len(p)]) = 0
  <2>1. p[Len(p)] = <<>>
    BY <1>3
  <2> QED BY <2>1
<1> HIDE DEF plus
<1>7. Wildcard(r) = IF plus # {} THEN [segment |-> CHOOSE i \in plus : \A j \in plus : i <= j, atoms |-> 0]
                    ELSE IF r.glob THEN [segment |-> Len(p), atoms |-> Len(p[Len(p)])]
                    ELSE [segment |-> Len(p) + 1, atoms |-> 0]
  BY <1>5 DEF Wildcard, plus
<1>8. Wildcard(r) = [segment |-> 4, atoms |-> 0]
  BY <1>3, <1>4, <1>5, <1>6, <1>7
<1> QED BY <1>5, <1>8 DEF p

\* Of two rules that fit the better decides.
LEMMA BetterFit ==
    ASSUME NEW rules, NEW q, NEW r \in rules, NEW b \in rules, Fits(r, q.path), q.cap \in r.caps,
           q.params \subseteq r.takes, "deny" \notin r.caps, \A s \in rules : Fits(s, q.path) => s = r \/ s = b,
           Wildcard(r) = [segment |-> 4, atoms |-> 0], Wildcard(b) = [segment |-> 4, atoms |-> 0], ~r.glob, b.glob
    PROVE  Granted(rules, q)
<1>1. NoBetter(r, r) /\ NoBetter(b, r) /\ ~NoBetter(r, b)
  BY DEF NoBetter
<1> QED BY <1>1 DEF Granted

LEMMA FitsPlus ==
    ASSUME NEW a, NEW b, NEW d, NEW e, NEW c, NEW t, NEW path, Len(path) = 5,
           path[1] = <<a>>, path[2] = <<b>>, path[3] = <<d>>, path[5] = <<e>>
    PROVE  Fits(Exact(Words(<<a, b, d>>) \o <<Plus, <<e>>>>, c, t), path)
<1> DEFINE p == Words(<<a, b, d>>) \o <<Plus, <<e>>>>
           r == Exact(p, c, t)
<1>1. p = <<<<a>>, <<b>>, <<d>>, Plus, <<e>>>>
  <2>1. Words(<<a, b, d>>) = <<<<a>>, <<b>>, <<d>>>>
    BY Words3
  <2>2. <<<<a>>, <<b>>, <<d>>>> \o <<Plus, <<e>>>> = <<<<a>>, <<b>>, <<d>>, Plus, <<e>>>>
    BY Concat32
  <2> QED BY <2>1, <2>2
<1> HIDE DEF p
<1>2. Len(p) = 5 /\ p[1] = <<a>> /\ p[2] = <<b>> /\ p[3] = <<d>> /\ p[4] = Plus /\ p[5] = <<e>>
  BY <1>1
<1>3. \A i \in 1..5 : p[i] = Plus \/ p[i] = path[i]
  <2>1. \A i \in 1..5 : i = 1 \/ i = 2 \/ i = 3 \/ i = 4 \/ i = 5
    OBVIOUS
  <2> QED BY <1>2, <2>1
<1>4. r.path = p /\ ~r.glob
  BY DEF Exact
<1> HIDE DEF r
<1>5. Len(r.path) = 5
  BY <1>2, <1>4
<1>6. Fits(r, path)
  BY <1>3, <1>4, <1>5 DEF Fits
<1> QED BY <1>6 DEF r, p

\* The rule on one part of every role is better than the folder's.
LEMMA PartGranted ==
    ASSUME NEW k \in Kinds, NEW n, NEW w, NEW c, (w = "role-id" /\ c = "read") \/ (w = "secret-id" /\ c = "update")
    PROVE  Granted(Provisioning \union Default, Call(RolePath(k) \o <<n, <<w>>>>, c, {}))
<1> DEFINE rules == Provisioning \union Default
           path == RolePath(k) \o <<n, <<w>>>>
           q == Call(path, c, {})
           r == Grant(RolePath(k) \o <<Plus, <<w>>>>, {c})
           b == Glob(Append(RolePath(k), <<>>), Managed \union {"list"}, {TenantPolicy(k), "limits"})
           m == TenantMount(k)
<1>1. m # "+" /\ w # "+"
  BY Mounts
<1>2. path = <<<<"auth">>, <<m>>, <<"role">>, n, <<w>>>>
  BY RolePathIs
<1>3. r = Exact(Words(<<"auth", m, "role">>) \o <<Plus, <<w>>>>, {c}, Params)
  BY DEF Grant, RolePath
<1>4. b = Glob(Append(Words(<<"auth", m, "role">>), <<>>), Managed \union {"list"}, {TenantPolicy(k), "limits"})
  BY DEF RolePath
<1>5. r \in TenantRoles(k) /\ b \in TenantRoles(k)
  <2>1. b \in TenantRoles(k)
    BY DEF TenantRoles
  <2>2. CASE w = "role-id" /\ c = "read"
    BY <2>2 DEF TenantRoles
  <2>3. CASE w = "secret-id" /\ c = "update"
    BY <2>3 DEF TenantRoles
  <2> QED BY <2>1, <2>2, <2>3
<1> HIDE DEF path, r, b, m
<1>6. r \in rules /\ b \in rules
  <2>1. \A s \in TenantRoles(k) : s \in TenantRoles("reader") \/ s \in TenantRoles("writer")
    BY DEF Kinds
  <2> QED BY <1>5, <2>1 DEF Provisioning
<1>7. q.path = path /\ q.cap = c /\ q.params = {}
  BY CallIs
<1> HIDE DEF rules, q
<1>8. Len(path) = 5 /\ path[1] = <<"auth">> /\ path[2] = <<m>> /\ path[3] = <<"role">> /\ path[5] = <<w>>
  BY <1>2
<1>9. Fits(r, path)
  BY <1>3, <1>8, FitsPlus
<1>10. r.caps = {c} /\ r.takes = Params
  BY <1>3, ExactFields
<1>11. Wildcard(r) = [segment |-> 4, atoms |-> 0] /\ ~r.glob
  BY <1>1, <1>3, PlusAt
<1>12. Wildcard(b) = [segment |-> 4, atoms |-> 0] /\ b.glob
  BY <1>1, <1>4, BelowAt
<1>13. ASSUME NEW s \in rules, Fits(s, path) PROVE s = r \/ s = b
  <2>1. s \in TenantRoles(k)
    BY <1>8, <1>13, AtRoles DEF rules, m
  <2>2. Len(path) # 3
    BY <1>8
  <2>3. CASE w = "role-id" /\ c = "read"
    <3>1. path[5] # <<"secret-id">>
      BY <1>8, <2>3
    <3>2. s = b \/ s = Grant(RolePath(k) \o <<Plus, <<"role-id">>>>, {"read"})
      BY <1>13, <2>1, <2>2, <3>1, RoleRule DEF b
    <3>3. s = b \/ s = Grant(RolePath(k) \o <<Plus, <<w>>>>, {c})
      BY <2>3, <3>2
    <3> QED BY <3>3 DEF r
  <2>4. CASE w = "secret-id" /\ c = "update"
    <3>1. path[5] # <<"role-id">>
      BY <1>8, <2>4
    <3>2. s = b \/ s = Grant(RolePath(k) \o <<Plus, <<"secret-id">>>>, {"update"})
      BY <1>13, <2>1, <2>2, <3>1, RoleRule DEF b
    <3>3. s = b \/ s = Grant(RolePath(k) \o <<Plus, <<w>>>>, {c})
      BY <2>4, <3>2
    <3> QED BY <3>3 DEF r
  <2> QED BY <2>3, <2>4
<1>14. Granted(rules, q)
  <2>1. c # "deny"
    OBVIOUS
  <2>2. q.cap \in r.caps /\ q.params \subseteq r.takes /\ "deny" \notin r.caps
    BY <1>7, <1>10, <2>1
  <2> QED BY <1>6, <1>7, <1>9, <1>11, <1>12, <1>13, <2>2, BetterFit
<1> QED BY <1>14 DEF rules, q, path

\* On the identities only the rules on them decide.
LEMMA AtIdentity ==
    ASSUME shared, NEW r \in Provisioning \union Default, NEW path, Len(path) \in Nat, Fits(r, path),
           path[1] = <<"identity">>
    PROVE  r \in Entities
<1>1. <<"identity">> \notin {<<"auth">>, <<"sys">>, <<"kv">>}
  OBVIOUS
<1>2. r \notin Default
  BY <1>1, SelfReach
<1>3. \A k \in Kinds : r \notin TenantRoles(k)
  BY <1>1, RoleReach
<1> QED BY <1>1, <1>2, <1>3, ProvisioningAt

LEMMA NoOther ==
    ASSUME NEW x \in {<<"entity">>, <<"entity-alias">>, <<"lookup">>}, NEW s \in {"group", "oidc", "mfa"}
    PROVE  x # <<s>> /\ ~IsPrefix(<<s>>, x)
<1>1. s # "entity" /\ s # "entity-alias" /\ s # "lookup"
  OBVIOUS
<1> QED BY <1>1, NoPart

LEMMA InEntities == ASSUME shared, NEW r \in Entities PROVE r \in Provisioning \union Default
BY DEF Provisioning

\* An entity is read, given its metadata and deleted by name.
LEMMA EntityGranted ==
    ASSUME shared, NEW k \in Kinds, NEW e \in TenantEnvs, NEW i \in Ids, NEW c \in {"read", "update", "delete"},
           NEW ps, ps \subseteq {"metadata"}
    PROVE  Granted(Provisioning \union Default, Call(EntityPath(k, e, i), c, ps))
<1> DEFINE rules == Provisioning \union Default
           path == EntityPath(k, e, i)
           q == Call(path, c, ps)
           p == Words(<<"identity", "entity", "name">>)
           takes == Params \ {"policies", "disabled"}
           r == Glob(Append(Words(<<"identity", "entity", "name">>), <<>>), {"read", "update", "delete"}, takes)
<1>2. path = <<<<"identity">>, <<"entity">>, <<"name">>, <<TenantMount(k)>>, TenantRole(e, i)>>
  BY EntityPathIs
<1>3. p = <<<<"identity">>, <<"entity">>, <<"name">>>>
  BY Words3
<1>4. r \in Entities
  BY DEF Entities
<1>5. r = Glob(Append(p, <<>>), {"read", "update", "delete"}, takes)
  OBVIOUS
<1>6. r.caps = {"read", "update", "delete"} /\ r.takes = takes
  BY <1>5, ExactFields
<1> HIDE DEF rules, path, p, r
<1>1. q.path = path /\ q.cap = c /\ q.params = ps
  BY CallIs
<1> HIDE DEF q
<1>7. Len(path) = 5 /\ path[1] = <<"identity">> /\ path[2] = <<"entity">> /\ path[3] = <<"name">> /\ path[4] = <<TenantMount(k)>>
  BY <1>2
<1>8. p \in Seq({<<"identity">>, <<"entity">>, <<"name">>}) /\ Len(p) = 3
      /\ p[1] = <<"identity">> /\ p[2] = <<"entity">> /\ p[3] = <<"name">>
  BY <1>3
<1>9. Fits(r, path)
  <2>1. path[4] \in Seq({TenantMount(k)})
    BY <1>7
  <2>2. Len(path) \in Nat /\ Len(path) >= Len(p) + 1 /\ Len(p) + 1 = 4
    BY <1>7, <1>8
  <2>3. \A j \in 1..Len(p) : path[j] = p[j]
    <3>1. \A j \in 1..3 : j = 1 \/ j = 2 \/ j = 3
      OBVIOUS
    <3> QED BY <1>7, <1>8, <3>1
  <2> HIDE DEF takes
  <2> QED BY <1>5, <1>8, <2>1, <2>2, <2>3, FitsBelow
<1>10. ASSUME NEW s \in rules, Fits(s, path) PROVE s = r
  <2>1. s \in Entities
    BY <1>7, <1>10, AtIdentity DEF rules
  <2>2. Len(path) # 2 /\ Len(path) # 3
    BY <1>7
  <2>3. path[2] = <<"entity">>
    BY <1>7
  <2>4. \A x \in {"group", "oidc", "mfa"} : path[2] # <<x>> /\ ~IsPrefix(<<x>>, path[2])
    BY <2>3, NoOther
  <2>5. path[2] # <<"entity-alias">> /\ path[2] # <<"lookup">>
    BY <2>3
  <2> QED BY <1>10, <2>1, <2>2, <2>4, <2>5, EntitiesAt DEF r
<1>11. c \in r.caps /\ ps \subseteq r.takes /\ "deny" \notin r.caps
  <2>1. ps \subseteq takes
    BY DEF Params
  <2> QED BY <1>6, <2>1
<1>12. r \in rules
  BY <1>4, InEntities DEF rules
<1>13. Granted(rules, q)
  BY <1>1, <1>9, <1>10, <1>11, <1>12, OnlyFit
<1> QED BY <1>13 DEF rules, q, path

\* An alias is deleted by its id.
LEMMA AliasGranted ==
    ASSUME shared
    PROVE  Granted(Provisioning \union Default, Call(Words(<<"identity", "entity-alias", "id", "alias">>), "delete", {}))
<1> DEFINE rules == Provisioning \union Default
           path == Words(<<"identity", "entity-alias", "id", "alias">>)
           q == Call(path, "delete", {})
           p == Words(<<"identity", "entity-alias", "id">>)
           r == Below(Words(<<"identity", "entity-alias", "id">>), {"read", "delete"})
<1>2. path = <<<<"identity">>, <<"entity-alias">>, <<"id">>, <<"alias">>>>
  BY Words4
<1>3. p = <<<<"identity">>, <<"entity-alias">>, <<"id">>>>
  BY Words3
<1>4. r \in Entities
  BY DEF Entities
<1>5. r = Glob(Append(p, <<>>), {"read", "delete"}, Params)
  BY DEF Below
<1>6. r.caps = {"read", "delete"} /\ r.takes = Params
  BY <1>5, ExactFields
<1> HIDE DEF rules, path, p, r
<1>1. q.path = path /\ q.cap = "delete" /\ q.params = {}
  BY CallIs
<1> HIDE DEF q
<1>7. Len(path) = 4 /\ path[1] = <<"identity">> /\ path[2] = <<"entity-alias">> /\ path[3] = <<"id">> /\ path[4] = <<"alias">>
  BY <1>2
<1>8. p \in Seq({<<"identity">>, <<"entity-alias">>, <<"id">>}) /\ Len(p) = 3
      /\ p[1] = <<"identity">> /\ p[2] = <<"entity-alias">> /\ p[3] = <<"id">>
  BY <1>3
<1>9. Fits(r, path)
  <2>1. path[4] \in Seq({"alias"})
    BY <1>7
  <2>2. Len(path) \in Nat /\ Len(path) >= Len(p) + 1 /\ Len(p) + 1 = 4
    BY <1>7, <1>8
  <2>3. \A j \in 1..Len(p) : path[j] = p[j]
    <3>1. \A j \in 1..3 : j = 1 \/ j = 2 \/ j = 3
      OBVIOUS
    <3> QED BY <1>7, <1>8, <3>1
  <2> QED BY <1>5, <1>8, <2>1, <2>2, <2>3, FitsBelow
<1>10. ASSUME NEW s \in rules, Fits(s, path) PROVE s = r
  <2>1. s \in Entities
    BY <1>7, <1>10, AtIdentity DEF rules
  <2>2. Len(path) # 2 /\ Len(path) # 3
    BY <1>7
  <2>3. path[2] = <<"entity-alias">>
    BY <1>7
  <2>4. \A x \in {"group", "oidc", "mfa"} : path[2] # <<x>> /\ ~IsPrefix(<<x>>, path[2])
    BY <2>3, NoOther
  <2>5. path[2] # <<"entity">> /\ path[2] # <<"lookup">>
    BY <2>3
  <2> QED BY <1>10, <2>1, <2>2, <2>4, <2>5, EntitiesAt DEF r
<1>11. r \in rules
  BY <1>4, InEntities DEF rules
<1>12. Granted(rules, q)
  BY <1>1, <1>6, <1>9, <1>10, <1>11, OnlyFit
<1> QED BY <1>12 DEF rules, q, path

\* An entity is looked up.
LEMMA LookupGranted ==
    ASSUME shared
    PROVE  Granted(Provisioning \union Default, Call(Words(<<"identity", "lookup", "entity">>), "update", {}))
<1> DEFINE rules == Provisioning \union Default
           path == Words(<<"identity", "lookup", "entity">>)
           q == Call(path, "update", {})
           r == Grant(Words(<<"identity", "lookup", "entity">>), {"update"})
<1>2. path = <<<<"identity">>, <<"lookup">>, <<"entity">>>>
  BY Words3
<1>4. r \in Entities
  BY DEF Entities
<1>5. r = Exact(path, {"update"}, Params)
  BY DEF Grant
<1>6. r.caps = {"update"} /\ r.takes = Params
  BY <1>5, ExactFields
<1> HIDE DEF rules, path, r
<1>1. q.path = path /\ q.cap = "update" /\ q.params = {}
  BY CallIs
<1> HIDE DEF q
<1>7. path \in Seq({<<"identity">>, <<"lookup">>, <<"entity">>}) /\ Len(path) = 3 /\ path[1] = <<"identity">> /\ path[2] = <<"lookup">>
  BY <1>2
<1>8. Fits(r, path)
  BY <1>5, <1>7, FitsItself
<1>9. ASSUME NEW s \in rules, Fits(s, path) PROVE s = r
  <2>1. s \in Entities
    BY <1>7, <1>9, AtIdentity DEF rules
  <2>2. Len(path) # 2 /\ ~(Len(path) >= 4)
    BY <1>7
  <2>3. path[2] = <<"lookup">>
    BY <1>7
  <2>4. \A x \in {"group", "oidc", "mfa"} : path[2] # <<x>> /\ ~IsPrefix(<<x>>, path[2])
    BY <2>3, NoOther
  <2>5. path[2] # <<"entity">> /\ path[2] # <<"entity-alias">>
    BY <2>3
  <2> QED BY <1>9, <2>1, <2>2, <2>4, <2>5, EntitiesAt DEF r
<1>10. r \in rules
  BY <1>4, InEntities DEF rules
<1>11. Granted(rules, q)
  BY <1>1, <1>6, <1>8, <1>9, <1>10, OnlyFit
<1> QED BY <1>11 DEF rules, q, path

\* An alias is made.
LEMMA LinkGranted ==
    ASSUME shared
    PROVE  Granted(Provisioning \union Default, Call(Words(<<"identity", "entity-alias">>), "update", {}))
<1> DEFINE rules == Provisioning \union Default
           path == Words(<<"identity", "entity-alias">>)
           q == Call(path, "update", {})
           r == Grant(Words(<<"identity", "entity-alias">>), {"create", "update"})
<1>2. path = <<<<"identity">>, <<"entity-alias">>>>
  BY Words2
<1>4. r \in Entities
  BY DEF Entities
<1>5. r = Exact(path, {"create", "update"}, Params)
  BY DEF Grant
<1>6. r.caps = {"create", "update"} /\ r.takes = Params
  BY <1>5, ExactFields
<1> HIDE DEF rules, path, r
<1>1. q.path = path /\ q.cap = "update" /\ q.params = {}
  BY CallIs
<1> HIDE DEF q
<1>7. path \in Seq({<<"identity">>, <<"entity-alias">>}) /\ Len(path) = 2 /\ path[1] = <<"identity">> /\ path[2] = <<"entity-alias">>
  BY <1>2
<1>8. Fits(r, path)
  BY <1>5, <1>7, FitsItself
<1>9. ASSUME NEW s \in rules, Fits(s, path) PROVE s = r
  <2>1. s \in Entities
    BY <1>7, <1>9, AtIdentity DEF rules
  <2>2. Len(path) # 3 /\ ~(Len(path) >= 4)
    BY <1>7
  <2>3. path[2] = <<"entity-alias">>
    BY <1>7
  <2>4. \A x \in {"group", "oidc", "mfa"} : path[2] # <<x>> /\ ~IsPrefix(<<x>>, path[2])
    BY <2>3, NoOther
  <2>5. path[2] # <<"entity">> /\ path[2] # <<"lookup">>
    BY <2>3
  <2> QED BY <1>9, <2>1, <2>2, <2>4, <2>5, EntitiesAt DEF r
<1>10. r \in rules
  BY <1>4, InEntities DEF rules
<1>11. Granted(rules, q)
  BY <1>1, <1>6, <1>8, <1>9, <1>10, OnlyFit
<1> QED BY <1>11 DEF rules, q, path

\* The auth methods are read for the accessor of a mount.
LEMMA AuthGranted == Granted(Provisioning \union Default, Call(Words(<<"sys", "auth">>), "read", {}))
<1> DEFINE rules == Provisioning \union Default
           path == Words(<<"sys", "auth">>)
           q == Call(path, "read", {})
           r == Grant(Words(<<"sys", "auth">>), {"read"})
<1>2. path = <<<<"sys">>, <<"auth">>>>
  BY Words2
<1>4. r \in rules
  BY DEF Provisioning
<1>5. r = Exact(path, {"read"}, Params)
  BY DEF Grant
<1>6. r.caps = {"read"} /\ r.takes = Params
  BY <1>5, ExactFields
<1> HIDE DEF rules, path, r
<1>1. q.path = path /\ q.cap = "read" /\ q.params = {}
  BY CallIs
<1> HIDE DEF q
<1>7. path \in Seq({<<"sys">>, <<"auth">>}) /\ Len(path) = 2 /\ path[1] = <<"sys">> /\ path[2] = <<"auth">>
  BY <1>2
<1>8. Fits(r, path)
  BY <1>5, <1>7, FitsItself
<1>9. ASSUME NEW s \in rules, Fits(s, path) PROVE s = r
  <2>1. path[1] # <<"auth">> /\ path[1] # <<"kv">> /\ path[1] # <<"identity">>
    BY <1>7
  <2>2. s \notin Default /\ s \notin Entities /\ \A k \in Kinds : s \notin TenantRoles(k)
    BY <1>9, <2>1, SelfReach, EntitiesAt, RoleReach
  <2>3. Len(path) = 2 /\ path[2] = <<"auth">> /\ Len(path) \in Nat
    BY <1>7
  <2> QED BY <1>9, <2>1, <2>2, <2>3, ProvisioningAt DEF rules, r
<1>10. Granted(rules, q)
  BY <1>1, <1>4, <1>6, <1>8, <1>9, OnlyFit
<1> QED BY <1>10 DEF rules, q, path

\* The token looks itself up.
LEMMA SelfRule ==
    ASSUME NEW r \in Default, NEW path, Fits(r, path), path[3] = <<"lookup-self">>
    PROVE  r = Grant(Words(<<"auth", "token", "lookup-self">>), {"read"})
<1>1. ASSUME NEW s, s # "lookup-self", s # "+", NEW c, r = Grant(Words(<<"auth", "token", s>>), c) PROVE FALSE
  <2>1. path[3] = <<s>>
    BY <1>1, FitsWords DEF Grant
  <2>2. <<s>> # <<"lookup-self">>
    BY <1>1
  <2> QED BY <2>1, <2>2
<1>2. r # Grant(Words(<<"auth", "token", "renew-self">>), {"update"})
  BY <1>1
<1>3. r # Grant(Words(<<"auth", "token", "revoke-self">>), {"update"})
  BY <1>1
<1> QED BY <1>2, <1>3 DEF Default, Self

LEMMA SelfGranted ==
    Granted(Provisioning \union Default, Call(Words(<<"auth", "token", "lookup-self">>), "read", {}))
<1> DEFINE rules == Provisioning \union Default
           path == Words(<<"auth", "token", "lookup-self">>)
           q == Call(path, "read", {})
           r == Grant(Words(<<"auth", "token", "lookup-self">>), {"read"})
<1>2. path = <<<<"auth">>, <<"token">>, <<"lookup-self">>>>
  BY Words3
<1>4. r \in rules
  BY DEF Default, Self
<1>5. r = Exact(path, {"read"}, Params)
  BY DEF Grant
<1>6. r.caps = {"read"} /\ r.takes = Params
  BY <1>5, ExactFields
<1> HIDE DEF rules, path, r
<1>1. q.path = path /\ q.cap = "read" /\ q.params = {}
  BY CallIs
<1> HIDE DEF q
<1>7. path \in Seq({<<"auth">>, <<"token">>, <<"lookup-self">>}) /\ Len(path) = 3
      /\ path[1] = <<"auth">> /\ path[2] = <<"token">> /\ path[3] = <<"lookup-self">>
  BY <1>2
<1>8. Fits(r, path)
  BY <1>5, <1>7, FitsItself
<1>9. ASSUME NEW s \in rules, Fits(s, path) PROVE s = r
  <2>1. path[1] # <<"sys">> /\ path[1] # <<"kv">> /\ path[1] # <<"identity">>
    BY <1>7
  <2>2. s \notin Entities
    BY <1>9, <2>1, EntitiesAt
  <2>3. ASSUME NEW k \in Kinds PROVE s \notin TenantRoles(k)
    <3>1. TenantMount(k) # "token"
      BY DEF TenantMount
    <3>2. path[2] # <<TenantMount(k)>>
      BY <1>7, <3>1
    <3> QED BY <1>9, <3>2, RoleReach
  <2>4. path[3] = <<"lookup-self">> /\ Len(path) \in Nat
    BY <1>7
  <2>5. s \in Default
    BY <1>9, <2>1, <2>2, <2>3, <2>4, ProvisioningAt DEF rules
  <2> QED BY <1>9, <2>4, <2>5, SelfRule DEF r
<1>10. Granted(rules, q)
  BY <1>1, <1>4, <1>6, <1>8, <1>9, OnlyFit
<1> QED BY <1>10 DEF rules, q, path

-----------------------------------------------------------------------------
(* An app's calls.                                                         *)

\* On the roles of its mount only a broker's own rules decide.
LEMMA AppsAt ==
    ASSUME NEW k \in Kinds, NEW r \in Apps(k) \union Default, NEW path, Fits(r, path),
           path[1] = <<"auth">>, path[2] = <<TenantMount(k)>>
    PROVE  r \in Minting(k)
<1>1. TenantMount(k) # "token" /\ TenantMount(Other(k)) # TenantMount(k) /\ TenantMount(Other(k)) # "+"
  BY DEF TenantMount, Other, Kinds
<1>2. path[2] # <<"token">> /\ path[2] # <<TenantMount(Other(k))>>
  BY <1>1
<1>3. path[1] # <<"sys">> /\ path[1] # <<"kv">> /\ path[1] # <<"identity">>
  OBVIOUS
<1>4. r \notin Default
  BY <1>2, SelfReach
<1>5. r # DenyTokenCreate
  BY <1>2, CreateFits
<1>6. r # DenyBelow(<<<<"kv">>>>) /\ r # DenyBelow(<<<<"sys">>>>) /\ r # DenyBelow(<<<<"identity">>>>)
  BY <1>3, DenyFits
<1>7. r # DenyBelow(Words(<<"auth", TenantMount(Other(k))>>))
  <2> SUFFICES ASSUME r = DenyBelow(Words(<<"auth", TenantMount(Other(k))>>)) PROVE FALSE
    OBVIOUS
  <2>1. path[2] = <<TenantMount(Other(k))>>
    BY <1>1, Below2 DEF DenyBelow, Below
  <2> QED BY <1>2, <2>1
<1> QED BY <1>4, <1>5, <1>6, <1>7 DEF Apps, Default

LEMMA FitsPart ==
    ASSUME NEW c, NEW t, NEW T, NEW p \in Seq(T), NEW d, NEW path, Len(path) \in Nat, Len(path) >= Len(p) + 1,
           \A i \in 1..Len(p) : path[i] = p[i], IsPrefix(d, path[Len(p) + 1])
    PROVE  Fits(Glob(Append(p, d), c, t), path)
<1> DEFINE q == Append(p, d)
           n == Len(p) + 1
<1>1. p \in Seq(T \union {d})
  OBVIOUS
<1>2. Len(q) = n /\ q[n] = d /\ \A i \in 1..Len(p) : q[i] = p[i]
  BY <1>1, AppendProperties
<1>3. IsPrefix(d, path[n])
  OBVIOUS
<1>4. \A i \in 1..n : i \in 1..Len(p) \/ i = n
  OBVIOUS
<1> HIDE DEF q
<1>5. n = Len(q) /\ Len(path) >= Len(q)
  BY <1>2
<1> HIDE DEF n
<1>6. Fits(Glob(q, c, t), path)
  BY <1>2, <1>3, <1>4, <1>5 DEF Fits, Glob
<1> QED BY <1>6 DEF q

LEMMA FrontPrefix == ASSUME NEW T, NEW s \in Seq(T), NEW u \in Seq(T) PROVE IsPrefix(s, s \o u)
<1>1. /\ s \o u \in Seq(T) /\ Len(s \o u) = Len(s) + Len(u) /\ Len(s) \in Nat /\ Len(u) \in Nat
      /\ \A i \in 1..Len(s) : (s \o u)[i] = s[i]
  BY ConcatProperties
<1>2. Len(s) <= Len(s \o u)
  BY <1>1
<1> DEFINE v == s \o u
<1> HIDE DEF v
<1>3. SubSeq(s, 1, Len(s)) = SubSeq(v, 1, Len(s))
  <2>1. v \in Seq(T) /\ Len(s) <= Len(v) /\ \A i \in 1..Len(s) : v[i] = s[i]
    BY <1>1, <1>2 DEF v
  <2> QED BY <2>1
<1> QED BY <1>2, <1>3 DEF IsPrefix, v

\* A broker logs a tenant in, with the role ID and the secret ID of its role.
LEMMA BrokerGranted ==
    ASSUME NEW k \in Kinds, token.env \in TenantEnvs, NEW i \in Ids, NEW w, NEW c,
           (w = "role-id" /\ c = "read") \/ (w = "secret-id" /\ c = "update")
    PROVE  Granted(Apps(k) \union Default, Call(RolePath(k) \o <<TenantRole(token.env, i), <<w>>>>, c, {}))
<1> DEFINE rules == Apps(k) \union Default
           n == TenantRole(token.env, i)
           path == RolePath(k) \o <<n, <<w>>>>
           q == Call(path, c, {})
           m == TenantMount(k)
           p == RolePath(k)
<1>1. m # "+" /\ w # "+" /\ c # "deny"
  BY Mounts
<1>2. path = <<<<"auth">>, <<m>>, <<"role">>, n, <<w>>>>
  BY RolePathIs
<1>3. p = <<<<"auth">>, <<m>>, <<"role">>>>
  BY RolePathIs
<1>4. token.env \in Envs \union {Unknown} /\ (shared => token.env \in Envs)
  BY DEF TenantEnvs
<1>5. n \in Seq(STRING \union {"."})
  BY <1>4, RoleSeq
<1> HIDE DEF path, m, p, n
<1>6. q.path = path /\ q.cap = c /\ q.params = {}
  BY CallIs
<1>7. Minting(k) \subseteq rules
  BY DEF Apps
<1> HIDE DEF rules, q
<1>8. Len(path) = 5 /\ path[1] = <<"auth">> /\ path[2] = <<m>> /\ path[3] = <<"role">> /\ path[4] = n /\ path[5] = <<w>>
  BY <1>2
<1>9. \A s \in rules : Fits(s, path) => s \in Minting(k)
  BY <1>8, AppsAt DEF rules, m
<1>10. ASSUME ~shared PROVE Granted(rules, q)
  <2> DEFINE r == Grant(RolePath(k) \o <<Plus, <<w>>>>, {c})
  <2>1. r = Exact(Words(<<"auth", m, "role">>) \o <<Plus, <<w>>>>, {c}, Params)
    BY DEF Grant, RolePath, m
  <2>2. r \in Minting(k)
    <3>1. CASE w = "role-id" /\ c = "read"
      BY <1>10, <3>1 DEF Minting
    <3>2. CASE w = "secret-id" /\ c = "update"
      BY <1>10, <3>2 DEF Minting
    <3> QED BY <3>1, <3>2
  <2>3. ASSUME NEW s \in Minting(k), Fits(s, path) PROVE s = r
    <3>1. ASSUME NEW x, x # "+", NEW d, s = Grant(RolePath(k) \o <<Plus, <<x>>>>, {d}) PROVE path[5] = <<x>>
      <4>1. s = Exact(Words(<<"auth", m, "role">>) \o <<Plus, <<x>>>>, {d}, Params)
        BY <3>1 DEF Grant, RolePath, m
      <4> QED BY <1>1, <2>3, <3>1, <4>1, Plus5
    <3>2. s = Grant(RolePath(k) \o <<Plus, <<"role-id">>>>, {"read"})
          \/ s = Grant(RolePath(k) \o <<Plus, <<"secret-id">>>>, {"update"})
      BY <1>10 DEF Minting
    <3>3. CASE w = "role-id" /\ c = "read"
      <4>1. path[5] # <<"secret-id">>
        BY <1>8, <3>3
      <4>2. s = Grant(RolePath(k) \o <<Plus, <<"role-id">>>>, {"read"})
        BY <3>1, <3>2, <4>1
      <4> QED BY <3>3, <4>2
    <3>4. CASE w = "secret-id" /\ c = "update"
      <4>1. path[5] # <<"role-id">>
        BY <1>8, <3>4
      <4>2. s = Grant(RolePath(k) \o <<Plus, <<"secret-id">>>>, {"update"})
        BY <3>1, <3>2, <4>1
      <4> QED BY <3>4, <4>2
    <3> QED BY <3>3, <3>4
  <2> HIDE DEF r
  <2>4. r.caps = {c} /\ r.takes = Params
    BY <2>1, ExactFields
  <2>5. Fits(r, path)
    BY <1>8, <2>1, FitsPlus
  <2>6. q.cap \in r.caps /\ q.params \subseteq r.takes /\ "deny" \notin r.caps
    BY <1>1, <1>6, <2>4
  <2>7. r \in rules /\ \A s \in rules : Fits(s, path) => s = r
    BY <1>7, <1>9, <2>2, <2>3
  <2> QED BY <1>6, <2>5, <2>6, <2>7, OnlyFit
<1>11. ASSUME shared PROVE Granted(rules, q)
  <2> DEFINE d == token.env \o <<".">>
             r == Glob(Append(p, d), {"read", "update"}, {})
  <2>1. token.env \in Envs /\ token.env # Unknown
    BY <1>4, <1>11, NameSeq
  <2>2. Minting(k) = {r}
    BY <1>11, <2>1 DEF Minting, p
  <2>3. IsPrefix(d, n)
    <3> DEFINE S == STRING \union {"."}
    <3>1. token.env \in Seq(STRING) /\ i \in Seq(STRING)
      BY <2>1, NameSeq
    <3>2. token.env \in Seq(S) /\ i \in Seq(S) /\ <<".">> \in Seq(S)
      BY <3>1
    <3> HIDE DEF S
    <3>3. d \in Seq(S)
      BY <3>2
    <3>4. n = d \o i
      BY <2>1 DEF n, TenantRole
    <3> HIDE DEF d
    <3> QED BY <3>2, <3>3, <3>4, FrontPrefix
  <2>4. p \in Seq({<<"auth">>, <<m>>, <<"role">>}) /\ Len(p) = 3 /\ p[1] = <<"auth">> /\ p[2] = <<m>> /\ p[3] = <<"role">>
    BY <1>3
  <2> HIDE DEF d
  <2>5. Fits(r, path)
    <3>1. Len(path) \in Nat /\ Len(path) >= Len(p) + 1 /\ Len(p) + 1 = 4
      BY <1>8, <2>4
    <3>2. \A j \in 1..Len(p) : path[j] = p[j]
      <4>1. \A j \in 1..3 : j = 1 \/ j = 2 \/ j = 3
        OBVIOUS
      <4> QED BY <1>8, <2>4, <4>1
    <3>3. IsPrefix(d, path[Len(p) + 1])
      BY <1>8, <2>3, <3>1
    <3> QED BY <2>4, <3>1, <3>2, <3>3, FitsPart
  <2>6. r.caps = {"read", "update"} /\ r.takes = {}
    BY ExactFields
  <2> HIDE DEF r
  <2>7. q.cap \in r.caps /\ q.params \subseteq r.takes /\ "deny" \notin r.caps
    <3>1. c \in {"read", "update"}
      OBVIOUS
    <3> QED BY <1>6, <2>6, <3>1
  <2>8. r \in rules /\ \A s \in rules : Fits(s, path) => s = r
    BY <1>7, <1>9, <2>2
  <2> QED BY <1>6, <2>5, <2>7, <2>8, OnlyFit
<1>12. Granted(rules, q)
  BY <1>10, <1>11
<1> QED BY <1>12 DEF rules, q, path, n

-----------------------------------------------------------------------------
(* The operator's calls.                                                   *)

LEMMA GlobOf == \A r : (IsExact(r) => ~r.glob) /\ (IsGlob(r) => r.glob)
BY DEF IsExact, IsGlob, Exact, Glob

LEMMA PlainFits ==
    ASSUME NEW r, Plain(r), NEW path, Fits(r, path)
    PROVE  \/ /\ ~Open(r.path) /\ Len(path) = Len(r.path)
              /\ \A i \in 1..Len(r.path) : path[i] = r.path[i]
           \/ /\ Open(r.path) /\ Len(path) >= Len(r.path)
              /\ \A i \in 1..Len(r.path) : i # Len(r.path) => path[i] = r.path[i]
<1>1. CASE IsExact(r) /\ ~Open(r.path)
  <2>1. ~r.glob
    BY <1>1, GlobOf
  <2> QED BY <1>1, <2>1 DEF Plain, Fits
<1>2. CASE IsGlob(r) /\ Open(r.path)
  <2>1. r.glob
    BY <1>2, GlobOf
  <2> QED BY <1>2, <2>1 DEF Plain, Fits
<1> QED BY <1>1, <1>2 DEF Plain

\* The operator has one rule for a path.
LEMMA OperatorSame == ASSUME NEW r \in Operator, NEW s \in Operator, r.path = s.path PROVE r = s
<1>1. Plain(r) /\ Plain(s) /\ r.takes = s.takes /\ r.caps = s.caps
  BY OperatorRules DEF OperatorAt
<1>2. CASE Open(r.path)
  <2>1. IsGlob(r) /\ IsGlob(s)
    BY <1>1, <1>2 DEF Plain
  <2> QED BY <1>1, <2>1 DEF IsGlob, Glob
<1>3. CASE ~Open(r.path)
  <2>1. IsExact(r) /\ IsExact(s)
    BY <1>1, <1>3 DEF Plain
  <2> QED BY <1>1, <2>1 DEF IsExact, Exact
<1> QED BY <1>2, <1>3

\* Where no rule of the operator is open.
Closed(path) ==
    \/ path[1] = <<"auth">> /\ path[2] = <<"token">>
    \/ /\ path[1] = <<"sys">>
       /\ path[2] \notin {<<"mounts">>, <<"policies">>, <<"leases">>, <<"generate-root">>, <<"audit">>}

LEMMA ClosedFit ==
    ASSUME NEW r \in Operator, NEW s \in Operator, NEW T, NEW path \in Seq(T), r.path = path, Closed(path), Fits(s, path)
    PROVE  s = r
<1> DEFINE p == s.path
<1>1. Plain(s) /\ OperatorAt(p, s.caps)
  BY OperatorRules
<1>2. Len(p) \in Nat /\ \E U : p \in Seq(U)
  BY <1>1 DEF Plain
<1>3. ~Open(p)
  <2> SUFFICES ASSUME Open(p) PROVE FALSE
    OBVIOUS
  <2>1. /\ Len(p) >= 3 /\ p[1] \in {<<"sys">>, <<"auth">>, <<"kv">>}
        /\ p[1] = <<"auth">> => p[2] # <<"token">>
        /\ p[1] = <<"sys">> => p[2] \in {<<"mounts">>, <<"policies">>, <<"leases">>, <<"generate-root">>, <<"audit">>}
    BY <1>1 DEF OperatorAt
  <2>2. \A i \in 1..Len(p) : i # Len(p) => path[i] = p[i]
    BY <1>1, PlainFits
  <2>3. path[1] = p[1] /\ path[2] = p[2]
    BY <1>2, <2>1, <2>2
  <2> HIDE DEF p
  <2> QED BY <2>1, <2>3 DEF Closed
<1>4. Len(path) = Len(p) /\ \A i \in 1..Len(p) : path[i] = p[i]
  BY <1>1, <1>3, PlainFits
<1>5. PICK U : p \in Seq(U)
  BY <1>2
<1> HIDE DEF p
<1>6. p \in Seq(T \union U) /\ path \in Seq(T \union U)
  BY <1>5
<1>7. p = path
  BY <1>4, <1>6, SeqEqual
<1> QED BY <1>7, OperatorSame DEF p

LEMMA ClosedGranted ==
    ASSUME NEW r \in Operator, NEW T, NEW path \in Seq(T), Closed(path), NEW caps, r = Exact(path, caps, Params),
           NEW c \in caps, "deny" \notin caps
    PROVE  Granted(Operator \union Default, Call(path, c, {}))
<1> DEFINE q == Call(path, c, {})
           rules == Operator \union Default
<1>1. q.path = path /\ q.cap = c /\ q.params = {}
  BY CallIs
<1>2. r.caps = caps /\ r.takes = Params /\ r.path = path
  BY DEF Exact
<1>3. Fits(r, path)
  BY FitsItself
<1>4. rules = Operator
  BY DEF Operator
<1> HIDE DEF q, rules
<1>5. \A s \in rules : Fits(s, path) => s = r
  BY <1>2, <1>4, ClosedFit
<1>6. q.cap \in r.caps /\ q.params \subseteq r.takes /\ "deny" \notin r.caps
  BY <1>1, <1>2
<1>7. Granted(rules, q)
  BY <1>1, <1>3, <1>4, <1>5, <1>6, OnlyFit
<1> QED BY <1>7 DEF q, rules

\* Below sys/mounts and sys/generate-root one rule decides.
LEMMA OpenGranted ==
    ASSUME NEW x \in {"mounts", "generate-root"}, NEW caps, "deny" \notin caps,
           Below(Words(<<"sys", x>>), caps) \in Operator,
           NEW T, NEW path \in Seq(T), Len(path) >= 3, path[1] = <<"sys">>, path[2] = <<x>>, NEW S, path[3] \in Seq(S),
           NEW c \in caps
    PROVE  Granted(Operator \union Default, Call(path, c, {}))
<1> DEFINE r == Below(Words(<<"sys", x>>), caps)
           q == Call(path, c, {})
           rules == Operator \union Default
           w == Words(<<"sys", x>>)
<1>1. x # "+"
  OBVIOUS
<1>2. w = <<<<"sys">>, <<x>>>>
  BY Words2
<1>3. r = Glob(Append(w, <<>>), caps, Params)
  BY DEF Below
<1>4. r \in Operator
  OBVIOUS
<1>5. rules = Operator
  BY DEF Operator
<1>6. q.path = path /\ q.cap = c /\ q.params = {}
  BY CallIs
<1>7. r.caps = caps /\ r.takes = Params
  BY <1>3, ExactFields
<1>8. Plain(r) /\ Len(r.path) = 3 /\ r.path[1] = <<"sys">> /\ r.path[2] = <<x>> /\ r.path[3] = <<>>
  BY <1>1, RowGlob2 DEF Below
<1> HIDE DEF q, rules, r, w
<1>9. w \in Seq({<<"sys">>, <<x>>}) /\ Len(w) = 2 /\ w[1] = <<"sys">> /\ w[2] = <<x>>
  BY <1>2
<1>10. Fits(r, path)
  <2>1. Len(path) \in Nat /\ Len(path) >= Len(w) + 1 /\ Len(w) + 1 = 3
    BY <1>9
  <2>2. \A j \in 1..Len(w) : path[j] = w[j]
    <3>1. \A j \in 1..2 : j = 1 \/ j = 2
      OBVIOUS
    <3> QED BY <1>9, <3>1
  <2> QED BY <1>3, <1>9, <2>1, <2>2, FitsBelow
<1>11. ASSUME NEW s \in rules, Fits(s, path) PROVE s = r
  <2> DEFINE p == s.path
  <2>1. Plain(s) /\ OperatorAt(p, s.caps)
    BY <1>5, OperatorRules
  <2>2. Len(p) \in Nat /\ \E U : p \in Seq(U)
    BY <2>1 DEF Plain
  <2>3. Len(p) >= 2 /\ (Open(p) => Len(p) >= 3)
    BY <2>1 DEF OperatorAt
  <2>4. \/ ~Open(p) /\ Len(path) = Len(p) /\ \A i \in 1..Len(p) : path[i] = p[i]
        \/ Open(p) /\ Len(path) >= Len(p) /\ \A i \in 1..Len(p) : i # Len(p) => path[i] = p[i]
    BY <1>11, <2>1, PlainFits
  <2> HIDE DEF p
  <2>5. p[1] = path[1] /\ p[2] = path[2]
    BY <2>2, <2>3, <2>4
  <2>6. p[1] = <<"sys">> /\ p[2] \in {<<"mounts">>, <<"generate-root">>}
    BY <2>5
  <2>7. Len(p) = IF Open(p) THEN 3 ELSE 2
    BY <2>1, <2>6 DEF OperatorAt
  <2>8. Open(p) /\ Len(p) = 3
    BY <2>4, <2>7
  <2>9. p[3] = <<>>
    BY <2>8 DEF Open
  <2>10. PICK U : p \in Seq(U)
    BY <2>2
  <2>11. PICK V : r.path \in Seq(V)
    BY <1>8 DEF Plain
  <2>12. \A j \in 1..3 : r.path[j] = p[j]
    <3>1. \A j \in 1..3 : j = 1 \/ j = 2 \/ j = 3
      OBVIOUS
    <3> QED BY <1>8, <2>5, <2>9, <3>1
  <2> DEFINE u == r.path
  <2>13. u \in Seq(V) /\ Len(u) = 3 /\ \A j \in 1..3 : u[j] = p[j]
    BY <1>8, <2>11, <2>12
  <2> HIDE DEF u
  <2>14. u \in Seq(V \union U) /\ p \in Seq(V \union U)
    BY <2>10, <2>13
  <2>15. u = p
    BY <2>8, <2>13, <2>14, SeqEqual
  <2> QED BY <1>4, <1>5, <2>15, OperatorSame DEF u, p
<1>12. q.cap \in r.caps /\ q.params \subseteq r.takes /\ "deny" \notin r.caps
  BY <1>6, <1>7
<1>13. Granted(rules, q)
  BY <1>4, <1>5, <1>6, <1>10, <1>11, <1>12, OnlyFit
<1> QED BY <1>13 DEF q, rules

LEMMA NodeCall ==
    ASSUME NEW x, x \notin {"mounts", "policies", "leases", "generate-root", "audit"},
           NEW caps, "deny" \notin caps, NEW c \in caps,
           Grant(Words(<<"sys", x>>), caps) \in Operator
    PROVE  Granted(Operator \union Default, Call(Words(<<"sys", x>>), c, {}))
<1> DEFINE path == Words(<<"sys", x>>)
           r == Grant(Words(<<"sys", x>>), caps)
<1>1. path = <<<<"sys">>, <<x>>>>
  BY Words2
<1>2. r = Exact(path, caps, Params)
  BY DEF Grant
<1>3. r \in Operator
  OBVIOUS
<1> HIDE DEF path, r
<1>4. path \in Seq({<<"sys">>, <<x>>}) /\ path[1] = <<"sys">> /\ path[2] = <<x>>
  BY <1>1
<1>5. Closed(path)
  BY <1>4 DEF Closed
<1> QED BY <1>2, <1>3, <1>4, <1>5, ClosedGranted DEF path

LEMMA RaftCall ==
    ASSUME NEW x, NEW caps, "deny" \notin caps, NEW c \in caps,
           Grant(Words(<<"sys", "storage", "raft", x>>), caps) \in Operator
    PROVE  Granted(Operator \union Default, Call(Words(<<"sys", "storage", "raft", x>>), c, {}))
<1> DEFINE path == Words(<<"sys", "storage", "raft", x>>)
           r == Grant(Words(<<"sys", "storage", "raft", x>>), caps)
<1>1. path = <<<<"sys">>, <<"storage">>, <<"raft">>, <<x>>>>
  BY Words4
<1>2. r = Exact(path, caps, Params)
  BY DEF Grant
<1>3. r \in Operator
  OBVIOUS
<1> HIDE DEF path, r
<1>4. path \in Seq({<<"sys">>, <<"storage">>, <<"raft">>, <<x>>}) /\ path[1] = <<"sys">> /\ path[2] = <<"storage">>
  BY <1>1
<1>5. Closed(path)
  BY <1>4 DEF Closed
<1> QED BY <1>2, <1>3, <1>4, <1>5, ClosedGranted DEF path

LEMMA StateCall ==
    ASSUME NEW x, NEW y, NEW caps, "deny" \notin caps, NEW c \in caps,
           Grant(Words(<<"sys", "storage", "raft", x, y>>), caps) \in Operator
    PROVE  Granted(Operator \union Default, Call(Words(<<"sys", "storage", "raft", x, y>>), c, {}))
<1> DEFINE path == Words(<<"sys", "storage", "raft", x, y>>)
           r == Grant(Words(<<"sys", "storage", "raft", x, y>>), caps)
<1>1. path = <<<<"sys">>, <<"storage">>, <<"raft">>, <<x>>, <<y>>>>
  BY Words5
<1>2. r = Exact(path, caps, Params)
  BY DEF Grant
<1>3. r \in Operator
  OBVIOUS
<1> HIDE DEF path, r
<1>4. path \in Seq({<<"sys">>, <<"storage">>, <<"raft">>, <<x>>, <<y>>}) /\ path[1] = <<"sys">> /\ path[2] = <<"storage">>
  BY <1>1
<1>5. Closed(path)
  BY <1>4 DEF Closed
<1> QED BY <1>2, <1>3, <1>4, <1>5, ClosedGranted DEF path

LEMMA TokenCall ==
    ASSUME NEW x, NEW caps, "deny" \notin caps, NEW c \in caps,
           Grant(Words(<<"auth", "token", x>>), caps) \in Operator
    PROVE  Granted(Operator \union Default, Call(Words(<<"auth", "token", x>>), c, {}))
<1> DEFINE path == Words(<<"auth", "token", x>>)
           r == Grant(Words(<<"auth", "token", x>>), caps)
<1>1. path = <<<<"auth">>, <<"token">>, <<x>>>>
  BY Words3
<1>2. r = Exact(path, caps, Params)
  BY DEF Grant
<1>3. r \in Operator
  OBVIOUS
<1> HIDE DEF path, r
<1>4. path \in Seq({<<"auth">>, <<"token">>, <<x>>}) /\ path[1] = <<"auth">> /\ path[2] = <<"token">>
  BY <1>1
<1>5. Closed(path)
  BY <1>4 DEF Closed
<1> QED BY <1>2, <1>3, <1>4, <1>5, ClosedGranted DEF path

LEMMA MembershipGranted == ASSUME NEW q \in Membership PROVE Granted(Operator \union Default, q)
<1> DEFINE G(x) == Granted(Operator \union Default, x)
           config == Call(Words(<<"sys", "storage", "raft", "configuration">>), "read", {})
           state == Call(Words(<<"sys", "storage", "raft", "autopilot", "state">>), "read", {})
           remove == Call(Words(<<"sys", "storage", "raft", "remove-peer">>), "update", {})
           leader == Call(Words(<<"sys", "leader">>), "read", {})
           step(c) == Call(Words(<<"sys", "step-down">>), c, {})
<1>1. G(config)
  <2>1. Grant(Words(<<"sys", "storage", "raft", "configuration">>), {"read"}) \in Operator
    <3>1. Grant(Words(<<"sys", "storage", "raft">> \o <<"configuration">>), {"read"}) \in Operator
      BY DEF Operator
    <3> QED BY <3>1, RaftWords
  <2>2. "deny" \notin {"read"} /\ "read" \in {"read"}
    OBVIOUS
  <2> QED BY <2>1, <2>2, RaftCall
<1>2. G(state)
  <2>1. Grant(Words(<<"sys", "storage", "raft", "autopilot", "state">>), {"read"}) \in Operator
    <3>1. Grant(Words(<<"sys", "storage", "raft">> \o <<"autopilot", "state">>), {"read"}) \in Operator
      BY DEF Operator
    <3> QED BY <3>1, RaftWords
  <2>2. "deny" \notin {"read"} /\ "read" \in {"read"}
    OBVIOUS
  <2> QED BY <2>1, <2>2, StateCall
<1>3. G(remove)
  <2>1. Grant(Words(<<"sys", "storage", "raft", "remove-peer">>), {"update", "sudo"}) \in Operator
    BY DEF Operator
  <2>2. "deny" \notin {"update", "sudo"} /\ "update" \in {"update", "sudo"}
    OBVIOUS
  <2> QED BY <2>1, <2>2, RaftCall
<1>4. G(leader)
  <2>1. Grant(Words(<<"sys", "leader">>), {"read"}) \in Operator
    BY DEF Operator
  <2>2. "deny" \notin {"read"} /\ "read" \in {"read"} /\ "leader" \notin {"mounts", "policies", "leases", "generate-root", "audit"}
    OBVIOUS
  <2> QED BY <2>1, <2>2, NodeCall
<1>5. ASSUME NEW c \in {"update", "sudo"} PROVE G(step(c))
  <2>1. Grant(Words(<<"sys", "step-down">>), {"update", "sudo"}) \in Operator
    BY DEF Operator
  <2>2. "deny" \notin {"update", "sudo"} /\ "step-down" \notin {"mounts", "policies", "leases", "generate-root", "audit"}
    OBVIOUS
  <2> QED BY <2>1, <2>2, NodeCall
<1>6. q \in {config, state, remove, leader} \/ \E c \in {"update", "sudo"} : q = step(c)
  BY DEF Membership
<1> HIDE DEF config, state, remove, leader, step, G
<1>7. G(q)
  BY <1>1, <1>2, <1>3, <1>4, <1>5, <1>6
<1> QED BY <1>7 DEF G

LEMMA RootGranted == ASSUME NEW q \in GenerateRoot PROVE Granted(Operator \union Default, q)
<1> DEFINE caps == Managed \union {"sudo"}
           path(s) == Words(<<"sys", "generate-root", s>>)
<1>1. "deny" \notin caps /\ Below(Words(<<"sys", "generate-root">>), caps) \in Operator
  <2>1. Below(Words(<<"sys", "generate-root">>), caps) \in Operator
    BY DEF Operator
  <2> QED BY <2>1 DEF Managed
<1>2. ASSUME NEW s
      PROVE  /\ path(s) \in Seq({<<"sys">>, <<"generate-root">>, <<s>>}) /\ Len(path(s)) = 3
             /\ path(s)[1] = <<"sys">> /\ path(s)[2] = <<"generate-root">> /\ path(s)[3] \in Seq({s})
  <2> DEFINE p == path(s)
  <2>1. p = <<<<"sys">>, <<"generate-root">>, <<s>>>>
    BY Words3
  <2> HIDE DEF p
  <2>2. p \in Seq({<<"sys">>, <<"generate-root">>, <<s>>}) /\ Len(p) = 3 /\ p[1] = <<"sys">> /\ p[2] = <<"generate-root">> /\ p[3] = <<s>>
    BY <2>1
  <2>3. <<s>> \in Seq({s})
    OBVIOUS
  <2> QED BY <2>2, <2>3 DEF p
<1>3. q \in {Call(path("attempt"), c, {}) : c \in {"read", "update", "delete"}} \/ q = Call(path("update"), "update", {})
  BY DEF GenerateRoot
<1>4. {"read", "update", "delete"} \subseteq caps
  BY DEF Managed
<1> HIDE DEF path, caps
<1>5. ASSUME NEW s, NEW c \in caps PROVE Granted(Operator \union Default, Call(path(s), c, {}))
  <2> DEFINE p == path(s)
  <2>3. /\ p \in Seq({<<"sys">>, <<"generate-root">>, <<s>>}) /\ Len(p) = 3
        /\ p[1] = <<"sys">> /\ p[2] = <<"generate-root">> /\ p[3] \in Seq({s})
    BY ONLY <1>2, Zenon
  <2> HIDE DEF p
  <2>1. Len(p) >= 3
    BY <2>3
  <2>2. "generate-root" \in {"mounts", "generate-root"}
    OBVIOUS
  <2>4. Granted(Operator \union Default, Call(p, c, {}))
    BY <1>1, <2>1, <2>2, <2>3, OpenGranted
  <2> QED BY <2>4 DEF p
<1> QED BY <1>3, <1>4, <1>5

LEMMA TuneGranted == Granted(Operator \union Default, Call(Words(<<"sys", "mounts", "kv", "tune">>), "read", {}))
<1> DEFINE p == Words(<<"sys", "mounts", "kv", "tune">>)
<1>1. p = <<<<"sys">>, <<"mounts">>, <<"kv">>, <<"tune">>>>
  BY Words4
<1> HIDE DEF p
<1>2. /\ p \in Seq({<<"sys">>, <<"mounts">>, <<"kv">>, <<"tune">>}) /\ Len(p) = 4
      /\ p[1] = <<"sys">> /\ p[2] = <<"mounts">> /\ p[3] = <<"kv">>
  BY <1>1
<1>3. p[3] \in Seq({"kv"}) /\ Len(p) >= 3
  BY <1>2
<1>4. "mounts" \in {"mounts", "generate-root"} /\ "deny" \notin {"read"} /\ "read" \in {"read"}
  OBVIOUS
<1>5. Below(Words(<<"sys", "mounts">>), {"read"}) \in Operator
  BY DEF Operator
<1>6. Granted(Operator \union Default, Call(p, "read", {}))
  BY <1>2, <1>3, <1>4, <1>5, OpenGranted
<1> QED BY <1>6 DEF p

LEMMA NodeGranted ==
    /\ Granted(Operator \union Default, Call(Words(<<"auth", "token", "lookup-self">>), "read", {}))
    /\ Granted(Operator \union Default, Call(Words(<<"auth", "token", "renew-self">>), "update", {}))
    /\ Granted(Operator \union Default, Call(Words(<<"sys", "storage", "raft", "snapshot">>), "read", {}))
<1>1. Grant(Words(<<"auth", "token", "lookup-self">>), {"read"}) \in Operator
  BY DEF Operator, Default, Self
<1>2. Grant(Words(<<"auth", "token", "renew-self">>), {"update"}) \in Operator
  BY DEF Operator, Default, Self
<1>3. Grant(Words(<<"sys", "storage", "raft", "snapshot">>), {"read"}) \in Operator
  <2>1. Grant(Words(<<"sys", "storage", "raft">> \o <<"snapshot">>), {"read"}) \in Operator
    BY DEF Operator
  <2> QED BY <2>1, RaftWords
<1>4. "deny" \notin {"read"} /\ "read" \in {"read"} /\ "deny" \notin {"update"} /\ "update" \in {"update"}
  OBVIOUS
<1>5. Granted(Operator \union Default, Call(Words(<<"auth", "token", "lookup-self">>), "read", {}))
  BY <1>1, <1>4, TokenCall
<1>6. Granted(Operator \union Default, Call(Words(<<"auth", "token", "renew-self">>), "update", {}))
  BY <1>2, <1>4, TokenCall
<1>7. Granted(Operator \union Default, Call(Words(<<"sys", "storage", "raft", "snapshot">>), "read", {}))
  BY <1>3, <1>4, RaftCall
<1> QED BY <1>5, <1>6, <1>7

(***************************************************************************)
(* Every call is granted.                                                  *)
(***************************************************************************)

LEMMA CreateGranted ==
    ASSUME NEW k \in Kinds, NEW e \in TenantEnvs, NEW i \in Ids, NEW q \in CreateTenant(k, e, i)
    PROVE  Granted(Provisioning \union Default, q)
<1> DEFINE G(x) == Granted(Provisioning \union Default, x)
           W == {Call(Append(RolePath(k), TenantRole(e, i)), c, {TenantPolicy(k), "limits"}) : c \in {"create", "update"}}
           ask == Call(RolePath(k) \o <<TenantRole(e, i), <<"role-id">>>>, "read", {})
           auth == Call(Words(<<"sys", "auth">>), "read", {})
           mark == Call(EntityPath(k, e, i), "update", {"metadata"})
           entity == Call(EntityPath(k, e, i), "read", {})
           lookup == Call(Words(<<"identity", "lookup", "entity">>), "update", {})
           alias == Call(Words(<<"identity", "entity-alias", "id", "alias">>), "delete", {})
           link == Call(Words(<<"identity", "entity-alias">>), "update", {})
<1>1. q \in W \/ (shared /\ q \in {ask, auth, mark, entity, lookup, alias, link})
  BY DEF CreateTenant
<1>2. \A x \in W : G(x)
  <2>1. {"create", "update"} \subseteq Managed
    BY DEF Managed
  <2>2. \A c \in {"create", "update"} : G(Call(Append(RolePath(k), TenantRole(e, i)), c, {TenantPolicy(k), "limits"}))
    BY <2>1, RoleGranted
  <2> HIDE DEF G
  <2> QED BY <2>2
<1>3. G(ask)
  BY PartGranted
<1>4. G(auth)
  BY AuthGranted
<1>5. shared => G(mark) /\ G(entity)
  <2>1. shared => G(mark)
    BY EntityGranted
  <2>2. shared => G(entity)
    BY EntityGranted
  <2> QED BY <2>1, <2>2
<1>6. shared => G(lookup) /\ G(alias) /\ G(link)
  BY LookupGranted, AliasGranted, LinkGranted
<1> HIDE DEF W, ask, auth, mark, entity, lookup, alias, link, G
<1>7. G(q)
  BY <1>1, <1>2, <1>3, <1>4, <1>5, <1>6
<1> QED BY <1>7 DEF G

LEMMA OffboardGranted ==
    ASSUME NEW k \in Kinds, NEW e \in TenantEnvs, NEW i \in Ids, NEW q \in OffboardTenant(k, e, i)
    PROVE  Granted(Provisioning \union Default, q)
<1>1. \/ q = Call(Append(RolePath(k), TenantRole(e, i)), "delete", {})
      \/ shared /\ q = Call(EntityPath(k, e, i), "delete", {})
  BY DEF OffboardTenant
<1>2. "delete" \in Managed
  BY DEF Managed
<1>3. Granted(Provisioning \union Default, Call(Append(RolePath(k), TenantRole(e, i)), "delete", {}))
  BY <1>2, RoleGranted
<1>4. shared => Granted(Provisioning \union Default, Call(EntityPath(k, e, i), "delete", {}))
  BY EntityGranted
<1> QED BY <1>1, <1>3, <1>4

LEMMA LoginGranted ==
    ASSUME NEW k \in Kinds, NEW e \in TenantEnvs, NEW i \in Ids, NEW q \in LoginAppRole(k, e, i)
    PROVE  /\ Granted(Provisioning \union Default, q)
           /\ token.env = e => Granted(Apps(k) \union Default, q)
<1> DEFINE path(w) == RolePath(k) \o <<TenantRole(e, i), <<w>>>>
<1>1. q = Call(path("role-id"), "read", {}) \/ q = Call(path("secret-id"), "update", {})
  BY DEF LoginAppRole
<1>2. /\ Granted(Provisioning \union Default, Call(path("role-id"), "read", {}))
      /\ Granted(Provisioning \union Default, Call(path("secret-id"), "update", {}))
  BY PartGranted
<1>3. token.env = e => /\ Granted(Apps(k) \union Default, Call(path("role-id"), "read", {}))
                       /\ Granted(Apps(k) \union Default, Call(path("secret-id"), "update", {}))
  <2> SUFFICES ASSUME token.env = e
               PROVE  /\ Granted(Apps(k) \union Default, Call(path("role-id"), "read", {}))
                      /\ Granted(Apps(k) \union Default, Call(path("secret-id"), "update", {}))
    OBVIOUS
  <2>1. Granted(Apps(k) \union Default, Call(RolePath(k) \o <<TenantRole(token.env, i), <<"role-id">>>>, "read", {}))
    BY BrokerGranted
  <2>2. Granted(Apps(k) \union Default, Call(RolePath(k) \o <<TenantRole(token.env, i), <<"secret-id">>>>, "update", {}))
    BY BrokerGranted
  <2> QED BY <2>1, <2>2
<1> HIDE DEF path
<1> QED BY <1>1, <1>2, <1>3

\* Whatever the program asks for with a token, in either mode and for any names, the
\* policy of the token grants.  (CreateTenant, OffboardTenant, ListTenants, LoginAppRole,
\* LeaveRaft, NodeHealthOK, RaftSnapshot, BreakGlass.Begin)
THEOREM RunsGranted ==
    ASSUME token \in Tokens, NEW q \in Runs
    PROVE  Granted(RenderPolicy(token.policy) \union Default, q)
<1>1. CASE token.policy = "provisioning"
  <2>1. \/ \E k \in Kinds : \E e \in TenantEnvs : \E i \in Ids :
             q \in CreateTenant(k, e, i) \union OffboardTenant(k, e, i) \union LoginAppRole(k, e, i)
        \/ q \in ListTenants
        \/ q = Call(Words(<<"auth", "token", "lookup-self">>), "read", {})
    BY <1>1, RunsOf
  <2>2. q \in ListTenants => Granted(Provisioning \union Default, q)
    BY ListGranted DEF ListTenants
  <2>3. Granted(Provisioning \union Default, q)
    BY <2>1, <2>2, CreateGranted, OffboardGranted, LoginGranted, SelfGranted
  <2> QED BY <1>1, <2>3, PolicyNames
<1>2. CASE token.policy = "operator"
  <2>1. \/ q \in Membership \/ q \in GenerateRoot
        \/ q = Call(Words(<<"auth", "token", "lookup-self">>), "read", {})
        \/ q = Call(Words(<<"auth", "token", "renew-self">>), "update", {})
        \/ q = Call(Words(<<"sys", "storage", "raft", "snapshot">>), "read", {})
        \/ q = Call(Words(<<"sys", "mounts", "kv", "tune">>), "read", {})
    BY <1>2, RunsOf
  <2>2. Granted(Operator \union Default, q)
    BY <2>1, MembershipGranted, RootGranted, NodeGranted, TuneGranted
  <2> QED BY <1>2, <2>2, PolicyNames
<1>3. CASE token.policy \notin {"provisioning", "operator"}
  <2>1. \E k \in Kinds, i \in Ids :
           token.policy = AppsPolicy(k) /\ token.env \in TenantEnvs /\ q \in LoginAppRole(k, token.env, i)
    BY <1>3, RunsOf
  <2>2. \E k \in Kinds : token.policy = AppsPolicy(k) /\ Granted(Apps(k) \union Default, q)
    BY <2>1, LoginGranted
  <2> QED BY <2>2, PolicyNames
<1> QED BY <1>1, <1>2, <1>3

\* No call of the program is ever denied.
THEOREM CommandsAlways == Spec => []CommandsPermitted
<1>1. AnswerInv => CommandsPermitted
  BY RunsGranted DEF AnswerInv, CommandsPermitted
<1> QED BY <1>1, Answers, PTL

-----------------------------------------------------------------------------
(* The lint of the templates.  A template has no two rules for one path:   *)
(* what a rule grants is a function of its path.                           *)

RowOf(r, p, c, t) == (IsExact(r) \/ IsGlob(r)) /\ r.path = p /\ r.caps = c /\ r.takes = t

LEMMA RowIs ==
    ASSUME NEW p, NEW c, NEW t
    PROVE  /\ RowOf(Exact(p, c, t), p, c, t) /\ RowOf(Glob(p, c, t), p, c, t)
           /\ RowOf(Grant(p, c), p, c, Params) /\ RowOf(Deny(p), p, {"deny"}, Params)
           /\ RowOf(Below(p, c), Append(p, <<>>), c, Params)
           /\ RowOf(DenyBelow(p), Append(p, <<>>), {"deny"}, Params)
<1>1. \A q, d, u : RowOf(Exact(q, d, u), q, d, u)
  BY DEF RowOf, Exact, IsExact
<1>2. \A q, d, u : RowOf(Glob(q, d, u), q, d, u)
  BY DEF RowOf, Glob, IsGlob
<1> QED BY <1>1, <1>2 DEF Grant, Deny, Below, DenyBelow

LEMMA RowSame ==
    ASSUME NEW r, NEW s, IsExact(r) \/ IsGlob(r), IsExact(s) \/ IsGlob(s),
           r.path = s.path, r.glob = s.glob, r.caps = s.caps, r.takes = s.takes
    PROVE  r = s
<1>1. CASE IsExact(r) /\ IsExact(s)
  BY <1>1 DEF IsExact, Exact
<1>2. CASE IsGlob(r) /\ IsGlob(s)
  BY <1>2 DEF IsGlob, Glob
<1>3. CASE IsExact(r) /\ IsGlob(s)
  BY <1>3 DEF IsExact, IsGlob, Exact, Glob
<1>4. CASE IsGlob(r) /\ IsExact(s)
  BY <1>4 DEF IsExact, IsGlob, Exact, Glob
<1> QED BY <1>1, <1>2, <1>3, <1>4

LEMMA Append1 == ASSUME NEW a, NEW b PROVE Append(<<a>>, b) = <<a, b>>
<1> DEFINE S == {a, b}
           p == <<a>>
           q == Append(p, b)
           s == <<a, b>>
<1>1. p \in Seq(S) /\ Len(p) = 1 /\ p[1] = a
  OBVIOUS
<1>2. s \in Seq(S) /\ Len(s) = 2 /\ s[1] = a /\ s[2] = b
  OBVIOUS
<1>3. b \in S
  OBVIOUS
<1> HIDE DEF S, p, s
<1>4. p \in Seq(S)
  BY <1>1
<1>5. /\ Append(p, b) \in Seq(S) /\ Len(Append(p, b)) = Len(p) + 1 /\ Append(p, b)[Len(p) + 1] = b
      /\ \A i \in 1..Len(p) : Append(p, b)[i] = p[i]
  BY <1>3, <1>4, AppendProperties
<1> HIDE DEF q
<1>6. Len(q) = 2 /\ q[1] = a /\ q[2] = b
  BY <1>1, <1>5 DEF q
<1>7. \A i \in 1..2 : i = 1 \/ i = 2
  OBVIOUS
<1>8. q = s
  BY <1>2, <1>5, <1>6, <1>7, SeqEqual DEF q
<1> QED BY <1>8 DEF p, q, s

LEMMA Append2 == ASSUME NEW a, NEW b, NEW c PROVE Append(<<a, b>>, c) = <<a, b, c>>
<1> DEFINE S == {a, b, c}
           p == <<a, b>>
           q == Append(p, c)
           s == <<a, b, c>>
<1>1. p \in Seq(S) /\ Len(p) = 2 /\ p[1] = a /\ p[2] = b
  OBVIOUS
<1>2. s \in Seq(S) /\ Len(s) = 3 /\ s[1] = a /\ s[2] = b /\ s[3] = c
  OBVIOUS
<1>3. c \in S
  OBVIOUS
<1> HIDE DEF S, p, s
<1>4. p \in Seq(S)
  BY <1>1
<1>5. /\ Append(p, c) \in Seq(S) /\ Len(Append(p, c)) = Len(p) + 1 /\ Append(p, c)[Len(p) + 1] = c
      /\ \A i \in 1..Len(p) : Append(p, c)[i] = p[i]
  BY <1>3, <1>4, AppendProperties
<1> HIDE DEF q
<1>6. Len(q) = 3 /\ q[1] = a /\ q[2] = b /\ q[3] = c
  BY <1>1, <1>5 DEF q
<1>7. \A i \in 1..3 : i = 1 \/ i = 2 \/ i = 3
  OBVIOUS
<1>8. q = s
  BY <1>2, <1>5, <1>6, <1>7, SeqEqual DEF q
<1> QED BY <1>8 DEF p, q, s

LEMMA RowWords2 ==
    ASSUME NEW r, NEW c, NEW t, NEW a, NEW b, RowOf(r, Words(<<a, b>>), c, t)
    PROVE  Len(r.path) = 2 /\ r.path[1] = <<a>> /\ r.path[2] = <<b>>
<1> DEFINE p == r.path
<1>1. p = <<<<a>>, <<b>>>>
  BY Words2 DEF RowOf
<1> HIDE DEF p
<1>2. Len(p) = 2 /\ p[1] = <<a>> /\ p[2] = <<b>>
  BY <1>1
<1> QED BY <1>2 DEF p

LEMMA RowWords3 ==
    ASSUME NEW r, NEW c, NEW t, NEW a, NEW b, NEW d, RowOf(r, Words(<<a, b, d>>), c, t)
    PROVE  Len(r.path) = 3 /\ r.path[1] = <<a>> /\ r.path[2] = <<b>> /\ r.path[3] = <<d>>
<1> DEFINE p == r.path
<1>1. p = <<<<a>>, <<b>>, <<d>>>>
  BY Words3 DEF RowOf
<1> HIDE DEF p
<1>2. Len(p) = 3 /\ p[1] = <<a>> /\ p[2] = <<b>> /\ p[3] = <<d>>
  BY <1>1
<1> QED BY <1>2 DEF p

LEMMA RowBelow1 ==
    ASSUME NEW r, NEW c, NEW t, NEW a, RowOf(r, Append(<<a>>, <<>>), c, t)
    PROVE  Len(r.path) = 2 /\ r.path[1] = a /\ r.path[2] = <<>>
<1> DEFINE p == r.path
<1>1. p = <<a, <<>>>>
  BY Append1 DEF RowOf
<1> HIDE DEF p
<1>2. Len(p) = 2 /\ p[1] = a /\ p[2] = <<>>
  BY <1>1
<1> QED BY <1>2 DEF p

LEMMA RowBelow2 ==
    ASSUME NEW r, NEW c, NEW t, NEW a, NEW b, RowOf(r, Append(Words(<<a, b>>), <<>>), c, t)
    PROVE  Len(r.path) = 3 /\ r.path[1] = <<a>> /\ r.path[2] = <<b>> /\ r.path[3] = <<>>
<1> DEFINE p == r.path
<1>1. p = <<<<a>>, <<b>>, <<>>>>
  BY Words2, Append2 DEF RowOf
<1> HIDE DEF p
<1>2. Len(p) = 3 /\ p[1] = <<a>> /\ p[2] = <<b>> /\ p[3] = <<>>
  BY <1>1
<1> QED BY <1>2 DEF p

LEMMA RowBelow3 ==
    ASSUME NEW r, NEW c, NEW t, NEW a, NEW b, NEW d, RowOf(r, Append(Words(<<a, b, d>>), <<>>), c, t)
    PROVE  Len(r.path) = 4 /\ r.path[1] = <<a>> /\ r.path[2] = <<b>> /\ r.path[3] = <<d>> /\ r.path[4] = <<>>
<1> DEFINE p == r.path
<1>1. p = <<<<a>>, <<b>>, <<d>>, <<>>>>
  <2>1. Words(<<a, b, d>>) = <<<<a>>, <<b>>, <<d>>>>
    BY Words3
  <2>2. Append(<<<<a>>, <<b>>, <<d>>>>, <<>>) = <<<<a>>, <<b>>, <<d>>, <<>>>>
    BY Append3
  <2>3. p = Append(Words(<<a, b, d>>), <<>>)
    BY DEF RowOf
  <2> HIDE DEF p
  <2> QED BY <2>1, <2>2, <2>3
<1> HIDE DEF p
<1>2. Len(p) = 4 /\ p[1] = <<a>> /\ p[2] = <<b>> /\ p[3] = <<d>> /\ p[4] = <<>>
  BY <1>1
<1> QED BY <1>2 DEF p

LEMMA RowRole ==
    ASSUME NEW r, NEW c, NEW t, NEW k, NEW e, RowOf(r, Append(RolePath(k), e), c, t)
    PROVE  Len(r.path) = 4 /\ r.path[1] = <<"auth">> /\ r.path[2] = <<TenantMount(k)>> /\ r.path[3] = <<"role">> /\ r.path[4] = e
<1> DEFINE p == r.path
<1>1. p = <<<<"auth">>, <<TenantMount(k)>>, <<"role">>, e>>
  BY RolePathIs DEF RowOf
<1> HIDE DEF p
<1>2. Len(p) = 4 /\ p[1] = <<"auth">> /\ p[2] = <<TenantMount(k)>> /\ p[3] = <<"role">> /\ p[4] = e
  BY <1>1
<1> QED BY <1>2 DEF p

LEMMA RowFolder ==
    ASSUME NEW r, NEW c, NEW t, NEW a, NEW b, NEW d, RowOf(r, Append(<<a, b, d>>, <<>>), c, t)
    PROVE  Len(r.path) = 4 /\ r.path[1] = a
<1> DEFINE p == r.path
<1>1. p = <<a, b, d, <<>>>>
  BY Append3 DEF RowOf
<1> HIDE DEF p
<1>2. Len(p) = 4 /\ p[1] = a
  BY <1>1
<1> QED BY <1>2 DEF p

LEMMA RowPlus ==
    ASSUME NEW r, NEW c, NEW t, NEW k, NEW s, RowOf(r, RolePath(k) \o <<Plus, s>>, c, t)
    PROVE  Len(r.path) = 5 /\ r.path[1] = <<"auth">> /\ r.path[2] = <<TenantMount(k)>> /\ r.path[5] = s
<1> DEFINE p == r.path
<1>1. p = <<<<"auth">>, <<TenantMount(k)>>, <<"role">>, Plus, s>>
  BY RolePathIs DEF RowOf
<1> HIDE DEF p
<1>2. Len(p) = 5 /\ p[1] = <<"auth">> /\ p[2] = <<TenantMount(k)>> /\ p[5] = s
  BY <1>1
<1> QED BY <1>2 DEF p

\* The capabilities of a rule are in order.
CapsPass(name, c) ==
    /\ c # {} /\ c \subseteq Caps \union {"deny"}
    /\ "deny" \in c => c = {"deny"}
    /\ "sudo" \in c => name = "operator"

\* What denies, or is no rule on the KV mount, passes if its capabilities do.
LEMMA LintElsewhere ==
    ASSUME NEW name, NEW r, CapsPass(name, r.caps), Len(r.path) \in Nat,
           r.caps = {"deny"} \/ (Len(r.path) >= 1 /\ r.path[1] \notin {<<>>, <<"*">>, <<"kv">>})
    PROVE  LintRule(name, r)
<1>1. CASE r.caps = {"deny"}
  BY <1>1 DEF LintRule, CapsPass
<1>2. CASE Len(r.path) >= 1 /\ r.path[1] \notin {<<>>, <<"*">>, <<"kv">>}
  <2> DEFINE n == Len(r.path)
             seg(i) == IF i > n THEN <<>> ELSE Segment(r, i)
  <2>1. seg(1) \notin {<<>>, <<"*">>, <<"kv">>}
    BY <1>2 DEF Segment
  <2> HIDE DEF seg
  <2>2. r.caps # {"deny"} => seg(1) # <<"*">> /\ seg(1) # <<"kv">>
    BY <2>1
  <2> USE DEF seg
  <2> QED BY <2>2 DEF LintRule, CapsPass
<1> QED BY <1>1, <1>2

LEMMA OrderedCaps ==
    /\ \A name : /\ CapsPass(name, {"read"}) /\ CapsPass(name, {"list"}) /\ CapsPass(name, {"update"})
                 /\ CapsPass(name, {"deny"}) /\ CapsPass(name, {"create", "update"})
    /\ \A name : /\ CapsPass(name, {"read", "list"}) /\ CapsPass(name, {"read", "delete"})
                 /\ CapsPass(name, {"read", "update"}) /\ CapsPass(name, {"read", "update", "delete"})
    /\ \A name : CapsPass(name, Managed \union {"list"}) /\ CapsPass(name, Caps \ {"sudo"})
    /\ CapsPass("operator", {"read", "sudo"}) /\ CapsPass("operator", {"update", "sudo"})
    /\ CapsPass("operator", Managed \union {"sudo"})
<1>1. \A name : /\ CapsPass(name, {"read"}) /\ CapsPass(name, {"list"}) /\ CapsPass(name, {"update"})
                /\ CapsPass(name, {"deny"}) /\ CapsPass(name, {"create", "update"})
  BY DEF CapsPass, Caps, Managed
<1>2. \A name : /\ CapsPass(name, {"read", "list"}) /\ CapsPass(name, {"read", "delete"})
                /\ CapsPass(name, {"read", "update"}) /\ CapsPass(name, {"read", "update", "delete"})
  BY DEF CapsPass, Caps, Managed
<1>3. \A name : CapsPass(name, Managed \union {"list"}) /\ CapsPass(name, Caps \ {"sudo"})
  BY DEF CapsPass, Caps, Managed
<1>4. CapsPass("operator", {"read", "sudo"}) /\ CapsPass("operator", {"update", "sudo"})
  BY DEF CapsPass, Caps, Managed
<1>5. CapsPass("operator", Managed \union {"sudo"})
  BY DEF CapsPass, Caps, Managed
<1> QED BY <1>1, <1>2, <1>3, <1>4, <1>5

LEMMA OperatorPasses == Lint("operator", Operator)
<1>1. Operator # {}
  BY DEF Operator
<1>2. ASSUME NEW r \in Operator PROVE LintRule("operator", r)
  <2>1. Plain(r) /\ OperatorAt(r.path, r.caps)
    BY OperatorRules
  <2>2. r.caps \in {{"read", "sudo"}, {"read"}, {"list"}, {"update"}, {"list", "read"}, {"update", "sudo"},
                    Managed \union {"sudo"}, {"deny"}}
    BY <2>1 DEF OperatorAt, OperatorCaps
  <2>3. {"list", "read"} = {"read", "list"}
    OBVIOUS
  <2>4. CapsPass("operator", r.caps)
    BY <2>2, <2>3, OrderedCaps
  <2>5. Len(r.path) \in Nat /\ Len(r.path) >= 1
    BY <2>1 DEF OperatorAt, Plain
  <2>6. r.caps = {"deny"} \/ r.path[1] \in {<<"sys">>, <<"auth">>}
    BY <2>1 DEF OperatorAt
  <2>7. <<"sys">> \notin {<<>>, <<"*">>, <<"kv">>} /\ <<"auth">> \notin {<<>>, <<"*">>, <<"kv">>}
    OBVIOUS
  <2>8. r.caps = {"deny"} \/ r.path[1] \notin {<<>>, <<"*">>, <<"kv">>}
    BY <2>6, <2>7
  <2> QED BY <2>4, <2>5, <2>8, LintElsewhere
<1>3. \A r, s \in Operator : r.path = s.path /\ r.glob = s.glob => r = s
  BY OperatorSame
<1> QED BY <1>1, <1>2, <1>3 DEF Lint

-----------------------------------------------------------------------------
(* The rules of the other policies, by their paths.                        *)

TokenCaps(p) == IF p[3] = <<"create">> THEN {"deny"} ELSE IF p[3] = <<"lookup-self">> THEN {"read"} ELSE {"update"}

EntityCaps(p) ==
    IF p[2] = <<"entity">> THEN IF Len(p) = 2 THEN {"create", "update"} ELSE IF Len(p) = 3 THEN {"deny"}
                                ELSE {"read", "update", "delete"}
    ELSE IF p[2] = <<"entity-alias">> THEN IF Len(p) = 2 THEN {"create", "update"} ELSE {"read", "delete"}
    ELSE IF p[2] = <<"lookup">> THEN {"update"}
    ELSE {"deny"}

EntityTakes(p) == IF p[2] = <<"entity">> /\ Len(p) # 3 THEN Params \ {"policies", "disabled"} ELSE Params

\* Of a rule on the token itself, and of one on identities.
TokenRow(r) ==
    /\ IsExact(r) \/ IsGlob(r)
    /\ Len(r.path) = 3 /\ r.path[1] = <<"auth">> /\ r.path[2] = <<"token">>
    /\ r.caps = TokenCaps(r.path) /\ r.takes = Params

EntityRow(r) ==
    /\ IsExact(r) \/ IsGlob(r)
    /\ Len(r.path) \in 2..4 /\ r.path[1] = <<"identity">>
    /\ r.caps = EntityCaps(r.path) /\ r.takes = EntityTakes(r.path)

LEMMA SelfRow == ASSUME NEW r \in Self PROVE TokenRow(r)
<1>1. CASE r = Grant(Words(<<"auth", "token", "lookup-self">>), {"read"})
  <2>1. RowOf(r, Words(<<"auth", "token", "lookup-self">>), {"read"}, Params)
    BY <1>1, RowIs
  <2>2. Len(r.path) = 3 /\ r.path[1] = <<"auth">> /\ r.path[2] = <<"token">> /\ r.path[3] = <<"lookup-self">>
    BY <2>1, RowWords3
  <2> QED BY <2>1, <2>2 DEF RowOf, TokenRow, TokenCaps
<1>2. CASE r = Grant(Words(<<"auth", "token", "renew-self">>), {"update"})
  <2>1. RowOf(r, Words(<<"auth", "token", "renew-self">>), {"update"}, Params)
    BY <1>2, RowIs
  <2>2. Len(r.path) = 3 /\ r.path[1] = <<"auth">> /\ r.path[2] = <<"token">> /\ r.path[3] = <<"renew-self">>
    BY <2>1, RowWords3
  <2> QED BY <2>1, <2>2 DEF RowOf, TokenRow, TokenCaps
<1> QED BY <1>1, <1>2 DEF Self

LEMMA CreateRow == TokenRow(DenyTokenCreate)
<1> DEFINE r == DenyTokenCreate
<1>1. RowOf(r, Words(<<"auth", "token", "create">>), {"deny"}, Params)
  BY RowIs DEF DenyTokenCreate
<1> HIDE DEF r
<1>2. Len(r.path) = 3 /\ r.path[1] = <<"auth">> /\ r.path[2] = <<"token">> /\ r.path[3] = <<"create">>
  BY <1>1, RowWords3
<1>3. TokenRow(r)
  BY <1>1, <1>2 DEF RowOf, TokenRow, TokenCaps
<1> QED BY <1>3 DEF r

LEMMA EntitiesRow == ASSUME NEW r \in Entities PROVE EntityRow(r)
<1>1. CASE r = Exact(Words(<<"identity", "entity">>), {"create", "update"}, Params \ {"policies", "disabled"})
  <2>1. RowOf(r, Words(<<"identity", "entity">>), {"create", "update"}, Params \ {"policies", "disabled"})
    BY <1>1, RowIs
  <2>2. Len(r.path) = 2 /\ r.path[1] = <<"identity">> /\ r.path[2] = <<"entity">>
    BY <2>1, RowWords2
  <2> QED BY <2>1, <2>2 DEF RowOf, EntityRow, EntityCaps, EntityTakes
<1>2. CASE r = Glob(Append(Words(<<"identity", "entity", "name">>), <<>>), {"read", "update", "delete"}, Params \ {"policies", "disabled"})
  <2>1. RowOf(r, Append(Words(<<"identity", "entity", "name">>), <<>>), {"read", "update", "delete"}, Params \ {"policies", "disabled"})
    BY <1>2, RowIs
  <2>2. Len(r.path) = 4 /\ r.path[1] = <<"identity">> /\ r.path[2] = <<"entity">> /\ r.path[3] = <<"name">> /\ r.path[4] = <<>>
    BY <2>1, RowBelow3
  <2> QED BY <2>1, <2>2 DEF RowOf, EntityRow, EntityCaps, EntityTakes
<1>3. CASE r = Grant(Words(<<"identity", "entity-alias">>), {"create", "update"})
  <2>1. RowOf(r, Words(<<"identity", "entity-alias">>), {"create", "update"}, Params)
    BY <1>3, RowIs
  <2>2. Len(r.path) = 2 /\ r.path[1] = <<"identity">> /\ r.path[2] = <<"entity-alias">>
    BY <2>1, RowWords2
  <2> QED BY <2>1, <2>2 DEF RowOf, EntityRow, EntityCaps, EntityTakes
<1>4. CASE r = Below(Words(<<"identity", "entity-alias", "id">>), {"read", "delete"})
  <2>1. RowOf(r, Append(Words(<<"identity", "entity-alias", "id">>), <<>>), {"read", "delete"}, Params)
    BY <1>4, RowIs
  <2>2. Len(r.path) = 4 /\ r.path[1] = <<"identity">> /\ r.path[2] = <<"entity-alias">> /\ r.path[3] = <<"id">> /\ r.path[4] = <<>>
    BY <2>1, RowBelow3
  <2> QED BY <2>1, <2>2 DEF RowOf, EntityRow, EntityCaps, EntityTakes
<1>5. CASE r = Grant(Words(<<"identity", "lookup", "entity">>), {"update"})
  <2>1. RowOf(r, Words(<<"identity", "lookup", "entity">>), {"update"}, Params)
    BY <1>5, RowIs
  <2>2. Len(r.path) = 3 /\ r.path[1] = <<"identity">> /\ r.path[2] = <<"lookup">> /\ r.path[3] = <<"entity">>
    BY <2>1, RowWords3
  <2> QED BY <2>1, <2>2 DEF RowOf, EntityRow, EntityCaps, EntityTakes
<1>6. CASE r = Deny(Words(<<"identity", "entity", "merge">>))
  <2>1. RowOf(r, Words(<<"identity", "entity", "merge">>), {"deny"}, Params)
    BY <1>6, RowIs
  <2>2. Len(r.path) = 3 /\ r.path[1] = <<"identity">> /\ r.path[2] = <<"entity">> /\ r.path[3] = <<"merge">>
    BY <2>1, RowWords3
  <2> QED BY <2>1, <2>2 DEF RowOf, EntityRow, EntityCaps, EntityTakes
<1>7. CASE r = Glob(Words(<<"identity", "group">>), {"deny"}, Params)
  <2>1. RowOf(r, Words(<<"identity", "group">>), {"deny"}, Params)
    BY <1>7, RowIs
  <2>2. Len(r.path) = 2 /\ r.path[1] = <<"identity">> /\ r.path[2] = <<"group">>
    BY <2>1, RowWords2
  <2> QED BY <2>1, <2>2 DEF RowOf, EntityRow, EntityCaps, EntityTakes
<1>8. CASE r = DenyBelow(Words(<<"identity", "oidc">>))
  <2>1. RowOf(r, Append(Words(<<"identity", "oidc">>), <<>>), {"deny"}, Params)
    BY <1>8, RowIs
  <2>2. Len(r.path) = 3 /\ r.path[1] = <<"identity">> /\ r.path[2] = <<"oidc">> /\ r.path[3] = <<>>
    BY <2>1, RowBelow2
  <2> QED BY <2>1, <2>2 DEF RowOf, EntityRow, EntityCaps, EntityTakes
<1>9. CASE r = DenyBelow(Words(<<"identity", "mfa">>))
  <2>1. RowOf(r, Append(Words(<<"identity", "mfa">>), <<>>), {"deny"}, Params)
    BY <1>9, RowIs
  <2>2. Len(r.path) = 3 /\ r.path[1] = <<"identity">> /\ r.path[2] = <<"mfa">> /\ r.path[3] = <<>>
    BY <2>1, RowBelow2
  <2> QED BY <2>1, <2>2 DEF RowOf, EntityRow, EntityCaps, EntityTakes
<1> QED BY <1>1, <1>2, <1>3, <1>4, <1>5, <1>6, <1>7, <1>8, <1>9 DEF Entities

-----------------------------------------------------------------------------
(* The rules of the policies that set tenants up.                          *)

SetupCaps(p) ==
    IF p[1] = <<"auth">> /\ p[2] = <<"token">> THEN TokenCaps(p)
    ELSE IF p[1] = <<"auth">> /\ Len(p) = 3 THEN {"list"}
    ELSE IF p[1] = <<"auth">> /\ Len(p) = 4 THEN Managed \union {"list"}
    ELSE IF p[1] = <<"auth">> THEN IF p[5] = <<"role-id">> THEN {"read"} ELSE {"update"}
    ELSE IF p[1] = <<"identity">> THEN EntityCaps(p)
    ELSE IF p[1] = <<"sys">> /\ Len(p) = 2 /\ p[2] # <<"audit">> THEN {"read"}
    ELSE {"deny"}

PinnedTo(mount) ==
    IF mount = <<"approle-reader">> THEN {"tenant-reader", "limits"}
    ELSE IF mount = <<"approle-writer">> THEN {"tenant-writer", "limits"}
    ELSE Params

SetupTakes(p) ==
    IF p[1] = <<"identity">> THEN EntityTakes(p)
    ELSE IF p[1] = <<"auth">> /\ Len(p) = 4 THEN PinnedTo(p[2])
    ELSE Params

SetupRow(r) ==
    /\ IsExact(r) \/ IsGlob(r)
    /\ Len(r.path) \in 2..5
    /\ r.path[1] \in {<<"auth">>, <<"identity">>, <<"sys">>} \/ r.caps = {"deny"}
    /\ r.caps = SetupCaps(r.path) /\ r.takes = SetupTakes(r.path)

LEMMA RolePinned == ASSUME NEW k \in Kinds PROVE PinnedTo(<<TenantMount(k)>>) = {TenantPolicy(k), "limits"}
BY DEF PinnedTo, Kinds, TenantMount, TenantPolicy

LEMMA TokenSetup == ASSUME NEW r, TokenRow(r) PROVE SetupRow(r)
<1>1. SetupCaps(r.path) = TokenCaps(r.path) /\ SetupTakes(r.path) = Params
  BY DEF TokenRow, SetupCaps, SetupTakes
<1> QED BY <1>1 DEF TokenRow, SetupRow

LEMMA EntitySetup == ASSUME NEW r, EntityRow(r) PROVE SetupRow(r)
<1>1. SetupCaps(r.path) = EntityCaps(r.path) /\ SetupTakes(r.path) = EntityTakes(r.path)
  BY DEF EntityRow, SetupCaps, SetupTakes
<1> QED BY <1>1 DEF EntityRow, SetupRow

LEMMA RolesSetup == ASSUME NEW k \in Kinds, NEW r \in TenantRoles(k) PROVE SetupRow(r)
<1>0. <<TenantMount(k)>> # <<"token">>
  BY Mounts
<1>1. CASE r = Grant(RolePath(k), {"list"})
  <2>1. RowOf(r, Words(<<"auth", TenantMount(k), "role">>), {"list"}, Params)
    BY <1>1, RowIs DEF RolePath
  <2>2. Len(r.path) = 3 /\ r.path[1] = <<"auth">> /\ r.path[2] = <<TenantMount(k)>> /\ r.path[3] = <<"role">>
    BY <2>1, RowWords3
  <2>3. SetupCaps(r.path) = {"list"} /\ SetupTakes(r.path) = Params
    BY <2>2, <1>0 DEF SetupCaps, SetupTakes
  <2>4. (IsExact(r) \/ IsGlob(r)) /\ r.caps = {"list"} /\ r.takes = Params
    BY <2>1 DEF RowOf
  <2> QED BY <2>2, <2>3, <2>4 DEF SetupRow
<1>2. CASE r = Glob(Append(RolePath(k), <<>>), Managed \union {"list"}, {TenantPolicy(k), "limits"})
  <2>1. RowOf(r, Append(Words(<<"auth", TenantMount(k), "role">>), <<>>), Managed \union {"list"}, {TenantPolicy(k), "limits"})
    BY <1>2, RowIs DEF RolePath
  <2>2. Len(r.path) = 4 /\ r.path[1] = <<"auth">> /\ r.path[2] = <<TenantMount(k)>> /\ r.path[3] = <<"role">> /\ r.path[4] = <<>>
    BY <2>1, RowBelow3
  <2>3. SetupCaps(r.path) = Managed \union {"list"} /\ SetupTakes(r.path) = {TenantPolicy(k), "limits"}
    BY <2>2, <1>0, RolePinned DEF SetupCaps, SetupTakes
  <2>4. (IsExact(r) \/ IsGlob(r)) /\ r.caps = Managed \union {"list"} /\ r.takes = {TenantPolicy(k), "limits"}
    BY <2>1 DEF RowOf
  <2> QED BY <2>2, <2>3, <2>4 DEF SetupRow
<1>3. CASE r = Grant(RolePath(k) \o <<Plus, <<"role-id">>>>, {"read"})
  <2>1. RowOf(r, RolePath(k) \o <<Plus, <<"role-id">>>>, {"read"}, Params)
    BY <1>3, RowIs DEF RolePath
  <2>2. Len(r.path) = 5 /\ r.path[1] = <<"auth">> /\ r.path[2] = <<TenantMount(k)>> /\ r.path[5] = <<"role-id">>
    BY <2>1, RowPlus
  <2>3. SetupCaps(r.path) = {"read"} /\ SetupTakes(r.path) = Params
    BY <2>2, <1>0 DEF SetupCaps, SetupTakes
  <2>4. (IsExact(r) \/ IsGlob(r)) /\ r.caps = {"read"} /\ r.takes = Params
    BY <2>1 DEF RowOf
  <2> QED BY <2>2, <2>3, <2>4 DEF SetupRow
<1>4. CASE r = Grant(RolePath(k) \o <<Plus, <<"secret-id">>>>, {"update"})
  <2>1. RowOf(r, RolePath(k) \o <<Plus, <<"secret-id">>>>, {"update"}, Params)
    BY <1>4, RowIs DEF RolePath
  <2>2. Len(r.path) = 5 /\ r.path[1] = <<"auth">> /\ r.path[2] = <<TenantMount(k)>> /\ r.path[5] = <<"secret-id">>
    BY <2>1, RowPlus
  <2>3. SetupCaps(r.path) = {"update"} /\ SetupTakes(r.path) = Params
    BY <2>2, <1>0 DEF SetupCaps, SetupTakes
  <2>4. (IsExact(r) \/ IsGlob(r)) /\ r.caps = {"update"} /\ r.takes = Params
    BY <2>1 DEF RowOf
  <2> QED BY <2>2, <2>3, <2>4 DEF SetupRow
<1> QED BY <1>1, <1>2, <1>3, <1>4 DEF TenantRoles

LEMMA ProvisioningSetup == ASSUME NEW r \in Provisioning PROVE SetupRow(r)
<1>1. CASE r \in TenantRoles("reader") \union TenantRoles("writer")
  BY <1>1, RolesSetup DEF Kinds
<1>2. CASE r \in Self \union {DenyTokenCreate}
  BY <1>2, SelfRow, CreateRow, TokenSetup
<1>3. CASE r \in Entities
  BY <1>3, EntitiesRow, EntitySetup
<1>4. ASSUME NEW s \in {"mounts", "auth"}, r = Grant(Words(<<"sys", s>>), {"read"}) PROVE SetupRow(r)
  <2>1. RowOf(r, Words(<<"sys", s>>), {"read"}, Params)
    BY <1>4, RowIs
  <2>2. Len(r.path) = 2 /\ r.path[1] = <<"sys">> /\ r.path[2] = <<s>>
    BY <2>1, RowWords2
  <2>3. SetupCaps(r.path) = {"read"} /\ SetupTakes(r.path) = Params
    BY <2>2, <1>4 DEF SetupCaps, SetupTakes
  <2>4. (IsExact(r) \/ IsGlob(r)) /\ r.caps = {"read"} /\ r.takes = Params
    BY <2>1 DEF RowOf
  <2> QED BY <2>2, <2>3, <2>4 DEF SetupRow
<1>5. CASE r = DenyBelow(<<<<"kv">>>>)
  <2>1. RowOf(r, Append(<<<<"kv">>>>, <<>>), {"deny"}, Params)
    BY <1>5, RowIs
  <2>2. Len(r.path) = 2 /\ r.path[1] = <<"kv">> /\ r.path[2] = <<>>
    BY <2>1, RowBelow1
  <2>3. SetupCaps(r.path) = {"deny"} /\ SetupTakes(r.path) = Params
    BY <2>2 DEF SetupCaps, SetupTakes
  <2>4. (IsExact(r) \/ IsGlob(r)) /\ r.caps = {"deny"} /\ r.takes = Params
    BY <2>1 DEF RowOf
  <2> QED BY <2>2, <2>3, <2>4 DEF SetupRow
<1>6. CASE r = Deny(Words(<<"sys", "audit">>))
  <2>1. RowOf(r, Words(<<"sys", "audit">>), {"deny"}, Params)
    BY <1>6, RowIs
  <2>2. Len(r.path) = 2 /\ r.path[1] = <<"sys">> /\ r.path[2] = <<"audit">>
    BY <2>1, RowWords2
  <2>3. SetupCaps(r.path) = {"deny"} /\ SetupTakes(r.path) = Params
    BY <2>2 DEF SetupCaps, SetupTakes
  <2>4. (IsExact(r) \/ IsGlob(r)) /\ r.caps = {"deny"} /\ r.takes = Params
    BY <2>1 DEF RowOf
  <2> QED BY <2>2, <2>3, <2>4 DEF SetupRow
<1>7. ASSUME NEW s, r = DenyBelow(Words(<<"sys", s>>)) PROVE SetupRow(r)
  <2>1. RowOf(r, Append(Words(<<"sys", s>>), <<>>), {"deny"}, Params)
    BY <1>7, RowIs
  <2>2. Len(r.path) = 3 /\ r.path[1] = <<"sys">> /\ r.path[2] = <<s>> /\ r.path[3] = <<>>
    BY <2>1, RowBelow2
  <2>3. SetupCaps(r.path) = {"deny"} /\ SetupTakes(r.path) = Params
    BY <2>2 DEF SetupCaps, SetupTakes
  <2>4. (IsExact(r) \/ IsGlob(r)) /\ r.caps = {"deny"} /\ r.takes = Params
    BY <2>1 DEF RowOf
  <2> QED BY <2>2, <2>3, <2>4 DEF SetupRow
<1>8. CASE r = DenyBelow(<<<<"identity">>>>)
  <2>1. RowOf(r, Append(<<<<"identity">>>>, <<>>), {"deny"}, Params)
    BY <1>8, RowIs
  <2>2. Len(r.path) = 2 /\ r.path[1] = <<"identity">> /\ r.path[2] = <<>>
    BY <2>1, RowBelow1
  <2>3. SetupCaps(r.path) = {"deny"} /\ SetupTakes(r.path) = Params
    BY <2>2 DEF EntityCaps, EntityTakes, SetupCaps, SetupTakes
  <2>4. (IsExact(r) \/ IsGlob(r)) /\ r.caps = {"deny"} /\ r.takes = Params
    BY <2>1 DEF RowOf
  <2> QED BY <2>2, <2>3, <2>4 DEF SetupRow
<1> QED BY <1>1, <1>2, <1>3, <1>4, <1>5, <1>6, <1>7, <1>8 DEF Provisioning

LEMMA AppsAuthSetup == ASSUME NEW r \in AppsAuth PROVE SetupRow(r)
<1>1. CASE r \in Self
  BY <1>1, SelfRow, TokenSetup
<1>2. CASE r \in Entities
  BY <1>2, EntitiesRow, EntitySetup
<1>3. CASE r = Grant(Words(<<"sys", "auth">>), {"read"})
  <2>1. RowOf(r, Words(<<"sys", "auth">>), {"read"}, Params)
    BY <1>3, RowIs
  <2>2. Len(r.path) = 2 /\ r.path[1] = <<"sys">> /\ r.path[2] = <<"auth">>
    BY <2>1, RowWords2
  <2>3. SetupCaps(r.path) = {"read"} /\ SetupTakes(r.path) = Params
    BY <2>2 DEF SetupCaps, SetupTakes
  <2>4. (IsExact(r) \/ IsGlob(r)) /\ r.caps = {"read"} /\ r.takes = Params
    BY <2>1 DEF RowOf
  <2> QED BY <2>2, <2>3, <2>4 DEF SetupRow
<1>4. CASE r = DenyBelow(<<<<"kv">>>>)
  <2>1. RowOf(r, Append(<<<<"kv">>>>, <<>>), {"deny"}, Params)
    BY <1>4, RowIs
  <2>2. Len(r.path) = 2 /\ r.path[1] = <<"kv">> /\ r.path[2] = <<>>
    BY <2>1, RowBelow1
  <2>3. SetupCaps(r.path) = {"deny"} /\ SetupTakes(r.path) = Params
    BY <2>2 DEF SetupCaps, SetupTakes
  <2>4. (IsExact(r) \/ IsGlob(r)) /\ r.caps = {"deny"} /\ r.takes = Params
    BY <2>1 DEF RowOf
  <2> QED BY <2>2, <2>3, <2>4 DEF SetupRow
<1>5. ASSUME NEW m \in {"aws", "gcp"}, r = Grant(Words(<<"auth", m, "role">>), {"list"}) PROVE SetupRow(r)
  <2>1. RowOf(r, Words(<<"auth", m, "role">>), {"list"}, Params)
    BY <1>5, RowIs
  <2>2. Len(r.path) = 3 /\ r.path[1] = <<"auth">> /\ r.path[2] = <<m>> /\ r.path[3] = <<"role">>
    BY <2>1, RowWords3
  <2>3. SetupCaps(r.path) = {"list"} /\ SetupTakes(r.path) = Params
    BY <2>2, <1>5 DEF SetupCaps, SetupTakes
  <2>4. (IsExact(r) \/ IsGlob(r)) /\ r.caps = {"list"} /\ r.takes = Params
    BY <2>1 DEF RowOf
  <2> QED BY <2>2, <2>3, <2>4 DEF SetupRow
<1>6. ASSUME NEW m \in {"aws", "gcp"}, r = Below(Words(<<"auth", m, "role">>), Managed \union {"list"}) PROVE SetupRow(r)
  <2>1. RowOf(r, Append(Words(<<"auth", m, "role">>), <<>>), Managed \union {"list"}, Params)
    BY <1>6, RowIs
  <2>2. Len(r.path) = 4 /\ r.path[1] = <<"auth">> /\ r.path[2] = <<m>> /\ r.path[3] = <<"role">> /\ r.path[4] = <<>>
    BY <2>1, RowBelow3
  <2>3. SetupCaps(r.path) = Managed \union {"list"} /\ SetupTakes(r.path) = Params
    BY <2>2, <1>6 DEF PinnedTo, SetupCaps, SetupTakes
  <2>4. (IsExact(r) \/ IsGlob(r)) /\ r.caps = Managed \union {"list"} /\ r.takes = Params
    BY <2>1 DEF RowOf
  <2> QED BY <2>2, <2>3, <2>4 DEF SetupRow
<1> QED BY <1>1, <1>2, <1>3, <1>4, <1>5, <1>6 DEF AppsAuth

LEMMA SetupLint == ASSUME NEW name, NEW r, SetupRow(r) PROVE LintRule(name, r)
<1>1. r.caps \in {{"read"}, {"list"}, {"update"}, {"deny"}, {"create", "update"}, {"read", "delete"},
                  {"read", "update", "delete"}, Managed \union {"list"}}
  BY DEF SetupRow, SetupCaps, TokenCaps, EntityCaps
<1>2. CapsPass(name, r.caps)
  BY <1>1, OrderedCaps
<1>3. r.caps = {"deny"} \/ r.path[1] \notin {<<>>, <<"*">>, <<"kv">>}
  <2>1. \A w \in {<<"auth">>, <<"identity">>, <<"sys">>} : w \notin {<<>>, <<"*">>, <<"kv">>}
    OBVIOUS
  <2>2. r.path[1] \in {<<"auth">>, <<"identity">>, <<"sys">>} \/ r.caps = {"deny"}
    BY DEF SetupRow
  <2> QED BY <2>1, <2>2
<1>4. Len(r.path) \in Nat /\ Len(r.path) >= 1
  <2>1. Len(r.path) \in 2..5
    BY DEF SetupRow
  <2> QED BY <2>1
<1> QED BY <1>2, <1>3, <1>4, LintElsewhere

LEMMA SetupPasses ==
    ASSUME NEW name, NEW rules, rules # {}, \A r \in rules : SetupRow(r)
    PROVE  Lint(name, rules)
<1>1. \A r \in rules : LintRule(name, r)
  BY SetupLint
<1>2. ASSUME NEW r \in rules, NEW s \in rules, r.path = s.path, r.glob = s.glob PROVE r = s
  <2>1. SetupRow(r) /\ SetupRow(s)
    OBVIOUS
  <2>2. r.caps = s.caps /\ r.takes = s.takes
    BY <1>2, <2>1 DEF SetupRow
  <2> QED BY <1>2, <2>1, <2>2, RowSame DEF SetupRow
<1> QED BY <1>1, <1>2 DEF Lint

-----------------------------------------------------------------------------
(* The rules of the brokers.                                               *)

BrokerCaps(p) ==
    IF p[1] = <<"auth">> /\ p[2] = <<"token">> THEN TokenCaps(p)
    ELSE IF p[1] = <<"auth">> /\ Len(p) = 4 THEN {"read", "update"}
    ELSE IF p[1] = <<"auth">> /\ Len(p) = 5 THEN IF p[5] = <<"role-id">> THEN {"read"} ELSE {"update"}
    ELSE {"deny"}

BrokerTakes(p) == IF p[1] = <<"auth">> /\ Len(p) = 4 THEN {} ELSE Params

BrokerRow(r) ==
    /\ IsExact(r) \/ IsGlob(r)
    /\ Len(r.path) \in 2..5
    /\ r.path[1] = <<"auth">> \/ r.caps = {"deny"}
    /\ r.caps = BrokerCaps(r.path) /\ r.takes = BrokerTakes(r.path)

LEMMA TokenBroker == ASSUME NEW r, TokenRow(r) PROVE BrokerRow(r)
<1>1. BrokerCaps(r.path) = TokenCaps(r.path) /\ BrokerTakes(r.path) = Params
  BY DEF TokenRow, BrokerCaps, BrokerTakes
<1> QED BY <1>1 DEF TokenRow, BrokerRow

LEMMA AppsBroker == ASSUME NEW k \in Kinds, NEW r \in Apps(k) PROVE BrokerRow(r)
<1>0. /\ <<TenantMount(k)>> # <<"token">> /\ <<TenantMount(Other(k))>> # <<"token">>
  BY DEF TenantMount
<1>1. CASE r \in Self \union {DenyTokenCreate}
  BY <1>1, SelfRow, CreateRow, TokenBroker
<1>2. CASE r = Grant(RolePath(k) \o <<Plus, <<"role-id">>>>, {"read"})
  <2>1. RowOf(r, RolePath(k) \o <<Plus, <<"role-id">>>>, {"read"}, Params)
    BY <1>2, RowIs
  <2>2. Len(r.path) = 5 /\ r.path[1] = <<"auth">> /\ r.path[2] = <<TenantMount(k)>> /\ r.path[5] = <<"role-id">>
    BY <2>1, RowPlus
  <2>3. BrokerCaps(r.path) = {"read"} /\ BrokerTakes(r.path) = Params
    BY <2>2, <1>0 DEF BrokerCaps, BrokerTakes
  <2>4. (IsExact(r) \/ IsGlob(r)) /\ r.caps = {"read"} /\ r.takes = Params
    BY <2>1 DEF RowOf
  <2> QED BY <2>2, <2>3, <2>4 DEF BrokerRow
<1>3. CASE r = Grant(RolePath(k) \o <<Plus, <<"secret-id">>>>, {"update"})
  <2>1. RowOf(r, RolePath(k) \o <<Plus, <<"secret-id">>>>, {"update"}, Params)
    BY <1>3, RowIs
  <2>2. Len(r.path) = 5 /\ r.path[1] = <<"auth">> /\ r.path[2] = <<TenantMount(k)>> /\ r.path[5] = <<"secret-id">>
    BY <2>1, RowPlus
  <2>3. BrokerCaps(r.path) = {"update"} /\ BrokerTakes(r.path) = Params
    BY <2>2, <1>0 DEF BrokerCaps, BrokerTakes
  <2>4. (IsExact(r) \/ IsGlob(r)) /\ r.caps = {"update"} /\ r.takes = Params
    BY <2>1 DEF RowOf
  <2> QED BY <2>2, <2>3, <2>4 DEF BrokerRow
<1>4. ASSUME NEW e, r = Glob(Append(RolePath(k), e), {"read", "update"}, {}) PROVE BrokerRow(r)
  <2>1. RowOf(r, Append(RolePath(k), e), {"read", "update"}, {})
    BY <1>4, RowIs
  <2>2. Len(r.path) = 4 /\ r.path[1] = <<"auth">> /\ r.path[2] = <<TenantMount(k)>> /\ r.path[3] = <<"role">> /\ r.path[4] = e
    BY <2>1, RowRole
  <2>3. BrokerCaps(r.path) = {"read", "update"} /\ BrokerTakes(r.path) = {}
    BY <2>2, <1>0 DEF BrokerCaps, BrokerTakes
  <2>4. (IsExact(r) \/ IsGlob(r)) /\ r.caps = {"read", "update"} /\ r.takes = {}
    BY <2>1 DEF RowOf
  <2> QED BY <2>2, <2>3, <2>4 DEF BrokerRow
<1>5. ASSUME NEW m, <<m>> # <<"token">>, r = DenyBelow(Words(<<"auth", m>>)) PROVE BrokerRow(r)
  <2>1. RowOf(r, Append(Words(<<"auth", m>>), <<>>), {"deny"}, Params)
    BY <1>5, RowIs
  <2>2. Len(r.path) = 3 /\ r.path[1] = <<"auth">> /\ r.path[2] = <<m>> /\ r.path[3] = <<>>
    BY <2>1, RowBelow2
  <2>3. BrokerCaps(r.path) = {"deny"} /\ BrokerTakes(r.path) = Params
    BY <2>2, <1>5 DEF BrokerCaps, BrokerTakes
  <2>4. (IsExact(r) \/ IsGlob(r)) /\ r.caps = {"deny"} /\ r.takes = Params
    BY <2>1 DEF RowOf
  <2> QED BY <2>2, <2>3, <2>4 DEF BrokerRow
<1>6. ASSUME NEW m, <<m>> # <<"auth">>, r = DenyBelow(<<<<m>>>>) PROVE BrokerRow(r)
  <2>1. RowOf(r, Append(<<<<m>>>>, <<>>), {"deny"}, Params)
    BY <1>6, RowIs
  <2>2. Len(r.path) = 2 /\ r.path[1] = <<m>> /\ r.path[2] = <<>>
    BY <2>1, RowBelow1
  <2>3. BrokerCaps(r.path) = {"deny"} /\ BrokerTakes(r.path) = Params
    BY <2>2, <1>6 DEF BrokerCaps, BrokerTakes
  <2>4. (IsExact(r) \/ IsGlob(r)) /\ r.caps = {"deny"} /\ r.takes = Params
    BY <2>1 DEF RowOf
  <2> QED BY <2>2, <2>3, <2>4 DEF BrokerRow
<1>7. CASE r \in Minting(k)
  <2>1. \/ r = Grant(RolePath(k) \o <<Plus, <<"role-id">>>>, {"read"})
        \/ r = Grant(RolePath(k) \o <<Plus, <<"secret-id">>>>, {"update"})
        \/ \E e : r = Glob(Append(RolePath(k), e), {"read", "update"}, {})
    BY <1>7 DEF Minting
  <2> QED BY <2>1, <1>2, <1>3, <1>4
<1>8. CASE r \in {DenyBelow(<<<<"kv">>>>), DenyBelow(<<<<"sys">>>>), DenyBelow(<<<<"identity">>>>)}
  <2>1. <<"kv">> # <<"auth">> /\ <<"sys">> # <<"auth">> /\ <<"identity">> # <<"auth">>
    OBVIOUS
  <2> QED BY <1>8, <1>6, <2>1
<1>9. CASE r = DenyBelow(Words(<<"auth", TenantMount(Other(k))>>))
  BY <1>9, <1>0, <1>5
<1> QED BY <1>1, <1>7, <1>8, <1>9 DEF Apps

LEMMA BrokerLint == ASSUME NEW name, NEW r, BrokerRow(r) PROVE LintRule(name, r)
<1>1. r.caps \in {{"read"}, {"update"}, {"deny"}, {"read", "update"}}
  BY DEF BrokerRow, BrokerCaps, TokenCaps
<1>2. CapsPass(name, r.caps)
  BY <1>1, OrderedCaps
<1>3. r.caps = {"deny"} \/ r.path[1] \notin {<<>>, <<"*">>, <<"kv">>}
  <2>1. <<"auth">> \notin {<<>>, <<"*">>, <<"kv">>}
    OBVIOUS
  <2>2. r.path[1] = <<"auth">> \/ r.caps = {"deny"}
    BY DEF BrokerRow
  <2> QED BY <2>1, <2>2
<1>4. Len(r.path) \in Nat /\ Len(r.path) >= 1
  <2>1. Len(r.path) \in 2..5
    BY DEF BrokerRow
  <2> QED BY <2>1
<1> QED BY <1>2, <1>3, <1>4, LintElsewhere

LEMMA AppsPass == ASSUME NEW name, NEW k \in Kinds PROVE Lint(name, Apps(k))
<1>1. Apps(k) # {}
  BY DEF Apps
<1>2. \A r \in Apps(k) : LintRule(name, r)
  BY AppsBroker, BrokerLint
<1>3. ASSUME NEW r \in Apps(k), NEW s \in Apps(k), r.path = s.path, r.glob = s.glob PROVE r = s
  <2>1. BrokerRow(r) /\ BrokerRow(s)
    BY AppsBroker
  <2>2. r.caps = s.caps /\ r.takes = s.takes
    BY <1>3, <2>1 DEF BrokerRow
  <2> QED BY <1>3, <2>1, <2>2, RowSame DEF BrokerRow
<1> QED BY <1>1, <1>2, <1>3 DEF Lint

-----------------------------------------------------------------------------
(* The rules of the tenants.                                               *)

LEMMA Append4 == ASSUME NEW a, NEW b, NEW c, NEW d, NEW e PROVE Append(<<a, b, c, d>>, e) = <<a, b, c, d, e>>
<1> DEFINE S == {a, b, c, d, e}
           p == <<a, b, c, d>>
           q == Append(p, e)
           s == <<a, b, c, d, e>>
<1>1. p \in Seq(S) /\ Len(p) = 4 /\ p[1] = a /\ p[2] = b /\ p[3] = c /\ p[4] = d
  OBVIOUS
<1>2. s \in Seq(S) /\ Len(s) = 5 /\ s[1] = a /\ s[2] = b /\ s[3] = c /\ s[4] = d /\ s[5] = e
  OBVIOUS
<1>3. e \in S
  OBVIOUS
<1> HIDE DEF S, p, s
<1>4. p \in Seq(S)
  BY <1>1
<1>5. /\ Append(p, e) \in Seq(S) /\ Len(Append(p, e)) = Len(p) + 1 /\ Append(p, e)[Len(p) + 1] = e
      /\ \A i \in 1..Len(p) : Append(p, e)[i] = p[i]
  BY <1>3, <1>4, AppendProperties
<1> HIDE DEF q
<1>6. Len(q) = 5 /\ q[1] = a /\ q[2] = b /\ q[3] = c /\ q[4] = d /\ q[5] = e
  BY <1>1, <1>5 DEF q
<1>7. \A i \in 1..5 : i = 1 \/ i = 2 \/ i = 3 \/ i = 4 \/ i = 5
  OBVIOUS
<1>8. q = s
  BY <1>2, <1>5, <1>6, <1>7, SeqEqual DEF q
<1> QED BY <1>8 DEF p, q, s

LEMMA Append6 == ASSUME NEW a, NEW b, NEW c, NEW d, NEW e, NEW f, NEW g PROVE Append(<<a, b, c, d, e, f>>, g) = <<a, b, c, d, e, f, g>>
<1> DEFINE S == {a, b, c, d, e, f, g}
           p == <<a, b, c, d, e, f>>
           q == Append(p, g)
           s == <<a, b, c, d, e, f, g>>
<1>1. p \in Seq(S) /\ Len(p) = 6 /\ p[1] = a /\ p[2] = b /\ p[3] = c /\ p[4] = d /\ p[5] = e /\ p[6] = f
  OBVIOUS
<1>2. s \in Seq(S) /\ Len(s) = 7 /\ s[1] = a /\ s[2] = b /\ s[3] = c /\ s[4] = d /\ s[5] = e /\ s[6] = f /\ s[7] = g
  OBVIOUS
<1>3. g \in S
  OBVIOUS
<1> HIDE DEF S, p, s
<1>4. p \in Seq(S)
  BY <1>1
<1>5. /\ Append(p, g) \in Seq(S) /\ Len(Append(p, g)) = Len(p) + 1 /\ Append(p, g)[Len(p) + 1] = g
      /\ \A i \in 1..Len(p) : Append(p, g)[i] = p[i]
  BY <1>3, <1>4, AppendProperties
<1> HIDE DEF q
<1>6. Len(q) = 7 /\ q[1] = a /\ q[2] = b /\ q[3] = c /\ q[4] = d /\ q[5] = e /\ q[6] = f /\ q[7] = g
  BY <1>1, <1>5 DEF q
<1>7. \A i \in 1..7 : i = 1 \/ i = 2 \/ i = 3 \/ i = 4 \/ i = 5 \/ i = 6 \/ i = 7
  OBVIOUS
<1>8. q = s
  BY <1>2, <1>5, <1>6, <1>7, SeqEqual DEF q
<1> QED BY <1>8 DEF p, q, s

LEMMA Concat22 == ASSUME NEW a, NEW b, NEW c, NEW d PROVE <<a, b>> \o <<c, d>> = <<a, b, c, d>>
<1> DEFINE S == {a, b, c, d}
<1>1. <<a, b>> \in Seq(S) /\ <<c, d>> \in Seq(S) /\ <<a, b, c, d>> \in Seq(S)
  OBVIOUS
<1>2. <<a, b>> \o <<c, d>> \in Seq(S) /\ Len(<<a, b>> \o <<c, d>>) = 4 /\ Len(<<a, b, c, d>>) = 4
  BY <1>1, ConcatProperties
<1>3. \A i \in 1..4 : (<<a, b>> \o <<c, d>>)[i] = <<a, b, c, d>>[i]
  OBVIOUS
<1> HIDE DEF S
<1> QED BY <1>1, <1>2, <1>3, SeqEqual

LEMMA Concat24 == ASSUME NEW a, NEW b, NEW c, NEW d, NEW e, NEW f PROVE <<a, b>> \o <<c, d, e, f>> = <<a, b, c, d, e, f>>
<1> DEFINE S == {a, b, c, d, e, f}
<1>1. <<a, b>> \in Seq(S) /\ <<c, d, e, f>> \in Seq(S) /\ <<a, b, c, d, e, f>> \in Seq(S)
  OBVIOUS
<1>2. <<a, b>> \o <<c, d, e, f>> \in Seq(S) /\ Len(<<a, b>> \o <<c, d, e, f>>) = 6 /\ Len(<<a, b, c, d, e, f>>) = 6
  BY <1>1, ConcatProperties
<1>3. \A i \in 1..6 : (<<a, b>> \o <<c, d, e, f>>)[i] = <<a, b, c, d, e, f>>[i]
  OBVIOUS
<1> HIDE DEF S
<1> QED BY <1>1, <1>2, <1>3, SeqEqual

OwnCaps(k, f) ==
    IF f = <<"data">> THEN IF k = "reader" THEN {"read"} ELSE Caps \ {"sudo"}
    ELSE IF f = <<"metadata">> THEN IF k = "reader" THEN {"read", "list"} ELSE Managed \union {"list"}
    ELSE {"update"}

TenantCaps(k, p) ==
    IF p[1] = <<"auth">> /\ p[2] = <<"token">> THEN TokenCaps(p)
    ELSE IF p[1] = <<"kv">> /\ Len(p) > 4 THEN OwnCaps(k, p[2])
    ELSE {"deny"}

\* A rule on the tenant's own folder.
OwnRow(r) ==
    /\ IsExact(r) \/ IsGlob(r)
    /\ r.path[1] = <<"kv">> /\ r.path[2] \in {<<f>> : f \in Families}
    /\ \/ Len(r.path) = 5 /\ r.path[3] = <<"customers">>
       \/ /\ Len(r.path) = 7 /\ r.path[3] = <<"envs">> /\ r.path[5] = <<"customers">>
          /\ r.path[4] \notin {<<"*">>, Plus} /\ r.path[6] \notin {<<"*">>, Plus}

\* Any other.
GuardRow(r) ==
    /\ IsExact(r) \/ IsGlob(r)
    /\ Len(r.path) \in 2..4
    /\ r.path[1] = <<"auth">> \/ r.caps = {"deny"}
    /\ r.takes = Params /\ \A k \in Kinds : r.caps = TenantCaps(k, r.path)

LEMMA NotWild == ASSUME NEW n \in Envs \union Ids PROVE n \notin {<<"*">>, Plus}
<1>1. /\ n # <<>> /\ \A i \in DOMAIN n : n[i] \notin {".", "/", "+", "*"}
  BY Names DEF ValidName
<1>2. n # <<"*">>
  <2> SUFFICES ASSUME n = <<"*">> PROVE FALSE
    OBVIOUS
  <2>1. 1 \in DOMAIN n /\ n[1] = "*"
    OBVIOUS
  <2> QED BY <1>1, <2>1
<1> QED BY <1>2, NameSeq

LEMMA OwnRows ==
    ASSUME token \in Tokens, NEW k \in Kinds, token.policy = TenantPolicy(k),
           NEW f \in Families, NEW c, NEW r \in Own(f, c)
    PROVE  OwnRow(r) /\ r.caps = c /\ r.takes = Params /\ r.path[2] = <<f>>
<1> DEFINE env == token.env
           id == token.tenant
<1>1. id # Unknown /\ r = Below(<<<<"kv">>, <<f>>>> \o Folder(env, id), c)
  BY DEF Own
<1>2. env \in TenantEnvs /\ id \in Ids
  BY <1>1, TokenIs DEF Kinds, TenantPolicy, AppsPolicy
<1>3. env \in Envs \union {Unknown}
  BY <1>2 DEF TenantEnvs
<1> HIDE DEF env, id
<1>4. RowOf(r, Append(<<<<"kv">>, <<f>>>> \o Folder(env, id), <<>>), c, Params)
  BY <1>1, RowIs
<1> DEFINE p == r.path
<1>5. /\ IsExact(r) \/ IsGlob(r)
      /\ p = Append(<<<<"kv">>, <<f>>>> \o Folder(env, id), <<>>)
      /\ r.caps = c /\ r.takes = Params
  BY <1>4 DEF RowOf
<1> HIDE DEF p
<1>6. CASE env = Unknown
  <2>1. Folder(env, id) = <<<<"customers">>, id>>
    BY <1>6 DEF Folder
  <2>2. <<<<"kv">>, <<f>>>> \o <<<<"customers">>, id>> = <<<<"kv">>, <<f>>, <<"customers">>, id>>
    BY Concat22
  <2>3. Append(<<<<"kv">>, <<f>>, <<"customers">>, id>>, <<>>) = <<<<"kv">>, <<f>>, <<"customers">>, id, <<>>>>
    BY Append4
  <2>4. p = <<<<"kv">>, <<f>>, <<"customers">>, id, <<>>>>
    BY <1>5, <2>1, <2>2, <2>3
  <2>5. Len(p) = 5 /\ p[1] = <<"kv">> /\ p[2] = <<f>> /\ p[3] = <<"customers">>
    BY <2>4
  <2> QED BY <1>5, <2>5 DEF OwnRow, p
<1>7. CASE env # Unknown
  <2>1. Folder(env, id) = <<<<"envs">>, env, <<"customers">>, id>>
    BY <1>7 DEF Folder
  <2>2. <<<<"kv">>, <<f>>>> \o <<<<"envs">>, env, <<"customers">>, id>> = <<<<"kv">>, <<f>>, <<"envs">>, env, <<"customers">>, id>>
    BY Concat24
  <2>3. Append(<<<<"kv">>, <<f>>, <<"envs">>, env, <<"customers">>, id>>, <<>>)
          = <<<<"kv">>, <<f>>, <<"envs">>, env, <<"customers">>, id, <<>>>>
    BY Append6
  <2>4. p = <<<<"kv">>, <<f>>, <<"envs">>, env, <<"customers">>, id, <<>>>>
    BY <1>5, <2>1, <2>2, <2>3
  <2>5. /\ Len(p) = 7 /\ p[1] = <<"kv">> /\ p[2] = <<f>> /\ p[3] = <<"envs">> /\ p[4] = env
        /\ p[5] = <<"customers">> /\ p[6] = id
    BY <2>4
  <2>6. env \notin {<<"*">>, Plus} /\ id \notin {<<"*">>, Plus}
    BY <1>2, <1>3, <1>7, NotWild
  <2> QED BY <1>5, <2>5, <2>6 DEF OwnRow, p
<1> QED BY <1>6, <1>7

LEMMA TokenGuard == ASSUME NEW r, TokenRow(r) PROVE GuardRow(r)
<1>1. \A k \in Kinds : TenantCaps(k, r.path) = TokenCaps(r.path)
  BY DEF TokenRow, TenantCaps
<1> QED BY <1>1 DEF TokenRow, GuardRow

LEMMA GuardRows == ASSUME NEW r \in Self \union TenantDenies PROVE GuardRow(r)
<1>1. CASE r \in Self \union {DenyTokenCreate}
  BY <1>1, SelfRow, CreateRow, TokenGuard
<1>2. ASSUME NEW f, NEW s, r = DenyBelow(<<<<"kv">>, <<f>>, s>>) PROVE GuardRow(r)
  <2>1. RowOf(r, Append(<<<<"kv">>, <<f>>, s>>, <<>>), {"deny"}, Params)
    BY <1>2, RowIs
  <2>2. Len(r.path) = 4 /\ r.path[1] = <<"kv">>
    BY <2>1, RowFolder
  <2>3. \A k \in Kinds : TenantCaps(k, r.path) = {"deny"}
    BY <2>2 DEF TenantCaps
  <2>4. (IsExact(r) \/ IsGlob(r)) /\ r.caps = {"deny"} /\ r.takes = Params
    BY <2>1 DEF RowOf
  <2> QED BY <2>2, <2>3, <2>4 DEF GuardRow
<1>3. ASSUME NEW m, <<TenantMount(m)>> # <<"token">>, r = DenyBelow(RolePath(m)) PROVE GuardRow(r)
  <2>1. RowOf(r, Append(RolePath(m), <<>>), {"deny"}, Params)
    BY <1>3, RowIs
  <2>2. Len(r.path) = 4 /\ r.path[1] = <<"auth">> /\ r.path[2] = <<TenantMount(m)>> /\ r.path[3] = <<"role">> /\ r.path[4] = <<>>
    BY <2>1, RowRole
  <2>3. \A k \in Kinds : TenantCaps(k, r.path) = {"deny"}
    BY <2>2, <1>3 DEF TenantCaps
  <2>4. (IsExact(r) \/ IsGlob(r)) /\ r.caps = {"deny"} /\ r.takes = Params
    BY <2>1 DEF RowOf
  <2> QED BY <2>2, <2>3, <2>4 DEF GuardRow
<1>4. ASSUME NEW m, <<m>> # <<"auth">>, r = DenyBelow(<<<<m>>>>) PROVE GuardRow(r)
  <2>1. RowOf(r, Append(<<<<m>>>>, <<>>), {"deny"}, Params)
    BY <1>4, RowIs
  <2>2. Len(r.path) = 2 /\ r.path[1] = <<m>> /\ r.path[2] = <<>>
    BY <2>1, RowBelow1
  <2>3. \A k \in Kinds : TenantCaps(k, r.path) = {"deny"}
    BY <2>2, <1>4 DEF TenantCaps
  <2>4. (IsExact(r) \/ IsGlob(r)) /\ r.caps = {"deny"} /\ r.takes = Params
    BY <2>1 DEF RowOf
  <2> QED BY <2>2, <2>3, <2>4 DEF GuardRow
<1>5. ASSUME r = Deny(Words(<<"kv", "config">>)) PROVE GuardRow(r)
  <2>1. RowOf(r, Words(<<"kv", "config">>), {"deny"}, Params)
    BY <1>5, RowIs
  <2>2. Len(r.path) = 2 /\ r.path[1] = <<"kv">> /\ r.path[2] = <<"config">>
    BY <2>1, RowWords2
  <2>3. \A k \in Kinds : TenantCaps(k, r.path) = {"deny"}
    BY <2>2 DEF TenantCaps
  <2>4. (IsExact(r) \/ IsGlob(r)) /\ r.caps = {"deny"} /\ r.takes = Params
    BY <2>1 DEF RowOf
  <2> QED BY <2>2, <2>3, <2>4 DEF GuardRow
<1>6. CASE r \in {DenyBelow(<<<<"sys">>>>), DenyBelow(<<<<"identity">>>>)}
  <2>1. <<"sys">> # <<"auth">> /\ <<"identity">> # <<"auth">>
    OBVIOUS
  <2> QED BY <1>6, <1>4, <2>1
<1>7. CASE \E k \in Kinds : r = DenyBelow(RolePath(k))
  <2>1. \A k \in Kinds : <<TenantMount(k)>> # <<"token">>
    BY DEF TenantMount
  <2> QED BY <1>7, <1>3, <2>1
<1>8. CASE \E f \in Families : r = DenyBelow(<<<<"kv">>, <<f>>, Top>>)
  BY <1>8, <1>2
<1> QED BY <1>1, <1>5, <1>6, <1>7, <1>8 DEF TenantDenies

LEMMA TenantRows ==
    ASSUME token \in Tokens, NEW k \in Kinds, token.policy = TenantPolicy(k),
           NEW r \in RenderPolicy(token.policy)
    PROVE  GuardRow(r) \/ (OwnRow(r) /\ r.takes = Params /\ r.caps = OwnCaps(k, r.path[2]))
<1>1. ASSUME NEW f \in Families, NEW c, r \in Own(f, c), c = OwnCaps(k, <<f>>)
      PROVE  OwnRow(r) /\ r.takes = Params /\ r.caps = OwnCaps(k, r.path[2])
  <2>1. OwnRow(r) /\ r.caps = c /\ r.takes = Params /\ r.path[2] = <<f>>
    BY <1>1, OwnRows
  <2> QED BY <1>1, <2>1
<1>2. /\ {"data", "metadata", "delete", "undelete", "destroy"} = Families
      /\ \A f \in Families : (f = "data" <=> <<f>> = <<"data">>) /\ (f = "metadata" <=> <<f>> = <<"metadata">>)
  BY DEF Families
<1>3. CASE k = "reader"
  <2>1. RenderPolicy(token.policy) = TenantReader
    BY <1>3 DEF RenderPolicy, TenantPolicy
  <2>2. OwnCaps(k, <<"data">>) = {"read"} /\ OwnCaps(k, <<"metadata">>) = {"read", "list"}
    BY <1>3, <1>2 DEF OwnCaps
  <2>3. CASE r \in Self \union TenantDenies
    BY <2>3, GuardRows
  <2>4. CASE r \in Own("data", {"read"})
    BY <2>4, <2>2, <1>1, <1>2
  <2>5. CASE r \in Own("metadata", {"read", "list"})
    BY <2>5, <2>2, <1>1, <1>2
  <2> QED BY <2>1, <2>3, <2>4, <2>5 DEF TenantReader
<1>4. CASE k # "reader"
  <2>1. RenderPolicy(token.policy) = TenantWriter
    BY <1>4 DEF RenderPolicy, TenantPolicy
  <2>2. /\ OwnCaps(k, <<"data">>) = Caps \ {"sudo"} /\ OwnCaps(k, <<"metadata">>) = Managed \union {"list"}
        /\ \A f \in {"delete", "undelete", "destroy"} : OwnCaps(k, <<f>>) = {"update"}
    BY <1>4, <1>2 DEF OwnCaps
  <2>3. CASE r \in Self \union TenantDenies
    BY <2>3, GuardRows
  <2>4. CASE r \in Own("data", Caps \ {"sudo"})
    BY <2>4, <2>2, <1>1, <1>2
  <2>5. CASE r \in Own("metadata", Managed \union {"list"})
    BY <2>5, <2>2, <1>1, <1>2
  <2>6. ASSUME NEW f \in {"delete", "undelete", "destroy"}, r \in Own(f, {"update"})
        PROVE  OwnRow(r) /\ r.takes = Params /\ r.caps = OwnCaps(k, r.path[2])
    BY <2>6, <2>2, <1>1, <1>2
  <2> QED BY <2>1, <2>3, <2>4, <2>5, <2>6 DEF TenantWriter
<1> QED BY <1>3, <1>4

LEMMA GuardLint == ASSUME NEW name, NEW r, GuardRow(r) PROVE LintRule(name, r)
<1>1. r.caps = TenantCaps("reader", r.path)
  BY DEF GuardRow, Kinds
<1>2. r.path[1] = <<"auth">> \/ r.caps = {"deny"}
  BY DEF GuardRow
<1>3. r.caps = {"deny"} \/ r.caps \in {{"read"}, {"update"}}
  <2>1. <<"auth">> # <<"kv">>
    OBVIOUS
  <2> QED BY <1>1, <1>2, <2>1 DEF TenantCaps, TokenCaps
<1>4. CapsPass(name, r.caps)
  BY <1>3, OrderedCaps
<1>5. r.caps = {"deny"} \/ r.path[1] \notin {<<>>, <<"*">>, <<"kv">>}
  <2>1. <<"auth">> \notin {<<>>, <<"*">>, <<"kv">>}
    OBVIOUS
  <2> QED BY <1>2, <2>1
<1>6. Len(r.path) \in Nat /\ Len(r.path) >= 1
  <2>1. Len(r.path) \in 2..4
    BY DEF GuardRow
  <2> QED BY <2>1
<1> QED BY <1>4, <1>5, <1>6, LintElsewhere

\* A grant on the tenant's folder names a family and, below the envs, an env and a tenant.
LEMMA OwnLint == ASSUME NEW name, NEW k \in Kinds, NEW r, OwnRow(r), r.caps = OwnCaps(k, r.path[2]) PROVE LintRule(name, r)
<1> DEFINE n == Len(r.path)
           seg(i) == IF i > n THEN <<>> ELSE Segment(r, i)
<1>1. CapsPass(name, r.caps)
  <2>1. r.caps \in {{"read"}, {"read", "list"}, {"update"}, Caps \ {"sudo"}, Managed \union {"list"}}
    BY DEF OwnCaps
  <2> QED BY <2>1, OrderedCaps
<1>2. (n = 5 \/ n = 7) /\ r.path[1] = <<"kv">> /\ r.path[2] \in {<<f>> : f \in Families}
  BY DEF OwnRow
<1>3. seg(1) = r.path[1] /\ seg(2) = r.path[2] /\ seg(3) = r.path[3]
  <2>1. ASSUME NEW i, i \in 1..3 PROVE seg(i) = r.path[i]
    <3>1. n = 5 \/ n = 7
      BY <1>2
    <3>2. seg(i) = IF i > n THEN <<>> ELSE Segment(r, i)
      OBVIOUS
    <3>3. Segment(r, i) = IF r.glob /\ i = n /\ r.path[i] = <<>> THEN <<"*">> ELSE r.path[i]
      BY DEF Segment
    <3> HIDE DEF n, seg
    <3>4. ~(i > n) /\ i # n
      BY <3>1, <2>1
    <3> QED BY <3>2, <3>3, <3>4
  <2> HIDE DEF seg
  <2>2. 1 \in 1..3 /\ 2 \in 1..3 /\ 3 \in 1..3
    OBVIOUS
  <2> QED BY <2>1, <2>2
<1>4. n = 7 => seg(5) = r.path[5] /\ Segment(r, 4) = r.path[4] /\ Segment(r, 6) = r.path[6]
  BY DEF Segment
<1>5. seg(1) # <<"*">> /\ n # 3 /\ n # 4
  <2> HIDE DEF seg, n
  <2>1. <<"kv">> # <<"*">>
    OBVIOUS
  <2>2. seg(1) = <<"kv">>
    BY <1>2, <1>3
  <2> QED BY <1>2, <2>1, <2>2
<1>6. seg(2) \in {<<f>> : f \in Families \union {"config", "subkeys"}}
  BY <1>2, <1>3
<1>7. n >= 4 /\ seg(3) = <<"envs">> =>
          n >= 6 /\ IsLiteral(r, 4) /\ seg(5) = <<"customers">> /\ IsLiteral(r, 6)
  <2> SUFFICES ASSUME seg(3) = <<"envs">>
               PROVE  n >= 6 /\ IsLiteral(r, 4) /\ seg(5) = <<"customers">> /\ IsLiteral(r, 6)
    OBVIOUS
  <2>1. <<"customers">> # <<"envs">>
    OBVIOUS
  <2>2. /\ n = 7 /\ r.path[5] = <<"customers">>
        /\ r.path[4] \notin {<<"*">>, Plus} /\ r.path[6] \notin {<<"*">>, Plus}
    BY <1>3, <2>1 DEF OwnRow
  <2>3. n >= 6
    BY <2>2
  <2>4. IsLiteral(r, 4) /\ IsLiteral(r, 6)
    BY <1>4, <2>2 DEF IsLiteral
  <2>5. seg(5) = <<"customers">>
    BY <1>4, <2>2
  <2> QED BY <2>3, <2>4, <2>5
<1> HIDE DEF seg, n
<1>8. /\ ~(n = 3 /\ seg(2) \in {<<"data">>, <<"metadata">>} /\ seg(3) = <<"*">>)
      /\ ~(n = 4 /\ seg(3) = <<"customers">> /\ seg(4) = <<"*">>)
  BY <1>5
<1>9. /\ r.caps # {} /\ r.caps \subseteq Caps \union {"deny"}
      /\ "deny" \in r.caps => r.caps = {"deny"}
      /\ "sudo" \in r.caps => name = "operator"
  BY <1>1 DEF CapsPass
<1> DEFINE Q == /\ seg(2) \in {<<f>> : f \in Families \union {"config", "subkeys"}}
                /\ ~(n = 3 /\ seg(2) \in {<<"data">>, <<"metadata">>} /\ seg(3) = <<"*">>)
                /\ ~(n = 4 /\ seg(3) = <<"customers">> /\ seg(4) = <<"*">>)
                /\ n >= 4 /\ seg(3) = <<"envs">> =>
                     n >= 6 /\ IsLiteral(r, 4) /\ seg(5) = <<"customers">> /\ IsLiteral(r, 6)
<1>10. Q
  BY <1>6, <1>7, <1>8
<1> HIDE DEF Q
<1>11. /\ r.caps # {} /\ r.caps \subseteq Caps \union {"deny"}
       /\ "deny" \in r.caps => r.caps = {"deny"}
       /\ "sudo" \in r.caps => name = "operator"
       /\ r.caps # {"deny"} => seg(1) # <<"*">>
       /\ r.caps # {"deny"} /\ seg(1) = <<"kv">> => Q
  BY <1>5, <1>9, <1>10
<1> QED BY <1>11 DEF LintRule, Q, seg, n

LEMMA TenantPass ==
    ASSUME token \in Tokens, NEW k \in Kinds, token.policy = TenantPolicy(k)
    PROVE  Lint(token.policy, RenderPolicy(token.policy))
<1> DEFINE rules == RenderPolicy(token.policy)
<1>1. rules # {}
  <2>1. rules = TenantReader \/ rules = TenantWriter
    BY DEF RenderPolicy, TenantPolicy
  <2>2. TenantReader # {} /\ TenantWriter # {}
    BY DEF TenantReader, TenantWriter, Self
  <2> QED BY <2>1, <2>2
<1>2. ASSUME NEW r \in rules PROVE LintRule(token.policy, r)
  <2>1. GuardRow(r) \/ (OwnRow(r) /\ r.caps = OwnCaps(k, r.path[2]))
    BY TenantRows
  <2> QED BY <2>1, GuardLint, OwnLint
<1>3. ASSUME NEW r \in rules
      PROVE  (IsExact(r) \/ IsGlob(r)) /\ r.takes = Params /\ r.caps = TenantCaps(k, r.path)
  <2>1. CASE GuardRow(r)
    BY <2>1 DEF GuardRow
  <2>2. CASE OwnRow(r) /\ r.takes = Params /\ r.caps = OwnCaps(k, r.path[2])
    <3>1. r.path[1] = <<"kv">> /\ (Len(r.path) = 5 \/ Len(r.path) = 7)
      BY <2>2 DEF OwnRow
    <3>2. r.path[1] = <<"kv">> /\ Len(r.path) > 4 /\ <<"kv">> # <<"auth">>
      <4>1. \A n : n = 5 \/ n = 7 => n > 4
        OBVIOUS
      <4>2. Len(r.path) > 4
        BY <3>1, <4>1
      <4>3. <<"kv">> # <<"auth">>
        OBVIOUS
      <4> QED BY <3>1, <4>2, <4>3
    <3>3. TenantCaps(k, r.path) = OwnCaps(k, r.path[2])
      BY <3>2 DEF TenantCaps
    <3> QED BY <2>2, <3>3 DEF OwnRow
  <2> QED BY <2>1, <2>2, TenantRows
<1>4. ASSUME NEW r \in rules, NEW s \in rules, r.path = s.path, r.glob = s.glob PROVE r = s
  <2>1. /\ IsExact(r) \/ IsGlob(r)
        /\ IsExact(s) \/ IsGlob(s)
        /\ r.takes = s.takes /\ r.caps = s.caps
    BY <1>3, <1>4
  <2> QED BY <1>4, <2>1, RowSame
<1> HIDE DEF rules
<1>5. Lint(token.policy, rules)
  BY <1>1, <1>2, <1>4 DEF Lint
<1> QED BY <1>5 DEF rules

-----------------------------------------------------------------------------
\* Whatever policy a token has, in either mode and for any env and tenant, its rendered
\* template passes the lint: no rule grants what the lint refuses, and no two rules are for
\* one path.  (Configure, LintPolicy)
THEOREM EveryTemplatePasses == ASSUME token \in Tokens PROVE Lint(token.policy, RenderPolicy(token.policy))
<1>1. CASE token.policy = "provisioning"
  <2>1. Provisioning # {}
    BY DEF Provisioning
  <2> QED BY <1>1, <2>1, ProvisioningSetup, SetupPasses, PolicyNames
<1>2. CASE token.policy = "apps-auth"
  <2>1. AppsAuth # {}
    BY DEF AppsAuth
  <2> QED BY <1>2, <2>1, AppsAuthSetup, SetupPasses, PolicyNames
<1>3. CASE token.policy = "operator"
  BY <1>3, OperatorPasses, PolicyNames
<1>4. ASSUME NEW k \in Kinds, token.policy = AppsPolicy(k) PROVE Lint(token.policy, RenderPolicy(token.policy))
  BY <1>4, AppsPass, PolicyNames
<1> QED BY <1>1, <1>2, <1>3, <1>4, TenantPass, TokenIs

\* Configure is never stopped by the lint of a template.  (Configure)
THEOREM TemplatesAlways == Spec => []TemplatesPass
<1>1. AnswerInv => TemplatesPass
  BY EveryTemplatePasses DEF AnswerInv, TemplatesPass
<1> QED BY <1>1, Answers, PTL

=============================================================================
