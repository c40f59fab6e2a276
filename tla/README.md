# Verification of vault-cluster

TLA+ modules, TLC runs and TLAPS proofs about the coordination logic of this
repository: how several machines initialise one Vault, how they join and leave
it under an Auto Scaling group, how their services live on one operator token, how
administrators mint and give up root tokens, how pipelines create and destroy tenants,
what the policies let each token do, and how snapshots are taken and restored.
Most of it is Go code that does a sequence of remote calls without locks; what can
go wrong lies between the calls.

`PROJECT.json` lists the components, the runs, the mutants each property was
tried against, the hazards, the theorems, and the source lines of every definition.

## 1. Inventory

| Component | State | Operations | Talks to |
|---|---|---|---|
| Bootstrap (`internal/vaultcluster/bootstrap.go`) | locals of one process per node: what it saw of the seal status, whether it leads, the init response | `RunBootstrap`: ensureInitialized, waitUnsealed, waitPeerBootstrap, Configure, issueOrphanToken, revocation | its own Vault, the claim, the three secrets |
| Init claim (`ClaimInit`, `internal/aws/s3/snapshot.go`) | one S3 object with a node ID | put-if-absent, get, unconditional put | S3 |
| Key stores (`keystore.go`, `internal/aws/secretsmanager`) | init material, provisioning token, operator token | load, save | files or Secrets Manager |
| Platform configuration (`configure.go`) | audit, auth mounts, KV mount, policies in Vault | upserts | Vault |
| Lifecycle hooks (`lifecycle.go`, `internal/aws/asg`, `asg.tf`) | `left` and `continued` flags, the leave deadline | poll, complete launch, leave with retries, complete terminate | Auto Scaling, Raft membership |
| Raft membership (`raftpeers.go`, `health_raft.go`) | none of its own | NodeHealthOK, LeaveRaft (step down, wait, remove, look again) | Vault's Raft API |
| Operator token use (`withToken`, `useOperatorToken`, `token.go`, the two serve loops) | the token a process holds, its renewal ticker; the token's remaining life in Vault | load or exit, load when missing, forget on 403, renew | key store, Vault |
| Break-glass (`breakglass.go`, `cmd/vault-utils/breakglass.go`, `tokenhelper.go`) | the token store of an account; Vault's generate-root attempt | begin, end | Vault, key store |
| Tenants and envs (`tenant.go`, `tenantlist.go`, `envs.go`) | AppRole roles, identity entities, aliases, KV secrets in Vault | create, destroy, envs destroy, list, login | Vault |
| Policies (`policy.go`, templates, `lint.go`) | static text | render, lint | Vault |
| Snapshots (`snapshot.go`, `snapshot_schedule.go`, S3 part) | snapshot files and checksums | take, schedule, list, verify, restore | Vault, S3 or a directory |
| Health endpoint (`health.go`, `health_http.go`) | none | serve NodeHealthOK | Vault |
| Command line, Nullstone environment | none | parse, print | HTTP |

How they meet: bootstrap and `vault-configure` start a node; bootstrap writes the
secrets; lifecycle, health, snapshots and break-glass read the operator secret;
lifecycle lets the Auto Scaling group go on only when Raft says so; tenants are
created with the provisioning token that bootstrap has stored.

What is hard, and what makes each part correct:

* **Bootstrap.** Every node runs the same program; nodes crash, reboot, get lost,
  read a seal status that is stale a moment later, and may find secrets of an
  earlier deployment.  Correct: one cluster (`SoleCluster`), whose key material is
  not lost (`KeyMaterialKept`); one claim holder (`ClaimStays`); success means
  configured (`FinishedMeansConfigured`); the root is given up last
  (`RevokedAfterSaved`); repeated runs finish (`Recovers`, `Completes`).
* **Lifecycle and Raft.** Readiness, leadership and the voter count are read and
  then acted on, by several leavers at once; hooks time out; processes restart
  and forget their flags.  Correct: an instance in service votes
  (`InServiceIsVoter`); a refresh keeps the copies of the data and the quorum
  (`RefreshKeepsCopies`, `RefreshKeepsQuorum`); a departure is decided before the
  hook continues and a left node stays out (`DepartureDecided`); nobody is held
  forever (`Departs`, `EntersService`).
* **Break-glass.** Vault has one generate-root attempt for everybody; a failed begin
  cancels whatever attempt there is.  Correct: the token a begin returns is its own
  (`TokenIsOwn`), attempts are not left behind (`AttemptHasOwner`), live roots are
  held by somebody whatever fails or overlaps, up to those the code does not go after
  (`NoStrayRoot`), and are not erased while they work (`ErasedIsRevoked`).
* **Tenants.** Create is ten calls, destroy is four or more, logins make entities of
  their own in between.  Correct: a token reaches only its own tenant
  (`Isolation`); create ends in a usable tenant (`Onboarded`); destroy ends access
  (`Offboarded`); purge is final (`PurgeIsFinal`).
* **Policies.** Several rules fit a path and Vault takes the best one; an env or a tenant
  may have a name that begins with another's; the same templates serve both modes.
  Correct: secrets are only reached by their tenant (`SecretsOfOneTenant`), roles carry no
  other policy (`RolesPinned`), an app stays in its env (`BrokersInEnv`), nobody changes
  the platform (`PlatformUnchanged`), and yet every call the program makes is permitted
  (`CommandsPermitted`) and every template passes the lint (`TemplatesPass`).
* **Operator token.** Three services of every node start while bootstrap may still be at
  work, hold what they have read, and are the only ones to keep a token alive that expires
  a day after its last renewal.  Correct: it does not expire while somebody is able to renew
  it (`TokenLasts`); a service started too early comes to hold it (`ServicesComeUp`).
* **Snapshots.** Every node decides by itself whether it leads and takes the snapshot; data
  and checksum are two writes under a name of one second; a local file is truncated before it
  is written; restore reads a file twice.  Correct: what was reported written can be restored
  (`ReportedVerifies`); a tick ends in one snapshot (`OneSnapshotPerTick`); Vault is never asked to
  take in part of one (`RestoredWhole`); the listing starts with the newest (`NewestListed`).

## 2. Modules

| Module | Models | Lines it stands for |
|---|---|---|
| `ClusterInit` | abstract: one cluster is initialised, entrusted, prepared, granted its tokens, and its root retired, in that order | the promise of `RunBootstrap` |
| `Bootstrap` | `RunBootstrap` on every node, `ClaimInit`, the key store, systemd, KMS unseal, `retry_join` | bootstrap.go, s3/snapshot.go, node units |
| `Bootstrap_proofs` | theorems about `Bootstrap` | |
| `BootstrapRefinement` | the theorem that `Bootstrap` implements `ClusterInit` | |
| `Lifecycle` | `RunLifecycle`, `LeaveRaft`, `NodeHealthOK`, the Auto Scaling group, Raft | lifecycle.go, raftpeers.go, health_raft.go, asg.go, asg.tf |
| `Lifecycle_proofs` | theorems about `Lifecycle` | |
| `Services` | the services of every node, their tokens and tickers | main.go, token.go, vault-node/files/*.service |
| `Services_proofs` | theorems about `Services` | |
| `BreakGlass` | begin and end from several terminals | breakglass.go (both), tokenhelper.go |
| `BreakGlass_proofs` | theorems about `BreakGlass` | |
| `Tenants` | create, destroy, envs destroy, logins, writes | tenant.go, tenantlist.go, envs.go, policy.go |
| `Tenants_proofs` | that no token reaches another tenant; what create, destroy and purge leave | |
| `Policies` | the seven templates, the lint, the calls each token makes, Vault's decision | policy.go, templates/*.hcl.tpl, lint.go, the call sites |
| `Policies_proofs` | theorems about `Policies` | |
| `Snapshots` | schedule, take, list, verify and restore, on S3 or a directory | main.go, snapshot.go (both), snapshot_schedule.go |
| `Snapshots_proofs` | theorems about `Snapshots` | |
| `MC*` | small sets, symmetry | |

### Bootstrap
One action per remote call: `Start` (WaitReady), `ReadSealStatus`, `LoadMaterial` or
`MissMaterial` (the first LoadInit), `PutIfAbsent`, `ReadClaim`, `PutClaim` (ClaimInit),
`InitVault`, `SaveInit`, `SubmitShares`/`AutoUnseal`, `CheckToken` (the early return at
lines 49-56), `LoadRoot`, `Configure`, `IssueToken`, `SaveToken`, `RevokeRoot`,
`MarkRevoked`.  What a process read stays in `sawInit`, `found`, `leader`, `mem`, so a
later step acts on old knowledge exactly as the code does.  A cluster is named by the
node that initialised it; a token is the cluster it belongs to and whether it works.
`Exit` forgets the locals: systemd starts the process again.  Waits may expire in any
state (`Expires`), because the last poll precedes the deadline; an expiry on a condition
that has come true counts against `MaxFailures`.  So does an `InitVault` that Vault carries out
and reports as an error: the seal status then says initialised, and the node goes on without
the key material (bootstrap.go:210-213).  `Configure` is one step, since
its calls are upserts that a later run repeats.  `platform` is chosen in `Init`: on the local one
a single node takes part, its Vault is opened with shares, and its key store is a
directory whose files a crash can cut short (`Tear`).

### Lifecycle
One action per remote call of the poll loop and of `LeaveRaft`.  `Poll` reads the hook
state, which Auto Scaling may report late (`Seen`); `ReadPeers` reads the voters and
whether the node leads, and the later `StepDown`, `AwaitLeader`, `RemovePeer` and
`Recheck` act on that; a removal may be carried out and still be reported as an error.  The group launches, retires old instances once new ones are in
service, evicts, lets hooks expire and loses instances; a hook that expires on
launch abandons the instance, one on terminate lets it go.  The Raft part (join, catch up,
promotion, election) is external and only as strong as the code uses it: writes need a
leader and a quorum of the voters.  `withToken` is `Held`/`UseToken`: a process forgets
its token on an error and reads the secret again.

### Services
A service is a node and a kind (health, schedule, lifecycle).  `Start` is the load of the
token at the start, without which health and schedule exit; lifecycle starts with none and
gets it in `WithToken`, which forgets it on a 403.  Time is counted in renewal intervals
(`tokenRenewInterval`, an hour; `Period` is 24 of them in the code): in an `Hour` every ticker fires
(`due`), and a `Renew` sets the token back to a full period if Vault knows the token and
answers.  `idle` and `steady` are history and count hours, not successes: a service is
*steady* once it has held this cluster's token, with Vault answering, through two hours, whether its loop
renews or not; `idle` counts the hours without any steady service.

### BreakGlass
An attempt is a number that stands for its nonce, its OTP and the token it mints.  Vault
has one `attempt` and its `progress`; a share with another nonce is refused.
`CancelAttempt` is the deferred cancel, which names no attempt and so ends whichever is
in progress.  A call may be refused without an effect (`MaxRefusals`), a process may be
killed, the answer of a call that was carried out lost, a cancel fail or Vault restart
(`MaxFaults`).  `abandoned` is history: the roots a failure took from their holder and nothing
in the code goes after.

### Tenants
A role ID is named by tenant, kind and how many roles that place has had, so a re-made
role has another.  An entity is named as the code names it; its incarnation matters
only to a create that has read its ID, hence `known`.  `Login` binds a role ID that
has no alias to an entity of Vault's own (`Implicit`), whose tokens the shared policies let
reach nothing.  `WriteAlias` succeeds, or is refused where Vault may refuse it.
Purge is a list and then deletions, with one secret per tenant; the folders of an env are
listed as one.  `dirty` and `settled` are history: a command's outcome counts for a tenant
only if no other command on that tenant ran meanwhile (two creates do not disturb each
other).  On an unshared cluster the policies take the tenant from the role name.

### Snapshots
A snapshot is named by its number and so is its checksum; a partial or mixed file is `Cut`.
The name of a snapshot is the second of the clock at which `PutData` runs.  An S3 put is one
step that may be carried out although it reports an error (`WriteFails`); `os.WriteFile` is a
truncation and then a fill.  `Wake`, `Look`, `RaftSnapshot`, `PutData`, `PutSum` are a scheduled
taker; shells start at `StartTake`.  `StatSum`, `GetData`, `GetSum`, `Reread`, `Submit` are a restore, in
the two orders of `GetSnapshot` and `SnapshotRestore`.  `looks`, `failed` and the tick of a
report are history: which node looked at which tick in which term, for which ticks a call or a
write failed, and for which a snapshot was reported written.  `Listed` is what one page of
ListObjectsV2, or the directory, gives.  The cron expression is a period of seconds.

### Policies
A pure module: `Init` chooses a mode, a token and a request, `Decide` answers it.  A name is
a sequence of atoms, so that one name can begin with another without being it, and a path is
a sequence of names.  A rule is a path, whether it ends in a glob, its capabilities and the
parameters it takes; `allowed_parameters` and `denied_parameters` both come down to that set,
over the parameters the properties tell apart.  One operator per template
(`Provisioning`, `Operator`, `AppsAuth`, `Apps`, `TenantReader`, `TenantWriter`); a template
of an identity that lacks the metadata renders no rule for it.  `Exact`, `Glob`, `Fits`,
`Wildcard`, `NoBetter` and `Granted` are Vault's choice of the best rule and are external, as
is `Default`.  `LintRule` and `Lint` work on
rules, so the HCL parser and its messages are left out.  A policy is a set of rules, so a rule
that a template repeats word for word, which the lint refuses (lint.go:129), is one rule here; a
path repeated with other capabilities or parameters is seen.  `Runs` is what the program asks
for with each token, call by call: that is what must be granted.  `Requests` is what else
might be asked for.  The roles of the aws and gcp mounts are in `AppsAuth`, but no property
is about them.

## 3. Runs

| Run | Instance | Shows |
|---|---|---|
| BootstrapRace | 2 AWS nodes, or 1 local node; fresh or leftover claim, material and tokens; 2 failures, 1 takeover, 1 expired token, 1 lost node, 1 torn file | all safety properties |
| BootstrapLive | both platforms, fresh claim, leftover secrets allowed; 2 failures, 1 expiry, 1 loss; fairness | completion, recovery, `Bootstrap` implements `ClusterInit` |
| BootstrapRootLeft | 2 nodes, 1 failure | finding 1 |
| LifecycleRefresh | group of 1, pool of 2; 1 error, 1 lapse, 1 eviction, 1 expired hook, 1 sudden death; any operator secret; fairness | all lifecycle properties |
| LifecycleLeaderRemoved | group of 2, pool of 3, 2 evictions | finding 2 |
| Services | 2 nodes, each with health and lifecycle; a period of 5 hours; the secret empty or of an earlier cluster; any crashes and outages; fairness | the operator token lasts, services come up |
| BreakGlassRace | 2 administrators with a store each; 2 of 3 shares; 4 attempts, 2 refusals, 1 fault | all break-glass properties |
| BreakGlassOverwrite | 1 administrator, 1 refusal | finding 3 |
| TenantsRace | 2 pipelines, 2 envs or none, 1 ID; 3 commands, 2 logins, 1 failure | all tenant properties |
| PoliciesBoth | both modes; 2 envs and 2 IDs, one beginning with the other; every token with and without its metadata | every request of `Requests` and `Runs` against every token |
| Snapshots | 2 nodes and an administrator; S3 or a directory; 4 seconds, a tick every 2; 2 snapshots read, 1 election, 1 fault; pages of 5 keys | all snapshot properties |
| SnapshotsPaged | S3 only, pages of 3 keys, 5 seconds, no fault | finding 4 |

Why the bounds are enough to be interesting.  Two nodes are what a claim race
needs: a holder and a loser; two failures let a process die twice or both die once, at
any of their calls.  A pool of one more instance than the group is what a refresh
needs; there two leave at once only when one is evicted.  Three nodes with two evictions make
leavers overlap with a leader among them, and the theorems of section 6 cover every group and
refreshes with any number of leavers.  In `Services` two nodes let one hold an earlier cluster's
token while the other renews; of the two kinds that load the token at the start one is
enough, since they do it alike; 5 hours leave room for three without a renewal.
Two terminals are the racing pair over one attempt, and four attempts let each begin
twice.  Three tenant commands let a create and a destroy race and a third meet what
they left; two logins put one on each side of an unlink; two roles per place let a
role be re-made.  Two names, one the beginning of the other, are what a rule that is
not closed by a separator confuses.  Two snapshots in one second mix and in two are ordered;
a page of 5 keys holds the claim and both, and an election comes before, between or after
the looks of a tick.  Counters in the guards (`failures`, `errors`, `commands`, `faults`, ...) are
the only cuts: each counts something the world does, never a step the code takes by itself.

Every passing property has a mutant: a definition ending in `_Something` beside the
definition it would replace, changed the way a plausible bug would.  TLC finds the
property violated with it.  The mutants are not part of any specification.

The larger safety runs use symmetry over nodes, or envs and pipelines; no
liveness run does.  Deadlock is checked everywhere: a quiet system stutters by an action
of its own (`Finished`, `Quiet`, `PoolExhausted`, `Answered`, `Over`), and only in states where the program
really has nothing to do or the run is over.

### Fairness
`Bootstrap`: weak fairness of each node's `Step`, since systemd restarts the unit
(`Restart=on-failure`) and the process never stops by itself, and of joining and
unsealing, which Vault retries.  The local container is not restarted (compose says
`restart: "no"`): there fairness stands for whoever runs it again.
A wait's poll (`MaterialPoll`) and crashes are not fair.
`Lifecycle`: weak fairness of each process's step and of its deadline (a clock), of
Auto Scaling's termination of an instance whose hook has continued, of the Raft events
that Vault performs when it can, and of bootstrap storing the operator token.
AWS need not launch or retire anything.
`Services`: weak fairness of `Start` (the units restart after an error, and a secret that can be read
now and then) and of `Issue` (bootstrap ends).  Nobody owes the services a Vault that answers, a hook
to answer, or even an hour that goes by.
`BreakGlass`, `Tenants` and `Snapshots` are commands and ticks that nothing
retries, and `Policies` is one decision: no liveness is stated.

### Conditions on properties
* `SoleCluster`, `RevokedAfterSaved`, `KeyMaterialKept` and the refinement speak of *orderly* runs: nobody
  has taken over from a claim holder (section 5), and the claim did not start out empty.
  `KeyMaterialKept` also excepts a torn file and, for the material of an earlier
  deployment, a failed read.
* `Completes` supposes no failure and no leftover material, `Recovers` that the key
  material of this deployment has been stored and that neither the token expires nor a
  node is lost: the code has no answer to those two.
* `RefreshKeepsCopies` and `RefreshKeepsQuorum` speak of runs without evictions and sudden
  losses, the latter also of refreshes whose nodes manage to leave: terminating
  after the leave timeout is what the code chooses to do (lifecycle.go:101-121).
* `TokenLasts` supposes that in any `Period - 1` hours some service was steady.  One hour
  of two is what a ticker of unknown phase needs to fire once.
* `ServicesComeUp` supposes that the service has not found an earlier cluster's token, see section 5.
* `NoStrayRoot` excepts the roots in `abandoned`: the last share's answer lost, the new root's
  lookup refused, the revocation of an unsaved root failed, the process killed with the root in
  hand, the lookup of a saved root refused to a begin (finding 3).  It and `ErasedIsRevoked`
  suppose that each terminal has a token store of its own.
* `Offboarded` promises the end of tokens only for `tenants destroy` on a shared cluster; for
  `envs destroy` see section 5.
* `OneSnapshotPerTick` bounds the snapshots of a tick by the terms in which nodes looked at it.  It
  promises one when all nodes looked in one term and no call or write of the tick failed: when the
  leader moves between the looks, every node may find itself a follower.
* `ReportedVerifies` supposes that nobody else wrote in the same second and that nothing rotted;
  `RestoredWhole` excepts a local file without a checksum beside it, or disturbed after it was
  verified; `NewestListed` supposes that the prefix fits one page, which is finding 4.

## 4. Findings

1. **The root can stay live** (`RootRevokedWhenFinished`).  README.md:262 says the root is
   "Revoked when setup finishes".  If the leader dies between saving the provisioning token
   and revoking the root, its next run finds that token working and returns early
   (bootstrap.go:49-56).  When it dies between the two tokens, the operator token is never issued either.
2. **A leader removes itself** (`RemovalByStayer`).  raftpeers.go:74 says the removal is
   committed by a node that stays; leadership is read once, and a follower that was read
   as such may have been elected when it removes itself, because the other leaver stepped down.
3. **begin overwrites a saved root** (`SavedRootKept`).  README.md:379 says begin refuses
   while a root is saved; it does so only if the lookup of that token succeeds.
4. **The newest snapshot is not listed** (`ListNewestFirst`).  snapshot_test.go:70 (S3) asserts
   "list newest first"; `Store.List` reads one page of ListObjectsV2, whose order is
   oldest first, so beyond 1000 keys (two per snapshot, one for the claim) `snapshot list` shows the oldest ones.

## 5. Known and not covered by a run

* Two clusters.  main.go:39 says "Init once".  A loser of the claim that has waited five minutes for
  the holder's key material initialises its own Vault (bootstrap.go:131-137), also when the holder
  is only slow, and one `SaveInit` overwrites the other.  `SoleCluster` says that nothing else makes a
  second cluster; the code chooses this over waiting for ever.
* Two nodes that both read an empty claim both win it (s3/snapshot.go:119-128).  A claim is empty
  when a node whose ID is empty wrote it: main.go:505 passes `VAULT_RAFT_NODE_ID` unchecked.  The
  constant `ClaimStart` allows such a start, no run has it, and `SoleCluster`, `ClaimStays` and the
  refinement except it.
* A leader that took over does not hold the claim.  Restarted before it has finished, it
  asks `ClaimInit`, is told it does not lead, and waits for a token nobody writes.
* The claim holder lost for good before it has configured: the others time out and retry
  until somebody deletes the claim.
* A crash between Init and SaveInit loses the key material of an initialised Vault.  So does an
  Init that is carried out and reported as an error (bootstrap.go:210-213) and, locally, a crash
  while the key file is written: `FileKeyStore.write` truncates it first (keystore.go:59).  The
  rewrite that marks the root as revoked does that to the only copy of the shares, and its error
  is ignored (`_ = store.SaveInit`, bootstrap.go:91).
* health and schedule that find an earlier cluster's token keep it until they are
  restarted: health answers 503 "until" somebody does, not "until bootstrap completes"
  (vault-health.service:3-4), and their renewals fail.  lifecycle drops it at the first 403.  A
  follower's bootstrap ends with the provisioning token, which is saved before the
  operator token, so its services do start in that window.  lifecycle renews nothing
  until it has its first hook to answer.  If no service holds the new token the operator
  token expires after 24 hours.
* A create and a destroy of one tenant that race can leave an entity with a live token and
  no role.  `envs destroy` finds tenants by their roles (envs.go:41), so it passes such a tenant by
  and its token works until it expires (15 minutes by default), though README.md:221 says that it
  offboards every tenant of the env.  `tenants destroy` does delete the entity.
* Two administrators who begin at once end each other's attempt: `cancelStaleAttempt` takes any
  attempt Vault reports for one "left over from an earlier run" (breakglass.go:43, 119-123), and the
  deferred cancel names no nonce.  Nobody gets a root that is not theirs (`TokenIsOwn`).
* A begin whose lookup of the new root fails drops a live root; so does one that loses the answer
  of the last share, whose root nobody can decode.
* A snapshot taken before the root is revoked contains a live root token; restoring it brings
  that token back to life.
* Two processes that write snapshots in one second mix data and checksum, and the result does
  not verify.  A local restore takes a file without a checksum beside it as it is.

## 6. Proofs

TLAPS proves the theorems below for every set of nodes, terminals, pipelines, envs, tenants,
stores and every bound the assumptions allow.  The runs show the same properties on their
instances; the theorems do not depend on the runs.

| Module | Theorem | Statement |
|---|---|---|
| Bootstrap_proofs | `Typing`, `Finishing`, `OneCluster`, `NoLockout` | `Spec => []TypeOK`, `[]FinishedMeansConfigured`, `[]SoleCluster`, `[]RevokedAfterSaved` |
| | `ClaimKept`, `MaterialSafe` | `Spec => ClaimStays`, `KeyMaterialKept` (action properties) |
| BootstrapRefinement | `Refines` | `Spec /\ []Intact => ImplementsClusterInit` |
| Lifecycle_proofs | `LifecycleTyping`, `InServiceVotes`, `Departures`, `CopiesKept`, `QuorumKept` | `Spec => []TypeOK`, `[]InServiceIsVoter`, `[]DepartureDecided`, `[]RefreshKeepsCopies`, `[]RefreshKeepsQuorum` |
| Services_proofs | `ServicesTyping`, `TokenSurvives` | `Spec => []TypeOK`, `[]TokenLasts` |
| BreakGlass_proofs | `BreakGlassTyping`, `OwnToken`, `NoAttemptLeft`, `NoStray` | `Spec => []TypeOK`, `[]TokenIsOwn`, `[]AttemptHasOwner`, `[]NoStrayRoot` |
| | `ErasedRevoked` | `Spec => ErasedIsRevoked` (action property) |
| Tenants_proofs | `TenantsTyping`, `TokensIsolated` | `Spec => []TypeOK`, `[]Isolation` |
| | `CreatedUsable`, `DestroyedGone`, `PurgedStays` | `Spec => []Onboarded`, `[]Offboarded`, `[]PurgeIsFinal` |
| Policies_proofs | `SecretsAlways`, `RolesPinnedAlways`, `BrokersAlways`, `PlatformAlways` | `Spec => []SecretsOfOneTenant`, `[]RolesPinned`, `[]BrokersInEnv`, `[]PlatformUnchanged` |
| | `AnySecretOfOneTenant`, `AnyRolePinned`, `AnyBrokerInEnv`, `AnyPlatformUnchanged` | the same of any request whatever, not only of those in `Requests` and `Runs` |
| | `CommandsAlways`, `TemplatesAlways` | `Spec => []CommandsPermitted`, `[]TemplatesPass` |
| | `RunsGranted`, `EveryTemplatePasses` | what the program asks for with a token is granted; a rendered template passes the lint |
| Snapshots_proofs | `SnapshotsTyping`, `Reported`, `Restored`, `OneSnapshot`, `Newest` | `Spec => []TypeOK`, `[]ReportedVerifies`, `[]RestoredWhole`, `[]OneSnapshotPerTick`, `[]NewestListed` |

`Intact` is that the run stays orderly (section 3) and no local file is torn.

Assumptions.  They are named in the modules that declare the constants, and TLC evaluates
them in every run.

* `Bootstrap`: names are distinct (`DistinctNames`), what is found at the start is nothing or
  of an earlier deployment (`StartStates`), the platforms are these two (`Options`), bounds
  are naturals (`Bounds`).  That a local deployment has one node is in `Init`.
* `Lifecycle`: finitely many instances, at least the group's size, which is positive
  (`Sizes`); the operator secret is empty, stale or good (`Tokens`).
* `Services`: a period of more than two hours (`Intervals`), the three kinds, a secret that is
  empty or of an earlier cluster (`Secrets`).
* `BreakGlass`: finitely many terminals, an account for each, at least one share (`Setup`).
* `Tenants`: the placeholders are no env, tenant or entity (`Names`, `Distinct`), there is a
  tenant ID, a mode, and room for a role (`Modes`, `Bounds`).
* `Policies`: a name is a sequence of at least one atom, none of them `.`, `/`, `+` or `*`
  (`Names`); there are two modes (`Modes`).
* `Snapshots`: the placeholders are no snapshots, nodes are no administrators (`Marks`), the
  period is positive (`Bounds`).

Why the invariants are stronger than the properties:

* `FinishedMeansConfigured`: a follower finishes because a token works, and the state does not
  say why it does.  `ConfiguredInv` adds that every token of this deployment belongs to a
  configured cluster and that every process past Configure sits in one.
* `ClaimStays` needs `ClaimInv`: a node about to write the claim already holds it.
* `SoleCluster` needs `SoleInv`: whoever may initialise (`Entitled`: on AWS the claim
  holder) is unique, every initialised Vault and the material belong to that node, and
  a process that is to initialise or to save is entitled to.  `LocalInv` says that on the
  local platform only the one node takes part.
* `RevokedAfterSaved` needs `RevokeInv` and `HeldInv`: the token loop is at the second name only
  when the first token is stored; a process that holds an init response holds its own
  cluster's; the tokens it has stored are its cluster's and stay so while no
  other cluster exists.
* `KeyMaterialKept` needs `KeyInv`: nobody but n knows of a cluster that n is still to save, so a
  `SaveInit` finds no material of this deployment.  `GoneInv` says that whoever finds the
  material of an earlier one initialises nothing.
* The refinement maps who holds a root, which tokens are stored and who is configured to
  `ClusterInit`.  `ReadyInv` says that what is configured has its own Vault, `CustodyInv` that a
  process that has loaded a root has it from the init secret, which still holds it.  Each step
  `ClusterInit` can see (`Visible`) is then one of its steps, and all others stutter.
* `Lifecycle`: `NodeInv` holds of each instance by itself: where its process is for each state of its
  hook (`Placed`), that what is in service is a voter (`Serving`), and that a process past its
  leave knows how that ended (`Decided`).  `RefreshInv` counts: in a refresh `Size` instances
  stay in service throughout, each a live voter, so a leaver never is the only one.
* `BreakGlass`: `Known` relates each terminal's place to the attempt it started and the token it
  holds, and says that no store holds the token of an attempt in progress.  The bound on attempts is a budget for all terminals, so they are finite.
  `EndingInv` says that what end has read is what its store still holds, `StrayInv` that a
  begin replaces no live root that is not already in `abandoned`; both only while each terminal has a store of its own.
* `Services`: `Clients` says that a service with a token renews it, that only this cluster's
  secret gives its token, and that who is steady holds the token of a Vault that answers.
  `Fresh` says that the token has lost at most the idle hours and the current one, and nothing
  once a steady service has served its tick.
* `Snapshots`: `HoldsInv` says that a process writes only what it has read.  `StoredInv` follows a
  snapshot through its two writes: its data and checksum are of one process (`FreshInv`,
  `WroteInv`), and a checksum that is there (`SumInv`) or reported (`ReportInv`) belongs to the
  data unless a second process wrote in that second.  `RestoringInv` does the same for a
  restore between its two reads.  `TickInv` guesses who led in each
  term: a node takes or reports a snapshot for a tick only as the leader of a term it looked at
  that tick in (`TakersLed`, `ReportsLed`), reports one at most (`ReportsOnce`), and leaves the tick
  with a report or a failure (`LeadersDone`).  `NamedInv` says that data under a reported name is never gone.
* `Isolation` looks at what a token's entity says now, and that depends on writes of other
  pipelines that are still to come.  `Owned` says what every one of them will write:
  an entity's metadata is of the tenant the entity is named for (`MetaOfEntity`), a role ID is
  an alias of its own tenant's entity or of Vault's (`AliasOfOwner`), a token has the entity of
  its role ID (`TokenOfOwner`), and the role ID a create has read belongs to the tenant
  it is working on (`RoleIdOfWork`).  No order of the calls matters for it, so
  any number of pipelines may race.
* The outcomes of tenant commands do depend on the order.  A *clean* command is one no other
  has met on the tenant.  `WorkInv` says that a pipeline works only on the tenants of its
  command; with `Owned`, a step then leaves every other tenant alone.  `ExclInv` says that a
  clean command has the tenant to itself or shares it with clean creates, which keep what
  is there (`StaysUsable`).  `CreateInv` and `DestroyInv` say, call by call, what a clean create or
  destroy has made or removed; `SettledInv` says that this outlives the command.  `NoReach` is
  the heart of the purge: without its entities no token reaches a tenant, so nobody
  can write behind the list.

* `Policies`: `AnswerInv` says that the answer is Vault's decision on the request that was
  made.  The rest is about that decision.  `ProvisioningReach`, `OperatorReach`, `AppsReach`
  and their likes go through a policy rule by rule and say how far one that does not deny
  can fit; what is granted is granted by such a rule (`GrantingRule`), so no comparison of
  rules is needed to say what is *not* granted.  `FolderFits` reads the tenant and the env off
  a path that a tenant's rule fits, `MintingReach` the env off one that a broker's rule
  fits.  There the names matter: `NoDot` says that the dot that closes the env is the
  first dot of a role name, so an env whose name begins with another's is not taken for it.

  That a call *is* granted (`RunsGranted`) does need the comparison of rules.  For most calls
  only the rule meant for them fits (`OnlyFit`); the `...At` lemmas say so of each part
  of a policy.  Three cases need more.  A login's path fits the role's `+` rule and the
  glob of the folder, and `BetterFit` says that the `+`, which comes later, wins.  The
  operator's rules are listed row by row (`OperatorRules`), because a call below `sys` has to be told
  from several folders; a `Closed` path is one that no folder of theirs leads to.  The deny of `auth/token/create`
  fits no self call (`CreateFits`).

  `EveryTemplatePasses` gives each template a function from paths to capabilities and
  parameters (`OperatorCaps`, `SetupCaps` with `SetupTakes`, `BrokerCaps`, `TenantCaps`) and
  shows that every rule agrees with it: two rules for a path are then the same, which is
  what the lint asks.  Only a tenant's own folder grants below the KV mount, and there the names
  of env and tenant are no wildcards (`NotWild`).

Each invariant is proved from `Init` and then preserved by each action, in a lemma per actor or
command; the theorems combine those with PTL.

Only model-checked: all liveness (`Completes`, `Recovers`, `Departs`, `EntersService`,
`ServicesComeUp`), which is beyond TLAPS with fairness.

## 7. Plan

Done, in the order of what matters: `Bootstrap` with `ClusterInit`, its proofs and the proof of
the refinement; `Lifecycle`, `BreakGlass`, `Tenants` and `Snapshots`, with every safety property proved;
`Services` with the proof of `TokenLasts`; `Policies` with the proofs of what no token may do,
of what the program may, and of the lint.

Left: splitting `Configure` into its calls, to check that an interrupted configuration is
completed and that policies never precede the mounts they name.

## 8. Not modelled, and why

Terraform beyond the Auto Scaling group, the Docker Compose file, the command line, the
Nullstone API client and the HTTP wrapper of the health server hold no state that two steps
could disagree on.  Encodings (shares, OTP, base64, SHA-256) and messages
are data.  Of the syntax of IDs and env names `Policies` keeps that they have no separator and
no wildcard (`ValidName`).

## 9. Running

    tlc -workers 2 -config BootstrapRace.cfg MCBootstrap.tla
    tlc -workers 2 -config BootstrapLive.cfg MCBootstrap.tla
    tlc -workers 2 -config LifecycleRefresh.cfg MCLifecycle.tla
    tlc -workers 2 -config Services.cfg MCServices.tla
    tlc -workers 2 -config BreakGlassRace.cfg MCBreakGlass.tla
    tlc -workers 2 -config TenantsRace.cfg MCTenants.tla
    tlc -workers 2 -config Snapshots.cfg MCSnapshots.tla
    tlc -workers 2 -config PoliciesBoth.cfg MCPolicies.tla
    for m in Bootstrap_proofs BootstrapRefinement Lifecycle_proofs Services_proofs \
             BreakGlass_proofs Tenants_proofs Policies_proofs Snapshots_proofs
    do tlapm $m.tla; done

The four runs that end in a violation are started the same way.  Each run takes from a second to
a few minutes on two cores; the proofs take about half a minute per module, those of `Policies` about four.
