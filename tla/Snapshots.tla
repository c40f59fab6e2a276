----------------------------- MODULE Snapshots -----------------------------
(***************************************************************************)
(* Raft snapshots: "vault-utils snapshot take, list, verify, restore and   *)
(* schedule" (cmd/vault-utils/main.go) over the two places they are kept   *)
(* in: a directory (internal/vaultcluster/snapshot.go) and an S3 prefix    *)
(* (internal/aws/s3/snapshot.go).  A snapshot is two things, the data and  *)
(* its checksum, written one after the other under a name made of the      *)
(* second they were written in.                                            *)
(*                                                                         *)
(* A snapshot read from Vault is named by its number; the checksum of a    *)
(* snapshot is that number too, as it fits that snapshot only.             *)
(***************************************************************************)
EXTENDS Integers, FiniteSets

CONSTANTS
    Nodes,          \* the nodes, each with a snapshot schedule; with a directory,
                    \* which has none, shells that run snapshot take
    Admins,         \* the shells that run snapshot take and restore
    Stores,         \* the stores in use: "s3" (SNAPSHOT_BUCKET) or "dir"
    None,           \* no such file or object
    Cut,            \* a file that is not what was to be written
    Period,         \* seconds between two ticks of BACKUP_SCHEDULE
    PageSize,       \* keys ListObjectsV2 returns at most
    MaxSecond,      \* bound: the last second of the run
    MaxReads,       \* bound: snapshots read from Vault
    MaxElections,   \* bound: changes of the raft leader
    MaxFaults       \* bound: crashes, calls that fail, data that rots

ASSUME Marks ==
    /\ None \notin Int /\ Cut \notin Int /\ None # Cut
    /\ Nodes \intersect Admins = {} /\ None \notin Nodes \union Admins
    /\ Stores \subseteq {"s3", "dir"}
ASSUME Bounds ==
    /\ Period \in Nat \ {0} /\ PageSize \in Nat /\ MaxSecond \in Nat
    /\ MaxReads \in Nat /\ MaxElections \in Nat /\ MaxFaults \in Nat

Takers  == Nodes \union Admins
Seconds == 0..MaxSecond
Reads   == 1..MaxReads
Content == Reads \union {None, Cut}

VARIABLES
    store,      \* where snapshots are kept
    now,        \* the clock, in the seconds of snapshotStamp
    leader,     \* the raft leader
    term,       \* changes of the leader so far
    taken,      \* snapshots read from Vault so far
    sealed,     \* Vault is sealed
    data, sum,  \* what is stored under the names of each second
    pc,         \* pc[t]: where process t is
    buf,        \* buf[t]: the snapshot bytes it holds
    at,         \* at[t]: the second that names its files
    due,        \* due[n]: the tick node n sleeps until
    checked,    \* checked[a]: what a's restore has verified, or None
    faults,     \* counter against its bound
    written,    \* history: snapshots reported as written
    opened,     \* history: who has put data under each name, None for rot
    looks,      \* history: in which term which node looked at which tick
    failed,     \* history: the ticks for which a call or a write failed
    submitted   \* history: what Vault was asked to restore

clock   == <<now, leader, term>>
files   == <<data, sum>>
process == <<pc, buf, at, due, checked>>
history == <<written, opened, looks, failed, submitted>>
vars    == <<store, clock, taken, sealed, files, process, faults, history>>

PCs == {"idle", "sleep", "look", "read", "put", "fill", "putSum", "fillSum",
        "stat", "get", "getSum", "reread", "submit"}

\* A write of data, a snapshot reported written, a restore sent to Vault.
Deed    == [by : Takers \union {None}, id : Reads]
Entry   == [id : Reads, at : Seconds, by : Takers, tick : Nat]
Attempt == [at : Seconds, data : Reads \union {Cut}, checked : Content]

TypeOK ==
    /\ store \in {"s3", "dir"} /\ now \in Seconds
    /\ leader \in Nodes /\ term \in 0..MaxElections
    /\ taken \in 0..MaxReads /\ sealed \in BOOLEAN
    /\ data \in [Seconds -> Content] /\ sum \in [Seconds -> Content]
    /\ pc \in [Takers -> PCs] /\ buf \in [Takers -> Content]
    /\ at \in [Takers -> Seconds] /\ due \in [Nodes -> Nat]
    /\ checked \in [Admins -> Content] /\ faults \in 0..MaxFaults
    /\ written \in SUBSET Entry /\ opened \in [Seconds -> SUBSET Deed]
    /\ looks \in SUBSET [tick : Nat, by : Nodes, term : 0..MaxElections] /\ failed \in SUBSET Nat
    /\ submitted \in SUBSET Attempt

\* sched.Next: the first tick after second s.
NextTick(s) == ((s \div Period) + 1) * Period

\* Nodes keep their snapshots in S3.
Scheduled(t) == t \in Nodes /\ store = "s3"

Init ==
    /\ store \in Stores /\ now = 0
    /\ leader \in Nodes /\ term = 0 /\ taken = 0 /\ sealed = FALSE
    /\ data = [s \in Seconds |-> None] /\ sum = [s \in Seconds |-> None]
    /\ pc = [t \in Takers |-> IF Scheduled(t) THEN "sleep" ELSE "idle"]
    /\ buf = [t \in Takers |-> None] /\ at = [t \in Takers |-> 0]
    /\ due = [n \in Nodes |-> NextTick(0)]
    /\ checked = [a \in Admins |-> None] /\ faults = 0
    /\ written = {} /\ opened = [s \in Seconds |-> {}] /\ looks = {}
    /\ failed = {} /\ submitted = {}

-----------------------------------------------------------------------------
(* Shared pieces of the steps.                                             *)

Goto(t, from, to) == pc[t] = from /\ pc' = [pc EXCEPT ![t] = to]

Fails == faults < MaxFaults /\ faults' = faults + 1

\* A command returns; a schedule computes its next tick and sleeps again.
Return(t) ==
    /\ pc' = [pc EXCEPT ![t] = IF Scheduled(t) THEN "sleep" ELSE "idle"]
    /\ buf' = [buf EXCEPT ![t] = None]
    /\ at' = [at EXCEPT ![t] = 0]
    /\ due' = [n \in Nodes |-> IF n = t /\ Scheduled(n) THEN NextTick(now) ELSE due[n]]
    /\ checked' = [a \in Admins |-> IF a = t THEN None ELSE checked[a]]

\* The tick t works for: none when an administrator takes the snapshot.
TickOf(t) == IF Scheduled(t) THEN due[t] ELSE 0

ReportOf(t) == [id |-> buf[t], at |-> at[t], by |-> t, tick |-> TickOf(t)]
Reports(t) == written' = written \union {ReportOf(t)}
Missed(t)   == failed' = IF Scheduled(t) THEN failed \union {due[t]} ELSE failed

-----------------------------------------------------------------------------
(* runSnapshotSchedule                                                     *)

Wake(n) ==
    /\ now >= due[n]
    /\ Goto(n, "sleep", "look")
    /\ UNCHANGED <<store, clock, taken, sealed, files, buf, at, due, checked, faults, history>>

\* Fault: every node takes the snapshot.
Look_Everyone(n) ==
    /\ ~sealed /\ Goto(n, "look", "read")
    /\ looks' = looks \union {[tick |-> due[n], by |-> n, term |-> term]}
    /\ UNCHANGED <<store, clock, taken, sealed, files, buf, at, due, checked, faults, written,
                   opened, failed, submitted>>

\* RaftAutopilot answers: the leader goes on, every other node skips the tick.
Look(n) ==
    /\ ~sealed /\ pc[n] = "look"
    /\ IF leader = n
       THEN pc' = [pc EXCEPT ![n] = "read"] /\ UNCHANGED <<buf, at, due, checked>>
       ELSE Return(n)
    /\ looks' = looks \union {[tick |-> due[n], by |-> n, term |-> term]}
    /\ UNCHANGED <<store, clock, taken, sealed, files, faults, written, opened, failed, submitted>>

\* RaftAutopilot fails: the tick is skipped.
LookFails(n) ==
    /\ pc[n] = "look" /\ Return(n)
    /\ IF sealed THEN UNCHANGED faults ELSE Fails
    /\ UNCHANGED <<store, clock, taken, sealed, files, history>>

-----------------------------------------------------------------------------
(* takeSnapshot: RaftSnapshot, then PutSnapshot or the files of SnapshotTake *)

StartTake(t) ==
    /\ taken < MaxReads /\ Goto(t, "idle", "read")
    /\ UNCHANGED <<store, clock, taken, sealed, files, buf, at, due, checked, faults, history>>

\* Fault: an empty answer is kept like any other.
RaftSnapshot_KeepsEmpty(t) ==
    /\ taken < MaxReads /\ ~sealed
    /\ Goto(t, "read", "put")
    /\ taken' = taken + 1
    /\ \E b \in {0, taken + 1} : buf' = [buf EXCEPT ![t] = b]
    /\ UNCHANGED <<store, clock, sealed, files, at, due, checked, faults, history>>

RaftSnapshot(t) ==
    /\ taken < MaxReads /\ ~sealed
    /\ Goto(t, "read", "put")
    /\ taken' = taken + 1
    /\ buf' = [buf EXCEPT ![t] = taken + 1]
    /\ UNCHANGED <<store, clock, sealed, files, at, due, checked, faults, history>>

\* Vault refuses, or the answer is empty: nothing is kept.
RaftSnapshotFails(t) ==
    /\ pc[t] = "read" /\ Return(t)
    /\ IF sealed \/ taken = MaxReads THEN UNCHANGED faults ELSE Fails
    /\ Missed(t)
    /\ UNCHANGED <<store, clock, taken, sealed, files, written, opened, looks, submitted>>

\* Fault: the name has no seconds, only a coarser unit.
PutData_Coarse(t) ==
    LET s == (now \div 2) * 2 IN
    /\ Goto(t, "put", IF store = "s3" THEN "putSum" ELSE "fill")
    /\ at' = [at EXCEPT ![t] = s]
    /\ data' = [data EXCEPT ![s] = IF store = "s3" THEN buf[t] ELSE Cut]
    /\ opened' = [opened EXCEPT ![now] = @ \union {[by |-> t, id |-> buf[t]]}]
    /\ UNCHANGED <<store, clock, taken, sealed, sum, buf, due, checked, faults, written, looks, failed, submitted>>

\* The name is made from the clock now.  PutObject replaces an object in one
\* step; os.WriteFile first truncates the file.
PutData(t) ==
    /\ Goto(t, "put", IF store = "s3" THEN "putSum" ELSE "fill")
    /\ at' = [at EXCEPT ![t] = now]
    /\ data' = [data EXCEPT ![now] = IF store = "s3" THEN buf[t] ELSE Cut]
    /\ opened' = [opened EXCEPT ![now] = @ \union {[by |-> t, id |-> buf[t]]}]
    /\ UNCHANGED <<store, clock, taken, sealed, sum, buf, due, checked, faults, written, looks, failed, submitted>>

\* Written over what a second process has put into the file since, it may mix.
FillData(t) ==
    /\ Goto(t, "fill", "putSum")
    /\ \E c \in {buf[t], Cut} :
         /\ data[at[t]] = Cut => c = buf[t]
         /\ data' = [data EXCEPT ![at[t]] = c]
    /\ UNCHANGED <<store, clock, taken, sealed, sum, buf, at, due, checked, faults, history>>

\* "snapshot written": the checksum stands beside the data.
PutSum(t) ==
    /\ pc[t] = "putSum"
    /\ IF store = "s3"
       THEN /\ sum' = [sum EXCEPT ![at[t]] = buf[t]]
            /\ Reports(t) /\ Return(t)
       ELSE /\ sum' = [sum EXCEPT ![at[t]] = Cut]
            /\ pc' = [pc EXCEPT ![t] = "fillSum"]
            /\ UNCHANGED <<written, buf, at, due, checked>>
    /\ UNCHANGED <<store, clock, taken, sealed, data, faults, opened, looks, failed, submitted>>

FillSum(t) ==
    /\ pc[t] = "fillSum" /\ Return(t)
    /\ sum' = [sum EXCEPT ![at[t]] = buf[t]]
    /\ Reports(t)
    /\ UNCHANGED <<store, clock, taken, sealed, data, faults, opened, looks, failed, submitted>>

\* The write fails or the process dies in it: the command returns, what is
\* written so far stays.  An S3 put may have been carried out all the same.
WriteFails(t) ==
    /\ pc[t] \in {"put", "fill", "putSum", "fillSum"} /\ Fails /\ Missed(t) /\ Return(t)
    /\ \/ UNCHANGED <<files, opened>>
       \/ /\ pc[t] = "put" /\ store = "s3"
          /\ data' = [data EXCEPT ![now] = buf[t]]
          /\ opened' = [opened EXCEPT ![now] = @ \union {[by |-> t, id |-> buf[t]]}]
          /\ UNCHANGED sum
       \/ /\ pc[t] = "putSum" /\ store = "s3"
          /\ sum' = [sum EXCEPT ![at[t]] = buf[t]]
          /\ UNCHANGED <<data, opened>>
    /\ UNCHANGED <<store, clock, taken, sealed, written, looks, submitted>>

-----------------------------------------------------------------------------
(* restoreSnapshot; "snapshot verify" is the part of it before Submit      *)

\* An s3:// name goes to GetSnapshot, a file to SnapshotRestore.
StartRestore(a, s) ==
    /\ data[s] # None
    /\ Goto(a, "idle", IF store = "s3" THEN "get" ELSE "stat")
    /\ at' = [at EXCEPT ![a] = s]
    /\ UNCHANGED <<store, clock, taken, sealed, files, buf, due, checked, faults, history>>

\* SnapshotRestore verifies only a file that has a checksum beside it.
StatSum(a) ==
    /\ Goto(a, "stat", IF sum[at[a]] = None THEN "reread" ELSE "get")
    /\ UNCHANGED <<store, clock, taken, sealed, files, buf, at, due, checked, faults, history>>

GetData(a) ==
    /\ Goto(a, "get", "getSum")
    /\ buf' = [buf EXCEPT ![a] = data[at[a]]]
    /\ UNCHANGED <<store, clock, taken, sealed, files, at, due, checked, faults, history>>

\* Fault: data without a checksum beside it passes.
GetSum_MissingPasses(a) ==
    /\ pc[a] = "getSum"
    /\ IF sum[at[a]] = None \/ (buf[a] # Cut /\ sum[at[a]] = buf[a])
       THEN /\ pc' = [pc EXCEPT ![a] = IF store = "s3" THEN "submit" ELSE "reread"]
            /\ checked' = [checked EXCEPT ![a] = buf[a]] /\ UNCHANGED <<buf, at, due>>
       ELSE Return(a)
    /\ UNCHANGED <<store, clock, taken, sealed, files, faults, history>>

\* No checksum, or one of other data: refused.
GetSum(a) ==
    /\ pc[a] = "getSum"
    /\ IF buf[a] # Cut /\ sum[at[a]] = buf[a]
       THEN /\ pc' = [pc EXCEPT ![a] = IF store = "s3" THEN "submit" ELSE "reread"]
            /\ checked' = [checked EXCEPT ![a] = buf[a]] /\ UNCHANGED <<buf, at, due>>
       ELSE Return(a)
    /\ UNCHANGED <<store, clock, taken, sealed, files, faults, history>>

\* SnapshotRestore reads the file again after verifying it.
Reread(a) ==
    /\ Goto(a, "reread", "submit")
    /\ buf' = [buf EXCEPT ![a] = data[at[a]]]
    /\ UNCHANGED <<store, clock, taken, sealed, files, at, due, checked, faults, history>>

\* SnapshotRestoreData: empty data goes no further; Vault takes a whole snapshot
\* in place of its state and seals, and is taken to refuse any other bytes.
Submit(a) ==
    /\ pc[a] = "submit" /\ Return(a)
    /\ \/ buf[a] = Cut /\ UNCHANGED <<sealed, submitted>>
       \/ /\ submitted' = submitted \union {[at |-> at[a], data |-> buf[a], checked |-> checked[a]]}
          /\ sealed' = (sealed \/ buf[a] # Cut)
    /\ UNCHANGED <<store, clock, taken, files, faults, written, opened, looks, failed>>

-----------------------------------------------------------------------------
(* Listing                                                                 *)

\* The objects under the prefix in the order of S3: the init claim, then for
\* each second the data and the checksum.
Keys == {-1} \union {2 * s : s \in {r \in Seconds : data[r] # None}}
             \union {2 * s + 1 : s \in {r \in Seconds : sum[r] # None}}

Page(keys) == {k \in keys : Cardinality({j \in keys : j <= k}) <= PageSize}

\* SnapshotList reads the whole directory, Store.List one page of the prefix;
\* both keep the names that end in .snap.
Listed == {s \in Seconds : data[s] # None /\ (store = "s3" => 2 * s \in Page(Keys))}

\* Fault: the names are sorted in ascending order.
First_Ascending(names) == CHOOSE s \in names : \A r \in names : s <= r

\* sort.Reverse: the first name of the listing.
First(names) == CHOOSE s \in names : \A r \in names : r <= s

-----------------------------------------------------------------------------
(* The clock, the cluster and the store                                    *)

Tick ==
    /\ now < MaxSecond /\ now' = now + 1
    /\ UNCHANGED <<store, leader, term, taken, sealed, files, process, faults, history>>

\* The directory is that of the local platform, whose cluster is one node.
Elect(n) ==
    /\ store = "s3" /\ term < MaxElections /\ n # leader
    /\ leader' = n /\ term' = term + 1
    /\ UNCHANGED <<store, now, taken, sealed, files, process, faults, history>>

\* KMS opens Vault again, or a bootstrap with the shares of the snapshot does.
Unseal ==
    /\ sealed /\ sealed' = FALSE
    /\ UNCHANGED <<store, clock, taken, files, process, faults, history>>

\* Stored data goes bad: what the checksum is for.
Rot(s) ==
    /\ data[s] \in Reads /\ Fails
    /\ data' = [data EXCEPT ![s] = Cut]
    /\ opened' = [opened EXCEPT ![s] = @ \union {[by |-> None, id |-> data[s]]}]
    /\ UNCHANGED <<store, clock, taken, sealed, sum, process, written, looks, failed, submitted>>

\* The run ends with its last second.
Over == now = MaxSecond /\ UNCHANGED vars

Schedule(n) == Wake(n) \/ Look(n) \/ LookFails(n)
Take(t)     == StartTake(t) \/ RaftSnapshot(t) \/ RaftSnapshotFails(t) \/ PutData(t) \/ FillData(t)
               \/ PutSum(t) \/ FillSum(t) \/ WriteFails(t)
Restore(a)  == (\E s \in Seconds : StartRestore(a, s)) \/ StatSum(a) \/ GetData(a) \/ GetSum(a)
               \/ Reread(a) \/ Submit(a)

Next ==
    \/ \E n \in Nodes : Schedule(n) \/ Elect(n)
    \/ \E t \in Takers : Take(t)
    \/ \E a \in Admins : Restore(a)
    \/ \E s \in Seconds : Rot(s)
    \/ Tick \/ Unseal \/ Over

Spec == Init /\ [][Next]_vars
-----------------------------------------------------------------------------
(* Correctness                                                             *)

\* Under this name one process wrote, once, and what it wrote has not rotted.
Undisturbed(s) == \A d, e \in opened[s] : d = e

\* A snapshot that was reported written can be verified and restored from then
\* on, through crashes, failed and half-done writes of other processes: only a
\* second process that wrote in the very same second, or rot, can undo it.
\* (SnapshotTake, PutSnapshot)
ReportedVerifies ==
    \A w \in written : Undisturbed(w.at) => data[w.at] = w.id /\ sum[w.at] = w.id

\* At most one scheduled snapshot is reported written for a tick and a term in which
\* nodes looked at it, wherever the leader moves between a look and the write.  When
\* every node looked, all in one term, and has gone on to a later tick, and no call or
\* write for the tick failed, there is one.  (runSnapshotSchedule)
OneSnapshotPerTick ==
    \A k \in 1..(MaxSecond + Period) :
        LET seen  == {l \in looks : l.tick = k}
            terms == {l.term : l \in seen}
            kept  == {w \in written : w.tick = k}
            past  == k \notin failed /\ \A n \in Nodes : due[n] > k IN
        /\ Cardinality(kept) <= Cardinality(terms)
        /\ past /\ {l.by : l \in seen} = Nodes /\ Cardinality(terms) = 1 => kept # {}

\* Vault is asked to restore only what one process read whole: from S3 always,
\* rot or not; from a file unless it had no checksum beside it yet, or was
\* disturbed after its verification.  (GetSnapshot, SnapshotRestore)
RestoredWhole ==
    \A r \in submitted : r.data = Cut =>
        store = "dir" /\ (r.checked = None \/ ~Undisturbed(r.at))

\* "snapshot list" starts with the newest snapshot that was reported written, or
\* one that is newer, as long as the prefix fits one page.  (ListSnapshots, SnapshotList)
NewestListed ==
    (store = "dir" \/ Cardinality(Keys) <= PageSize) =>
        \A w \in written : Listed # {} /\ w.at <= First(Listed)

-----------------------------------------------------------------------------
(* What a test says and the code does not keep.                            *)

\* "list newest first" (internal/aws/s3/snapshot_test.go:70).
ListNewestFirst == \A w \in written : Listed # {} /\ w.at <= First(Listed)
=============================================================================
