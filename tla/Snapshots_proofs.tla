-------------------------- MODULE Snapshots_proofs --------------------------
(***************************************************************************)
(* What was reported written stays good, and nothing partial is restored,  *)
(* for any number of nodes, shells, seconds, snapshots and failures.       *)
(***************************************************************************)
EXTENDS Snapshots, FiniteSetTheorems, WellFoundedInduction, TLAPS

(***************************************************************************)
(* Typing.  A process that writes holds a snapshot, and one that restores  *)
(* reads data that is there.                                               *)
(***************************************************************************)

Writing(t) == pc[t] \in {"put", "fill", "putSum", "fillSum"}

HoldsInv ==
    \A t \in Takers :
        /\ Writing(t) => buf[t] \in Reads
        /\ pc[t] \in {"stat", "get", "getSum", "reread"} => data[at[t]] # None
        /\ pc[t] \in {"getSum", "submit"} => buf[t] # None

Typed == TypeOK /\ HoldsInv

LEMMA TickType == ASSUME NEW s \in Nat PROVE NextTick(s) \in Nat
BY Bounds DEF NextTick

LEMMA FailsType == ASSUME TypeOK, Fails PROVE faults' \in 0..MaxFaults
BY Bounds DEF TypeOK, Fails

LEMMA ReadsKnown == None \notin Reads /\ Cut \notin Reads /\ None # Cut
BY Marks, Bounds DEF Reads

\* What a process reports, and the tick it gives up.
LEMMA ReportType ==
    ASSUME Typed, NEW t \in Takers
    PROVE  /\ TickOf(t) \in Nat /\ (buf[t] \in Reads => ReportOf(t) \in Entry)
           /\ Missed(t) => failed' \in SUBSET Nat
<1>1. TickOf(t) \in Nat
  BY DEF Typed, TypeOK, TickOf, Scheduled
<1>2. buf[t] \in Reads => ReportOf(t) \in Entry
  BY <1>1 DEF Typed, TypeOK, ReportOf, Entry
<1>3. Missed(t) => failed' \in SUBSET Nat
  BY DEF Typed, TypeOK, Missed, Scheduled
<1> QED BY <1>1, <1>2, <1>3

LEMMA ReturnType ==
    ASSUME TypeOK, NEW t \in Takers, Return(t)
    PROVE  /\ pc' \in [Takers -> PCs] /\ buf' \in [Takers -> Content]
           /\ at' \in [Takers -> Seconds] /\ due' \in [Nodes -> Nat]
           /\ checked' \in [Admins -> Content]
<1>1. NextTick(now) \in Nat
  BY TickType, Bounds DEF TypeOK, Seconds
<1> QED BY <1>1, Bounds DEF TypeOK, Return, PCs, Content, Seconds

\* A process that returns holds nothing any more.
LEMMA ReturnHolds ==
    ASSUME Typed, NEW t \in Takers, Return(t), \A s \in Seconds : data[s] # None => data'[s] # None
    PROVE  HoldsInv'
<1>1. pc'[t] \in {"sleep", "idle"} /\ \A u \in Takers : u # t =>
        pc'[u] = pc[u] /\ buf'[u] = buf[u] /\ at'[u] = at[u]
  BY DEF Typed, TypeOK, Return
<1>2. \A u \in Takers : at[u] \in Seconds
  BY DEF Typed, TypeOK
<1> QED BY <1>1, <1>2 DEF Typed, HoldsInv, Writing

LEMMA InitType == Init => Typed
<1> SUFFICES ASSUME Init PROVE Typed
  OBVIOUS
<1>1. NextTick(0) \in Nat
  BY TickType
<1>2. 0 \in Seconds /\ 0 \in 0..MaxReads /\ 0 \in 0..MaxElections /\ 0 \in 0..MaxFaults
  BY Bounds DEF Seconds
<1>3. pc \in [Takers -> PCs] /\ \A t \in Takers : pc[t] \in {"sleep", "idle"}
  BY DEF Init, PCs
<1>4. buf \in [Takers -> Content] /\ at \in [Takers -> Seconds] /\ due \in [Nodes -> Nat]
      /\ checked \in [Admins -> Content] /\ data \in [Seconds -> Content] /\ sum \in [Seconds -> Content]
  BY <1>1, <1>2 DEF Init, Content
<1>5. store \in {"s3", "dir"} /\ opened \in [Seconds -> SUBSET Deed] /\ leader \in Nodes
  BY Marks DEF Init
<1>6. TypeOK
  BY <1>2, <1>3, <1>4, <1>5 DEF Init, TypeOK
<1>7. HoldsInv
  BY <1>3 DEF HoldsInv, Writing
<1> QED BY <1>6, <1>7 DEF Typed

LEMMA ScheduleType ==
    ASSUME Typed, NEW n \in Nodes, Schedule(n) \/ Elect(n)
    PROVE  Typed'
<1> USE DEF clock, files, history
<1>1. n \in Takers
  BY DEF Takers
<1>2. CASE Wake(n)
  BY <1>1, <1>2 DEF Typed, TypeOK, HoldsInv, Writing, Wake, Goto, PCs
<1>3. CASE Look(n)
  <2>1. [tick |-> due[n], by |-> n, term |-> term] \in [tick : Nat, by : Nodes, term : 0..MaxElections]
    BY DEF Typed, TypeOK
  <2>2. looks' \in SUBSET [tick : Nat, by : Nodes, term : 0..MaxElections]
    BY <1>3, <2>1 DEF Typed, TypeOK, Look
  <2>3. CASE leader = n
    <3>1. pc' = [pc EXCEPT ![n] = "read"] /\ UNCHANGED <<buf, at, due, checked, data>>
      BY <1>3, <2>3 DEF Look
    <3>2. pc' \in [Takers -> PCs] /\ HoldsInv'
      BY <1>1, <3>1 DEF Typed, TypeOK, HoldsInv, Writing, PCs
    <3> QED BY <1>3, <2>2, <3>1, <3>2 DEF Typed, TypeOK, Look
  <2>4. CASE leader # n
    <3>1. Return(n) /\ UNCHANGED data
      BY <1>3, <2>4 DEF Look
    <3> QED BY <1>1, <1>3, <2>2, <3>1, ReturnType, ReturnHolds DEF Typed, TypeOK, Look
  <2> QED BY <2>3, <2>4
<1>4. CASE LookFails(n)
  <2>1. faults' \in 0..MaxFaults
    BY <1>4, FailsType DEF Typed, TypeOK, LookFails
  <2> QED BY <1>1, <1>4, <2>1, ReturnType, ReturnHolds DEF Typed, TypeOK, LookFails
<1>5. CASE Elect(n)
  <2>1. term' \in 0..MaxElections /\ UNCHANGED <<pc, buf, at, data>>
    BY <1>5, Bounds DEF Typed, TypeOK, Elect, process
  <2> QED BY <1>5, <2>1 DEF Typed, TypeOK, HoldsInv, Writing, Elect, process
<1> QED BY <1>2, <1>3, <1>4, <1>5 DEF Schedule

\* What a process may write under a name, and that it did.
LEMMA DeedType ==
    ASSUME Typed, NEW t \in Takers, Writing(t), NEW s \in Seconds, NEW c \in {buf[t], Cut}
    PROVE  /\ [data EXCEPT ![s] = c] \in [Seconds -> Content]
           /\ [sum EXCEPT ![s] = c] \in [Seconds -> Content]
           /\ [opened EXCEPT ![s] = @ \union {[by |-> t, id |-> buf[t]]}] \in [Seconds -> SUBSET Deed]
           /\ \A r \in Seconds : data[r] # None => [data EXCEPT ![s] = c][r] # None
<1>1. buf[t] \in Reads /\ c \in Content /\ c # None
  BY ReadsKnown DEF Typed, HoldsInv, Content
<1>2. [by |-> t, id |-> buf[t]] \in Deed
  BY <1>1 DEF Deed
<1>3. data \in [Seconds -> Content] /\ sum \in [Seconds -> Content] /\ opened \in [Seconds -> SUBSET Deed]
  BY DEF Typed, TypeOK
<1>4. opened[s] \union {[by |-> t, id |-> buf[t]]} \in SUBSET Deed
  BY <1>2, <1>3
<1> QED BY <1>1, <1>3, <1>4

LEMMA TakeType ==
    ASSUME Typed, NEW t \in Takers, Take(t)
    PROVE  Typed'
<1> USE DEF clock, files, history
<1>1. now \in Seconds /\ taken \in 0..MaxReads /\ at[t] \in Seconds
  BY DEF Typed, TypeOK
<1>2. CASE StartTake(t)
  BY <1>2 DEF Typed, TypeOK, HoldsInv, Writing, StartTake, Goto, PCs
<1>3. CASE RaftSnapshot(t)
  <2>1. taken + 1 \in Reads /\ taken + 1 \in 0..MaxReads /\ taken + 1 \in Content
    BY <1>1, <1>3, Bounds DEF RaftSnapshot, Reads, Content
  <2>2. pc' = [pc EXCEPT ![t] = "put"] /\ buf' = [buf EXCEPT ![t] = taken + 1] /\ UNCHANGED <<at, data>>
    BY <1>3 DEF RaftSnapshot, Goto
  <2>3. pc' \in [Takers -> PCs] /\ buf' \in [Takers -> Content] /\ HoldsInv'
    BY <2>1, <2>2 DEF Typed, TypeOK, HoldsInv, Writing, PCs
  <2> QED BY <1>3, <2>1, <2>3 DEF Typed, TypeOK, RaftSnapshot
<1>4. CASE RaftSnapshotFails(t)
  <2>1. faults' \in 0..MaxFaults
    BY <1>4, FailsType DEF Typed, TypeOK, RaftSnapshotFails
  <2> QED BY <1>4, <2>1, ReportType, ReturnType, ReturnHolds DEF Typed, TypeOK, RaftSnapshotFails
<1>5. CASE PutData(t)
  <2>1. /\ Writing(t) /\ at' = [at EXCEPT ![t] = now] /\ UNCHANGED buf
        /\ \E c \in {buf[t], Cut} : data' = [data EXCEPT ![now] = c]
        /\ opened' = [opened EXCEPT ![now] = @ \union {[by |-> t, id |-> buf[t]]}]
        /\ \E to \in {"putSum", "fill"} : pc' = [pc EXCEPT ![t] = to]
    BY <1>5 DEF PutData, Goto, Writing
  <2>2. /\ data' \in [Seconds -> Content] /\ opened' \in [Seconds -> SUBSET Deed]
        /\ \A s \in Seconds : data[s] # None => data'[s] # None
    BY <1>1, <2>1, DeedType
  <2>3. pc' \in [Takers -> PCs] /\ at' \in [Takers -> Seconds] /\ HoldsInv'
    BY <1>1, <2>1, <2>2 DEF Typed, TypeOK, HoldsInv, Writing, PCs
  <2> QED BY <1>5, <2>2, <2>3 DEF Typed, TypeOK, PutData
<1>6. CASE FillData(t)
  <2>1. /\ Writing(t) /\ UNCHANGED <<buf, at>>
        /\ \E c \in {buf[t], Cut} : data' = [data EXCEPT ![at[t]] = c]
        /\ pc' = [pc EXCEPT ![t] = "putSum"]
    BY <1>6 DEF FillData, Goto, Writing
  <2>2. data' \in [Seconds -> Content] /\ \A s \in Seconds : data[s] # None => data'[s] # None
    BY <1>1, <2>1, DeedType
  <2>3. pc' \in [Takers -> PCs] /\ HoldsInv'
    BY <1>1, <2>1, <2>2 DEF Typed, TypeOK, HoldsInv, Writing, PCs
  <2> QED BY <1>6, <2>2, <2>3 DEF Typed, TypeOK, FillData
<1>7. CASE PutSum(t) \/ FillSum(t)
  <2>1. Writing(t) /\ UNCHANGED data /\ \E c \in {buf[t], Cut} : sum' = [sum EXCEPT ![at[t]] = c]
    BY <1>7 DEF PutSum, FillSum, Writing
  <2>2. sum' \in [Seconds -> Content]
    BY <1>1, <2>1, DeedType
  <2>3. ReportOf(t) \in Entry
    BY <2>1, ReportType DEF Typed, HoldsInv
  <2>4. written' \in SUBSET Entry
    BY <1>7, <2>3 DEF Typed, TypeOK, PutSum, FillSum, Reports
  <2>5. CASE Return(t)
    BY <1>7, <2>1, <2>2, <2>4, <2>5, ReturnType, ReturnHolds DEF Typed, TypeOK, PutSum, FillSum
  <2>6. CASE pc' = [pc EXCEPT ![t] = "fillSum"] /\ UNCHANGED <<buf, at, due, checked>>
    <3>1. pc' \in [Takers -> PCs] /\ HoldsInv'
      BY <2>1, <2>6 DEF Typed, TypeOK, HoldsInv, Writing, PCs
    <3> QED BY <1>7, <2>1, <2>2, <2>4, <2>6, <3>1 DEF Typed, TypeOK, PutSum, FillSum
  <2> QED BY <1>7, <2>5, <2>6 DEF PutSum, FillSum
<1>8. CASE WriteFails(t)
  <2>1. Writing(t) /\ faults' \in 0..MaxFaults
    BY <1>8, FailsType DEF Typed, WriteFails, Writing
  <2>2. /\ data' \in [Seconds -> Content] /\ sum' \in [Seconds -> Content]
        /\ opened' \in [Seconds -> SUBSET Deed]
        /\ \A s \in Seconds : data[s] # None => data'[s] # None
    BY <1>1, <1>8, <2>1, DeedType DEF Typed, TypeOK, WriteFails
  <2> QED BY <1>8, <2>1, <2>2, ReportType, ReturnType, ReturnHolds DEF Typed, TypeOK, WriteFails
<1> QED BY <1>2, <1>3, <1>4, <1>5, <1>6, <1>7, <1>8 DEF Take

LEMMA RestoreType ==
    ASSUME Typed, NEW a \in Admins, Restore(a)
    PROVE  Typed'
<1> USE DEF clock, files, history
<1>1. a \in Takers /\ at[a] \in Seconds /\ data[at[a]] \in Content
  BY DEF Typed, TypeOK, Takers
<1>2. ASSUME NEW s \in Seconds, StartRestore(a, s) PROVE Typed'
  <2>1. /\ \E to \in {"get", "stat"} : pc' = [pc EXCEPT ![a] = to]
        /\ at' = [at EXCEPT ![a] = s] /\ data[s] # None /\ UNCHANGED <<buf, data>>
    BY <1>2 DEF StartRestore, Goto
  <2>2. pc' \in [Takers -> PCs] /\ at' \in [Takers -> Seconds] /\ HoldsInv'
    BY <1>1, <2>1 DEF Typed, TypeOK, HoldsInv, Writing, PCs
  <2> QED BY <1>2, <2>2 DEF Typed, TypeOK, StartRestore
<1>3. CASE StatSum(a)
  <2>1. pc[a] = "stat" /\ (\E to \in {"get", "reread"} : pc' = [pc EXCEPT ![a] = to])
        /\ UNCHANGED <<at, buf, data>>
    BY <1>3 DEF StatSum, Goto
  <2>2. pc' \in [Takers -> PCs] /\ HoldsInv'
    BY <1>1, <2>1 DEF Typed, TypeOK, HoldsInv, Writing, PCs
  <2> QED BY <1>3, <2>2 DEF Typed, TypeOK, StatSum
<1>4. CASE GetData(a) \/ Reread(a)
  <2>1. /\ pc[a] \in {"get", "reread"} /\ \E to \in {"getSum", "submit"} : pc' = [pc EXCEPT ![a] = to]
        /\ buf' = [buf EXCEPT ![a] = data[at[a]]] /\ UNCHANGED <<at, data>>
    BY <1>4 DEF GetData, Reread, Goto
  <2>2. pc' \in [Takers -> PCs] /\ buf' \in [Takers -> Content] /\ HoldsInv'
    BY <1>1, <2>1 DEF Typed, TypeOK, HoldsInv, Writing, PCs
  <2> QED BY <1>4, <2>2 DEF Typed, TypeOK, GetData, Reread
<1>5. CASE GetSum(a)
  <2>1. CASE buf[a] # Cut /\ sum[at[a]] = buf[a]
    <3>1. /\ pc[a] = "getSum" /\ \E to \in {"reread", "submit"} : pc' = [pc EXCEPT ![a] = to]
          /\ (store # "s3" => pc'[a] = "reread")
          /\ UNCHANGED <<at, data, buf>> /\ checked' = [checked EXCEPT ![a] = buf[a]]
      BY <1>1, <1>5, <2>1 DEF Typed, TypeOK, GetSum
    <3>2. pc' \in [Takers -> PCs] /\ checked' \in [Admins -> Content]
      BY <1>1, <3>1 DEF Typed, TypeOK, PCs
    <3>3. HoldsInv'
      BY <1>1, <3>1 DEF Typed, TypeOK, HoldsInv, Writing, PCs
    <3> QED BY <1>5, <2>1, <3>2, <3>3 DEF Typed, TypeOK, GetSum
  <2>2. CASE Return(a)
    BY <1>1, <1>5, <2>2, ReturnType, ReturnHolds DEF Typed, TypeOK, GetSum
  <2> QED BY <1>5, <2>1, <2>2 DEF GetSum
<1>6. CASE Submit(a)
  <2>1. submitted' \in SUBSET Attempt
    <3>1. buf[a] \in Reads \union {Cut} /\ checked[a] \in Content
      BY <1>1, <1>6 DEF Typed, TypeOK, HoldsInv, Content, Submit
    <3>2. [at |-> at[a], data |-> buf[a], checked |-> checked[a]] \in Attempt
      BY <1>1, <3>1 DEF Attempt
    <3> QED BY <1>6, <3>2 DEF Typed, TypeOK, Submit
  <2>2. sealed' \in BOOLEAN
    BY <1>6 DEF Typed, TypeOK, Submit
  <2> QED BY <1>1, <1>6, <2>1, <2>2, ReturnType, ReturnHolds DEF Typed, TypeOK, Submit
<1> QED BY <1>2, <1>3, <1>4, <1>5, <1>6 DEF Restore

LEMMA WorldType ==
    ASSUME Typed, Tick \/ Unseal \/ (\E s \in Seconds : Rot(s)) \/ UNCHANGED vars
    PROVE  Typed'
<1> USE DEF files, history, process
<1>1. CASE Tick
  <2>1. now' \in Seconds
    BY <1>1, Bounds DEF Typed, TypeOK, Tick, Seconds
  <2> QED BY <1>1, <2>1 DEF Typed, TypeOK, HoldsInv, Writing, Tick
<1>2. CASE Unseal
  BY <1>2 DEF Typed, TypeOK, HoldsInv, Writing, Unseal, clock
<1>3. ASSUME NEW s \in Seconds, Rot(s) PROVE Typed'
  <2>1. data' = [data EXCEPT ![s] = Cut] /\ Cut \in Content /\ Cut # None /\ data[s] \in Reads
    BY <1>3, ReadsKnown DEF Rot, Content
  <2>2. [by |-> None, id |-> data[s]] \in Deed
    BY <2>1 DEF Deed
  <2>3. opened[s] \union {[by |-> None, id |-> data[s]]} \in SUBSET Deed
    BY <2>2 DEF Typed, TypeOK
  <2>4. opened' \in [Seconds -> SUBSET Deed]
    BY <1>3, <2>3 DEF Typed, TypeOK, Rot
  <2>5. data' \in [Seconds -> Content] /\ faults' \in 0..MaxFaults
    BY <1>3, <2>1, FailsType DEF Typed, TypeOK, Rot
  <2>6. HoldsInv'
    BY <1>3, <2>1 DEF Typed, TypeOK, HoldsInv, Writing, Rot
  <2> QED BY <1>3, <2>4, <2>5, <2>6 DEF Typed, TypeOK, Rot, clock
<1>4. CASE UNCHANGED vars
  BY <1>4 DEF Typed, TypeOK, HoldsInv, Writing, vars, clock
<1> QED BY <1>1, <1>2, <1>3, <1>4

LEMMA TypeStep == Typed /\ [Next]_vars => Typed'
BY ScheduleType, TakeType, RestoreType, WorldType DEF Next, Over

\* Every variable keeps its type: a process that writes never writes an empty
\* snapshot, and none reads what is not there.
THEOREM SnapshotsTyping == Spec => []TypeOK
<1>1. Typed => TypeOK
  BY DEF Typed
<1> QED BY InitType, TypeStep, <1>1, PTL DEF Spec

(***************************************************************************)
(* ReportedVerifies.  No two processes ever hold the same snapshot, and a  *)
(* process forgets its snapshot when it reports it.  So whoever writes     *)
(* under a name that already has a snapshot adds a deed of its own, and    *)
(* the name no longer counts as undisturbed.                               *)
(***************************************************************************)

\* What t has written, or rotted, under the name s.
Did(t, s, i) == [by |-> t, id |-> i] \in opened[s]

\* The process has put its data under the name at[t].
Opened(t) == pc[t] \in {"fill", "putSum", "fillSum"}

\* Snapshot i is done with: no process holds it to write it.
Settled(i) == i \in 1..taken /\ \A t \in Takers : Writing(t) => buf[t] # i

FreshInv ==
    /\ \A t \in Takers : Writing(t) => buf[t] \in 1..taken
    /\ \A t, u \in Takers : Writing(t) /\ Writing(u) /\ buf[t] = buf[u] => t = u

WroteInv ==
    /\ \A t \in Takers : Opened(t) => Did(t, at[t], buf[t])
    /\ \A t \in Takers : pc[t] \in {"putSum", "fillSum"} /\ Undisturbed(at[t]) => data[at[t]] = buf[t]
    /\ \A t \in Takers : pc[t] = "fill" /\ Undisturbed(at[t]) => data[at[t]] = Cut

SumInv ==
    \A s \in Seconds : sum[s] \in Reads =>
        /\ Settled(sum[s]) /\ \E t \in Takers : Did(t, s, sum[s])
        /\ Undisturbed(s) => data[s] = sum[s]

ReportInv ==
    \A w \in written :
        /\ Settled(w.id) /\ \E t \in Takers : Did(t, w.at, w.id)
        /\ Undisturbed(w.at) => sum[w.at] = w.id

StoredInv == FreshInv /\ WroteInv /\ SumInv /\ ReportInv

LEMMA StoredInit == Init => StoredInv
<1> SUFFICES ASSUME Init PROVE StoredInv
  OBVIOUS
<1>1. \A t \in Takers : pc[t] \in {"sleep", "idle"}
  BY DEF Init
<1>2. \A s \in Seconds : sum[s] \notin Reads
  BY ReadsKnown DEF Init
<1> QED BY <1>1, <1>2 DEF Init, StoredInv, FreshInv, WroteInv, SumInv, ReportInv, Writing, Opened

LEMMA StoredReported == Typed /\ StoredInv => ReportedVerifies
BY DEF Typed, TypeOK, Entry, StoredInv, SumInv, ReportInv, ReportedVerifies

\* A step after which every process that writes wrote before, with nothing new
\* under the names.
LEMMA QuietStored ==
    ASSUME Typed, StoredInv, UNCHANGED <<taken, data, sum, opened, written>>,
           \A t \in Takers : Writing(t)' =>
               Writing(t) /\ pc'[t] = pc[t] /\ buf'[t] = buf[t] /\ at'[t] = at[t]
    PROVE  StoredInv'
<1>1. \A s \in Seconds : Undisturbed(s)' <=> Undisturbed(s)
  BY DEF Undisturbed
<1>2. \A t \in Takers, s \in Seconds, i \in Reads : Did(t, s, i)' <=> Did(t, s, i)
  BY DEF Did
<1>3. \A i \in Reads : Settled(i) => Settled(i)'
  BY DEF Settled
<1>4. FreshInv'
  BY DEF StoredInv, FreshInv
<1>5. \A t \in Takers : at[t] \in Seconds /\ (Writing(t) => buf[t] \in Reads)
  BY DEF Typed, TypeOK, HoldsInv
<1>6. \A t \in Takers : Opened(t)' => Writing(t)' /\ Opened(t)
  BY DEF Opened, Writing
<1>7. \A t \in Takers : pc'[t] \in {"fill", "putSum", "fillSum"} => Writing(t)'
  BY DEF Writing
<1>8. WroteInv'
  BY <1>1, <1>2, <1>5, <1>6, <1>7 DEF StoredInv, WroteInv
<1>9. SumInv'
  BY <1>1, <1>2, <1>3 DEF StoredInv, SumInv
<1>10. ReportInv'
  BY <1>1, <1>2, <1>3 DEF StoredInv, ReportInv, Typed, TypeOK, Entry
<1> QED BY <1>4, <1>8, <1>9, <1>10 DEF StoredInv

\* A process that returns without having written.
LEMMA ReturnQuiet ==
    ASSUME Typed, StoredInv, NEW t \in Takers, Return(t), UNCHANGED <<taken, data, sum, opened, written>>
    PROVE  StoredInv'
<1>1. \A u \in Takers : Writing(u)' =>
           Writing(u) /\ pc'[u] = pc[u] /\ buf'[u] = buf[u] /\ at'[u] = at[u]
  BY DEF Typed, TypeOK, Return, Writing
<1> QED BY <1>1, QuietStored

\* A process that only moves between the steps that do not write.
LEMMA MoveQuiet ==
    ASSUME Typed, StoredInv, NEW t \in Takers, UNCHANGED <<taken, data, sum, opened, written>>,
           ~Writing(t), pc' = [pc EXCEPT ![t] = pc'[t]], ~Writing(t)',
           \A u \in Takers : u # t => buf'[u] = buf[u] /\ at'[u] = at[u]
    PROVE  StoredInv'
<1>1. \A u \in Takers : Writing(u)' =>
           Writing(u) /\ pc'[u] = pc[u] /\ buf'[u] = buf[u] /\ at'[u] = at[u]
  BY DEF Typed, TypeOK, Writing
<1> QED BY <1>1, QuietStored

\* Where a process puts something of its own, nothing else counts as undisturbed.
LEMMA Clash ==
    ASSUME Typed, StoredInv, NEW t \in Takers, Writing(t), NEW s \in Seconds,
           NEW D, opened[s] \subseteq D, [by |-> t, id |-> buf[t]] \in D, \A d, e \in D : d = e
    PROVE  /\ sum[s] \notin Reads
           /\ \A w \in written : w.at # s
           /\ \A u \in Takers : Opened(u) /\ at[u] = s => u = t
<1>1. \A u, i : Did(u, s, i) => u = t /\ i = buf[t]
  <2> SUFFICES ASSUME NEW u, NEW i, Did(u, s, i) PROVE u = t /\ i = buf[t]
    OBVIOUS
  <2>1. [by |-> u, id |-> i] = [by |-> t, id |-> buf[t]]
    BY DEF Did
  <2>2. [by |-> u, id |-> i].by = [by |-> t, id |-> buf[t]].by
        /\ [by |-> u, id |-> i].id = [by |-> t, id |-> buf[t]].id
    BY <2>1
  <2> QED BY <2>2
<1>2. sum[s] \notin Reads
  BY <1>1 DEF StoredInv, SumInv, Settled
<1>3. \A w \in written : w.at # s
  BY <1>1 DEF StoredInv, ReportInv, Settled
<1>4. \A u \in Takers : Opened(u) /\ at[u] = s => u = t
  BY <1>1 DEF StoredInv, WroteInv
<1> QED BY <1>2, <1>3, <1>4

\* Deeds are only added, and a name once disturbed stays so.
LEMMA DeedsStay ==
    ASSUME Typed, NEW s \in Seconds, NEW d, opened' = [opened EXCEPT ![s] = @ \union {d}]
    PROVE  /\ \A r \in Seconds : opened[r] \subseteq opened'[r] /\ (r # s => opened'[r] = opened[r])
           /\ \A r \in Seconds : Undisturbed(r)' => Undisturbed(r)
           /\ \A t \in Takers, r \in Seconds, i \in Reads : Did(t, r, i) => Did(t, r, i)'
           /\ d \in opened'[s]
<1>1. \A r \in Seconds : opened[r] \subseteq opened'[r] /\ (r # s => opened'[r] = opened[r])
  BY DEF Typed, TypeOK
<1>2. d \in opened'[s]
  BY DEF Typed, TypeOK
<1> QED BY <1>1, <1>2 DEF Undisturbed, Did

LEMMA ReadStored ==
    ASSUME Typed, StoredInv, NEW t \in Takers, RaftSnapshot(t)
    PROVE  StoredInv'
<1>1. /\ pc[t] = "read" /\ pc' = [pc EXCEPT ![t] = "put"] /\ taken' = taken + 1
      /\ buf' = [buf EXCEPT ![t] = taken + 1] /\ UNCHANGED <<data, sum, at, opened, written>>
  BY DEF RaftSnapshot, Goto, files, history
<1>2. taken \in Nat /\ pc'[t] = "put" /\ buf'[t] = taken + 1
      /\ \A u \in Takers : u # t => pc'[u] = pc[u] /\ buf'[u] = buf[u]
  BY <1>1, Bounds DEF Typed, TypeOK
<1>3. \A i : Settled(i) => Settled(i)'
  BY <1>1, <1>2 DEF Settled, Writing
<1>4. FreshInv'
  BY <1>1, <1>2 DEF StoredInv, FreshInv, Writing
<1>5. WroteInv'
  <2>1. \A u \in Takers : Opened(u)' => u # t /\ Opened(u)
    BY <1>2 DEF Opened
  <2>2. \A u \in Takers : pc'[u] \in {"fill", "putSum", "fillSum"} => u # t
    BY <1>2
  <2> QED BY <1>1, <1>2, <2>1, <2>2 DEF StoredInv, WroteInv, Did, Undisturbed
<1>6. SumInv'
  BY <1>1, <1>3 DEF StoredInv, SumInv, Did, Undisturbed
<1>7. ReportInv'
  BY <1>1, <1>3 DEF StoredInv, ReportInv, Did, Undisturbed
<1> QED BY <1>4, <1>5, <1>6, <1>7 DEF StoredInv

\* PutData, and a PutObject of it that was carried out although it failed.
LEMMA PutStored ==
    ASSUME Typed, StoredInv, NEW t \in Takers, pc[t] = "put", NEW s \in Seconds,
           opened' = [opened EXCEPT ![s] = @ \union {[by |-> t, id |-> buf[t]]}],
           NEW c \in {buf[t], Cut}, data' = [data EXCEPT ![s] = c],
           UNCHANGED <<taken, sum, written>>,
           \A u \in Takers : u # t => pc'[u] = pc[u] /\ buf'[u] = buf[u] /\ at'[u] = at[u],
           \/ ~Writing(t)'
           \/ /\ buf'[t] = buf[t] /\ at'[t] = s
              /\ \/ pc'[t] = "putSum" /\ c = buf[t]
                 \/ pc'[t] = "fill" /\ c = Cut
    PROVE  StoredInv'
<1>1. Writing(t) /\ buf[t] \in Reads /\ \A u \in Takers : at[u] \in Seconds /\ (Writing(u) => buf[u] \in Reads)
  BY DEF Typed, TypeOK, HoldsInv, Writing
<1>2. data'[s] = c /\ \A r \in Seconds : r # s => data'[r] = data[r]
  BY DEF Typed, TypeOK
<1>3. Undisturbed(s)' => /\ sum[s] \notin Reads
                         /\ \A w \in written : w.at # s
                         /\ \A u \in Takers : Opened(u) /\ at[u] = s => u = t
  <2> SUFFICES ASSUME \A d, e \in opened'[s] : d = e
               PROVE  /\ sum[s] \notin Reads
                      /\ \A w \in written : w.at # s
                      /\ \A u \in Takers : Opened(u) /\ at[u] = s => u = t
    BY DEF Undisturbed
  <2>1. opened[s] \subseteq opened'[s] /\ [by |-> t, id |-> buf[t]] \in opened'[s]
    BY DeedsStay
  <2> QED BY <1>1, <2>1, Clash
<1>4. \A u \in Takers : Writing(u)' => Writing(u) /\ buf'[u] = buf[u]
  BY <1>1 DEF Writing
<1>5. \A i : Settled(i) => Settled(i)'
  BY <1>4 DEF Settled
<1>6. FreshInv'
  BY <1>4 DEF StoredInv, FreshInv
<1>7. ASSUME NEW u \in Takers, Opened(u)'
      PROVE  /\ Did(u, at[u], buf[u])'
             /\ pc'[u] \in {"putSum", "fillSum"} /\ Undisturbed(at[u])' => data'[at'[u]] = buf'[u]
             /\ pc'[u] = "fill" /\ Undisturbed(at[u])' => data'[at'[u]] = Cut
  <2>1. CASE u = t
    <3>1. Writing(t)'
      BY <1>7, <2>1 DEF Opened, Writing
    <3>2. buf'[t] = buf[t] /\ at'[t] = s /\ ((pc'[t] = "putSum" /\ c = buf[t]) \/ (pc'[t] = "fill" /\ c = Cut))
      BY <3>1
    <3>3. Did(u, at[u], buf[u])'
      <4>1. [by |-> t, id |-> buf[t]] \in opened'[s]
        BY DeedsStay
      <4> QED BY <2>1, <3>2, <4>1 DEF Did
    <3> QED BY <1>2, <2>1, <3>2, <3>3
  <2>2. CASE u # t
    <3>1. Opened(u) /\ pc'[u] = pc[u] /\ buf'[u] = buf[u] /\ at'[u] = at[u] /\ Writing(u)
      BY <1>7, <2>2 DEF Opened, Writing
    <3>2. Did(u, at[u], buf[u])'
      BY <1>1, <3>1, DeedsStay DEF StoredInv, WroteInv, Did
    <3>3. Undisturbed(at[u])' => at[u] # s /\ Undisturbed(at[u])
      BY <1>1, <1>3, <2>2, <3>1, DeedsStay DEF Undisturbed
    <3> QED BY <1>1, <1>2, <3>1, <3>2, <3>3 DEF StoredInv, WroteInv
  <2> QED BY <2>1, <2>2
<1>8. WroteInv'
  BY <1>7 DEF WroteInv, Opened
<1>9. SumInv'
  BY <1>2, <1>3, <1>5, DeedsStay DEF StoredInv, SumInv
<1>10. ReportInv'
  <2>1. \A w \in written : w.at \in Seconds /\ w.id \in Reads
    BY DEF Typed, TypeOK, Entry
  <2> QED BY <1>5, <2>1, DeedsStay DEF StoredInv, ReportInv
<1> QED BY <1>6, <1>8, <1>9, <1>10 DEF StoredInv

LEMMA FillStored ==
    ASSUME Typed, StoredInv, NEW t \in Takers, FillData(t)
    PROVE  StoredInv'
<1> DEFINE s == at[t]
<1>1. /\ pc[t] = "fill" /\ pc' = [pc EXCEPT ![t] = "putSum"] /\ s \in Seconds
      /\ \E c \in {buf[t], Cut} : (data[s] = Cut => c = buf[t]) /\ data' = [data EXCEPT ![s] = c]
      /\ UNCHANGED <<taken, sum, buf, at, opened, written>>
  BY DEF Typed, TypeOK, FillData, Goto, history
<1>2. Writing(t) /\ Opened(t) /\ Did(t, s, buf[t])
  BY <1>1 DEF StoredInv, WroteInv, Writing, Opened
<1>3. Undisturbed(s) => /\ sum[s] \notin Reads
                        /\ \A u \in Takers : Opened(u) /\ at[u] = s => u = t
  BY <1>1, <1>2, Clash DEF Undisturbed, Did
<1>4. Undisturbed(s) => data'[s] = buf[t]
  <2> SUFFICES ASSUME Undisturbed(s) PROVE data'[s] = buf[t]
    OBVIOUS
  <2>1. data[s] = Cut
    BY <1>1 DEF StoredInv, WroteInv
  <2> QED BY <1>1, <2>1 DEF Typed, TypeOK
<1>5. \A r \in Seconds : r # s => data'[r] = data[r]
  BY <1>1 DEF Typed, TypeOK
<1>6. \A u \in Takers : at[u] \in Seconds /\ (u # t => pc'[u] = pc[u]) /\ pc'[t] = "putSum"
  BY <1>1 DEF Typed, TypeOK
<1>7. \A u \in Takers : (Writing(u)' <=> Writing(u)) /\ (Opened(u)' <=> Opened(u))
  BY <1>1, <1>6 DEF Writing, Opened
<1>8. FreshInv'
  BY <1>1, <1>7 DEF StoredInv, FreshInv
<1>9. WroteInv'
  <2>1. \A u \in Takers : Opened(u)' => Did(u, at[u], buf[u])'
    BY <1>1, <1>7 DEF StoredInv, WroteInv, Did
  <2>2. ASSUME NEW u \in Takers, pc'[u] \in {"fill", "putSum", "fillSum"}, Undisturbed(at[u])
        PROVE  /\ pc'[u] \in {"putSum", "fillSum"} => data'[at[u]] = buf[u]
               /\ pc'[u] = "fill" => data'[at[u]] = Cut
    <3>1. CASE u = t
      BY <1>4, <1>6, <2>2, <3>1
    <3>2. CASE u # t
      <4>1. Opened(u) /\ at[u] # s
        BY <1>3, <1>6, <2>2, <3>2 DEF Opened
      <4> QED BY <1>5, <1>6, <2>2, <3>2, <4>1 DEF StoredInv, WroteInv
    <3> QED BY <3>1, <3>2
  <2> QED BY <1>1, <2>1, <2>2 DEF WroteInv, Undisturbed
<1>10. SumInv'
  BY <1>1, <1>3, <1>5, <1>7 DEF StoredInv, SumInv, Settled, Did, Undisturbed
<1>11. ReportInv'
  BY <1>1, <1>7 DEF StoredInv, ReportInv, Settled, Did, Undisturbed
<1> QED BY <1>8, <1>9, <1>10, <1>11 DEF StoredInv

\* PutSum and FillSum, and a PutObject of the checksum carried out although it failed.
LEMMA SumStored ==
    ASSUME Typed, StoredInv, NEW t \in Takers, pc[t] \in {"putSum", "fillSum"},
           UNCHANGED <<taken, data, opened>>,
           \A u \in Takers : u # t => pc'[u] = pc[u] /\ buf'[u] = buf[u] /\ at'[u] = at[u],
           \/ /\ sum' = [sum EXCEPT ![at[t]] = buf[t]] /\ ~Writing(t)'
              /\ written' \in {written, written \union {ReportOf(t)}}
           \/ /\ sum' = [sum EXCEPT ![at[t]] = Cut] /\ UNCHANGED written
              /\ pc'[t] = "fillSum" /\ buf'[t] = buf[t] /\ at'[t] = at[t]
    PROVE  StoredInv'
<1> DEFINE s == at[t]
<1>1. Writing(t) /\ Opened(t) /\ Did(t, s, buf[t]) /\ s \in Seconds /\ buf[t] \in Reads
  BY DEF Typed, TypeOK, HoldsInv, StoredInv, WroteInv, Writing, Opened
<1>2. Undisturbed(s) => data[s] = buf[t] /\ \A w \in written : w.at # s
  BY <1>1, Clash DEF StoredInv, WroteInv, Undisturbed, Did
<1>3. \A u \in Takers : Writing(u)' => Writing(u) /\ buf'[u] = buf[u] /\ at'[u] = at[u]
  BY <1>1 DEF Writing
<1>4. \A i : Settled(i) => Settled(i)'
  BY <1>3 DEF Settled
<1>5. FreshInv'
  BY <1>3 DEF StoredInv, FreshInv
<1>6. WroteInv'
  <2>1. \A u \in Takers : Opened(u)' => Writing(u)' /\ Opened(u)
    BY <1>1 DEF Opened, Writing
  <2>2. \A u \in Takers : pc'[u] \in {"fill", "putSum", "fillSum"} => Writing(u)'
    BY DEF Writing
  <2>3. \A u \in Takers : Opened(u)' => Did(u, at[u], buf[u])'
    BY <1>3, <2>1 DEF StoredInv, WroteInv, Did
  <2>4. \A u \in Takers : pc'[u] \in {"putSum", "fillSum"} /\ Undisturbed(at[u]) => data[at[u]] = buf[u]
    BY <1>2, <2>2 DEF StoredInv, WroteInv
  <2>5. \A u \in Takers : pc'[u] = "fill" => pc[u] = "fill"
    BY <1>1, <1>3, <2>2
  <2> QED BY <1>3, <2>2, <2>3, <2>4, <2>5 DEF StoredInv, WroteInv, Undisturbed
<1>10. PICK i \in Reads : i = buf[t]
  BY <1>1
<1>7. ~Writing(t)' => Settled(i)'
  BY <1>1, <1>3, <1>10 DEF StoredInv, FreshInv, Settled
<1>8. SumInv'
  <2> SUFFICES ASSUME NEW r \in Seconds, sum'[r] \in Reads
               PROVE  /\ Settled(sum[r])' /\ \E u \in Takers : Did(u, r, sum[r])'
                      /\ Undisturbed(r) => data[r] = sum'[r]
    BY DEF SumInv, Undisturbed
  <2>1. CASE r # s \/ sum'[s] \notin Reads
    <3>1. r # s /\ sum'[r] = sum[r]
      BY <2>1 DEF Typed, TypeOK
    <3> QED BY <1>4, <3>1 DEF StoredInv, SumInv, Did
  <2>2. CASE r = s /\ sum'[s] \in Reads
    <3>1. sum'[s] = buf[t] /\ ~Writing(t)'
      BY <1>1, <2>2, ReadsKnown DEF Typed, TypeOK
    <3>2. Settled(i)' /\ [by |-> t, id |-> i] \in opened'[r] /\ sum'[r] = i
      BY <1>1, <1>7, <1>10, <2>2, <3>1 DEF Did
    <3>3. Undisturbed(r) => data[r] = sum'[r]
      BY <1>2, <1>10, <2>2, <3>2
    <3>4. \E u \in Takers : Did(u, r, sum[r])'
      BY <3>2 DEF Did
    <3>5. Settled(sum[r])'
      BY <3>2 DEF Settled
    <3> QED BY <3>3, <3>4, <3>5
  <2> QED BY <2>1, <2>2
<1>9. ReportInv'
  <2> SUFFICES ASSUME NEW w \in written'
               PROVE  /\ Settled(w.id)' /\ \E u \in Takers : Did(u, w.at, w.id)'
                      /\ Undisturbed(w.at) => sum'[w.at] = w.id
    BY DEF ReportInv, Undisturbed
  <2>1. CASE w \in written
    <3>1. w.at \in Seconds /\ (Undisturbed(w.at) => w.at # s)
      BY <1>2, <2>1 DEF Typed, TypeOK, Entry
    <3>2. Undisturbed(w.at) => sum'[w.at] = sum[w.at]
      BY <3>1 DEF Typed, TypeOK
    <3> QED BY <1>4, <2>1, <3>2 DEF StoredInv, ReportInv, Did
  <2>2. CASE w \notin written
    <3>1. w.id = buf[t] /\ w.at = s /\ ~Writing(t)' /\ sum'[s] = buf[t]
      BY <1>1, <2>2 DEF Typed, TypeOK, ReportOf
    <3>2. Settled(i)' /\ w.id = i /\ w.at = s /\ [by |-> t, id |-> i] \in opened'[s]
      BY <1>1, <1>7, <1>10, <3>1 DEF Did
    <3> QED BY <1>10, <3>1, <3>2 DEF Did
  <2> QED BY <2>1, <2>2
<1> QED BY <1>5, <1>6, <1>8, <1>9 DEF StoredInv

LEMMA TakeStored ==
    ASSUME Typed, StoredInv, NEW t \in Takers, Take(t)
    PROVE  StoredInv'
<1> USE DEF clock, files, history
<1>1. CASE StartTake(t)
  <2>1. pc[t] = "idle" /\ pc' = [pc EXCEPT ![t] = "read"] /\ pc'[t] = "read"
        /\ UNCHANGED <<buf, at, taken, data, sum, opened, written>>
    BY <1>1 DEF Typed, TypeOK, StartTake, Goto
  <2> QED BY <2>1, MoveQuiet DEF Writing
<1>2. CASE RaftSnapshot(t)
  BY <1>2, ReadStored
<1>3. CASE RaftSnapshotFails(t)
  BY <1>3, ReturnQuiet DEF RaftSnapshotFails
<1>4. CASE PutData(t)
  <2>1. PICK c \in {buf[t], Cut} : /\ data' = [data EXCEPT ![now] = c]
                                   /\ c = IF store = "s3" THEN buf[t] ELSE Cut
    BY <1>4 DEF PutData
  <2>2. /\ pc[t] = "put" /\ now \in Seconds /\ UNCHANGED <<taken, sum, written, buf>>
        /\ opened' = [opened EXCEPT ![now] = @ \union {[by |-> t, id |-> buf[t]]}]
        /\ \A u \in Takers : u # t => pc'[u] = pc[u] /\ buf'[u] = buf[u] /\ at'[u] = at[u]
    BY <1>4 DEF Typed, TypeOK, PutData, Goto
  <2>3. /\ buf'[t] = buf[t] /\ at'[t] = now
        /\ \/ pc'[t] = "putSum" /\ c = buf[t]
           \/ pc'[t] = "fill" /\ c = Cut
    BY <1>4, <2>1 DEF Typed, TypeOK, PutData, Goto
  <2> QED BY <2>1, <2>2, <2>3, PutStored
<1>5. CASE FillData(t)
  BY <1>5, FillStored
<1>6. CASE PutSum(t) \/ FillSum(t) \/ (WriteFails(t) /\ sum' # sum)
  <2>1. pc[t] \in {"putSum", "fillSum"} /\ UNCHANGED <<taken, data, opened>>
    BY <1>6 DEF PutSum, FillSum, WriteFails
  <2>2. CASE Return(t)
    <3>1. /\ ~Writing(t)'
          /\ \A u \in Takers : u # t => pc'[u] = pc[u] /\ buf'[u] = buf[u] /\ at'[u] = at[u]
      BY <2>2 DEF Typed, TypeOK, Return, Writing
    <3>2. /\ sum' = [sum EXCEPT ![at[t]] = buf[t]]
          /\ written' \in {written, written \union {ReportOf(t)}}
      <4>1. CASE PutSum(t)
        <5>1. pc'[t] # "fillSum"
          BY <3>1 DEF Writing
        <5> QED BY <4>1, <5>1 DEF Typed, TypeOK, PutSum, Reports
      <4>2. CASE FillSum(t)
        BY <4>2 DEF FillSum, Reports
      <4>3. CASE WriteFails(t) /\ sum' # sum
        BY <4>3 DEF WriteFails
      <4> QED BY <1>6, <4>1, <4>2, <4>3
    <3> QED BY <2>1, <3>1, <3>2, SumStored
  <2>3. CASE PutSum(t) /\ store # "s3"
    <3>1. /\ sum' = [sum EXCEPT ![at[t]] = Cut] /\ UNCHANGED written
          /\ pc'[t] = "fillSum" /\ buf'[t] = buf[t] /\ at'[t] = at[t]
          /\ \A u \in Takers : u # t => pc'[u] = pc[u] /\ buf'[u] = buf[u] /\ at'[u] = at[u]
      BY <2>3 DEF Typed, TypeOK, PutSum
    <3> QED BY <2>1, <3>1, SumStored
  <2> QED BY <1>6, <2>2, <2>3 DEF PutSum, FillSum, WriteFails
<1>7. CASE WriteFails(t) /\ sum' = sum
  <2>1. /\ Return(t) /\ ~Writing(t)' /\ UNCHANGED <<taken, sum, written>>
        /\ \A u \in Takers : u # t => pc'[u] = pc[u] /\ buf'[u] = buf[u] /\ at'[u] = at[u]
    BY <1>7 DEF Typed, TypeOK, WriteFails, Return, Writing
  <2>2. CASE UNCHANGED <<data, opened>>
    BY <2>1, <2>2, ReturnQuiet
  <2>3. CASE /\ pc[t] = "put" /\ data' = [data EXCEPT ![now] = buf[t]]
             /\ opened' = [opened EXCEPT ![now] = @ \union {[by |-> t, id |-> buf[t]]}]
    <3>1. now \in Seconds
      BY DEF Typed, TypeOK
    <3> QED BY <2>1, <2>3, <3>1, PutStored
  <2> QED BY <1>7, <2>2, <2>3 DEF WriteFails
<1> QED BY <1>1, <1>2, <1>3, <1>4, <1>5, <1>6, <1>7 DEF Take

LEMMA RestoreStored ==
    ASSUME Typed, StoredInv, NEW a \in Admins, Restore(a)
    PROVE  StoredInv'
<1> USE DEF clock, files, history
<1>1. a \in Takers
  BY DEF Takers
<1>2. ASSUME NEW s \in Seconds, StartRestore(a, s) \/ StatSum(a) \/ GetData(a) \/ Reread(a)
      PROVE  StoredInv'
  <2>1. /\ pc[a] \in {"idle", "stat", "get", "reread"} /\ UNCHANGED <<taken, data, sum, opened, written>>
        /\ \E to \in {"stat", "get", "getSum", "reread", "submit"} : pc' = [pc EXCEPT ![a] = to]
        /\ \A u \in Takers : u # a => buf'[u] = buf[u] /\ at'[u] = at[u]
    BY <1>2 DEF Typed, TypeOK, StartRestore, StatSum, GetData, Reread, Goto
  <2>2. ~Writing(a) /\ ~Writing(a)' /\ pc' = [pc EXCEPT ![a] = pc'[a]]
    BY <1>1, <2>1 DEF Typed, TypeOK, Writing
  <2> QED BY <1>1, <2>1, <2>2, MoveQuiet
<1>3. CASE GetSum(a)
  <2>1. CASE Return(a)
    BY <1>1, <1>3, <2>1, ReturnQuiet DEF GetSum
  <2>2. CASE ~Return(a)
    <3>1. /\ pc[a] = "getSum" /\ UNCHANGED <<buf, at, taken, data, sum, opened, written>>
          /\ \E to \in {"reread", "submit"} : pc' = [pc EXCEPT ![a] = to]
      BY <1>3, <2>2 DEF GetSum
    <3>2. ~Writing(a) /\ ~Writing(a)' /\ pc' = [pc EXCEPT ![a] = pc'[a]]
      BY <1>1, <3>1 DEF Typed, TypeOK, Writing
    <3> QED BY <1>1, <3>1, <3>2, MoveQuiet
  <2> QED BY <2>1, <2>2
<1>4. CASE Submit(a)
  BY <1>1, <1>4, ReturnQuiet DEF Submit
<1> QED BY <1>2, <1>3, <1>4, Bounds DEF Restore, Seconds

LEMMA ScheduleStored ==
    ASSUME Typed, StoredInv, NEW n \in Nodes, Schedule(n) \/ Elect(n)
    PROVE  StoredInv'
<1> USE DEF clock, files, history
<1>1. n \in Takers
  BY DEF Takers
<1>2. CASE LookFails(n) \/ (Look(n) /\ leader # n)
  BY <1>1, <1>2, ReturnQuiet DEF Look, LookFails
<1>3. CASE Wake(n) \/ (Look(n) /\ leader = n)
  <2>1. /\ pc[n] \in {"sleep", "look"} /\ UNCHANGED <<buf, at, taken, data, sum, opened, written>>
        /\ \E to \in {"look", "read"} : pc' = [pc EXCEPT ![n] = to]
    BY <1>3 DEF Wake, Look, Goto
  <2>2. ~Writing(n) /\ ~Writing(n)' /\ pc' = [pc EXCEPT ![n] = pc'[n]]
    BY <1>1, <2>1 DEF Typed, TypeOK, Writing
  <2> QED BY <1>1, <2>1, <2>2, MoveQuiet
<1>4. CASE Elect(n)
  BY <1>4, QuietStored DEF Elect, process, Writing
<1> QED BY <1>2, <1>3, <1>4 DEF Schedule

LEMMA RotStored ==
    ASSUME Typed, StoredInv, NEW s \in Seconds, Rot(s)
    PROVE  StoredInv'
<1> DEFINE d == [by |-> None, id |-> data[s]]
<1>1. /\ data' = [data EXCEPT ![s] = Cut] /\ opened' = [opened EXCEPT ![s] = @ \union {d}]
      /\ UNCHANGED <<taken, sum, pc, buf, at, written>>
  BY DEF Rot, process
<1>2. \A t \in Takers : \A i : Did(t, s, i) => ~Undisturbed(s)'
  <2> SUFFICES ASSUME NEW t \in Takers, NEW i, Did(t, s, i), Undisturbed(s)' PROVE FALSE
    OBVIOUS
  <2>1. [by |-> t, id |-> i] = d
    <3>1. [by |-> t, id |-> i] \in opened'[s] /\ d \in opened'[s]
      BY <1>1 DEF Typed, TypeOK, Did
    <3> QED BY <3>1 DEF Undisturbed
  <2>2. [by |-> t, id |-> i].by = d.by
    BY <2>1
  <2> QED BY <2>2, Marks DEF Takers
<1>3. \A t \in Takers, r \in Seconds, i \in Reads : Did(t, r, i) => Did(t, r, i)'
  BY <1>1 DEF Typed, TypeOK, Did
<1>4. \A r \in Seconds : /\ Undisturbed(r)' => Undisturbed(r)
                         /\ r # s => data'[r] = data[r]
  BY <1>1 DEF Typed, TypeOK, Undisturbed
<1>5. \A i : Settled(i) => Settled(i)'
  BY <1>1 DEF Settled, Writing
<1>6. FreshInv'
  BY <1>1 DEF StoredInv, FreshInv, Writing
<1>7. WroteInv'
  <2> SUFFICES ASSUME NEW t \in Takers, Opened(t)
               PROVE  /\ Did(t, at[t], buf[t])'
                      /\ Undisturbed(at[t])' => at[t] # s /\ Undisturbed(at[t])
    BY <1>1, <1>4 DEF StoredInv, WroteInv, Opened, Typed, TypeOK
  <2>1. at[t] \in Seconds /\ buf[t] \in Reads /\ Did(t, at[t], buf[t])
    BY DEF Typed, TypeOK, HoldsInv, StoredInv, WroteInv, Opened, Writing
  <2>2. Did(t, at[t], buf[t])'
    BY <1>1, <1>3, <2>1 DEF Did
  <2>3. Undisturbed(at[t])' => at[t] # s /\ Undisturbed(at[t])
    BY <1>1, <1>2, <1>4, <2>1 DEF Undisturbed
  <2> QED BY <2>2, <2>3
<1>8. SumInv'
  BY <1>1, <1>2, <1>3, <1>4, <1>5 DEF StoredInv, SumInv
<1>9. ReportInv'
  <2>1. \A w \in written : w.at \in Seconds /\ w.id \in Reads
    BY DEF Typed, TypeOK, Entry
  <2> QED BY <1>1, <1>3, <1>4, <1>5, <2>1 DEF StoredInv, ReportInv
<1> QED BY <1>6, <1>7, <1>8, <1>9 DEF StoredInv

LEMMA StoredStep == Typed /\ StoredInv /\ [Next]_vars => StoredInv'
<1> SUFFICES ASSUME Typed, StoredInv, [Next]_vars PROVE StoredInv'
  OBVIOUS
<1>1. CASE Tick \/ Unseal \/ UNCHANGED vars
  BY <1>1, QuietStored DEF Tick, Unseal, vars, clock, files, process, history, Writing
<1> QED BY <1>1, ScheduleStored, TakeStored, RestoreStored, RotStored DEF Next, Over

\* A snapshot that was reported written can be verified and restored from then on.
THEOREM Reported == Spec => []ReportedVerifies
<1> QED BY InitType, TypeStep, StoredInit, StoredStep, StoredReported, PTL DEF Spec
-----------------------------------------------------------------------------
(* What Vault is asked to restore.                                         *)

\* How far restore a has come: what it submits it has verified, or it found no
\* checksum beside the file, or the file was disturbed since.
Restoring(a) ==
    /\ pc[a] \in {"stat", "reread"} => store = "dir"
    /\ pc[a] \notin {"reread", "submit"} => checked[a] = None
    /\ pc[a] = "reread" /\ checked[a] # None /\ Undisturbed(at[a]) => sum[at[a]] \in Reads
    /\ pc[a] = "submit" /\ buf[a] = Cut => store = "dir" /\ (checked[a] = None \/ ~Undisturbed(at[a]))
RestoringInv == (\A a \in Admins : Restoring(a)) /\ RestoredWhole

\* Nothing becomes undisturbed, and an undisturbed checksum stays.
LEMMA SumsStay ==
    ASSUME Typed, StoredInv, [Next]_vars, NEW s \in Seconds, Undisturbed(s)'
    PROVE  Undisturbed(s) /\ (sum[s] \in Reads => sum'[s] \in Reads)
<1> USE DEF clock, files, history
<1>1. opened[s] \subseteq opened'[s]
  <2>1. CASE UNCHANGED opened
    BY <2>1
  <2>2. ASSUME NEW r \in Seconds, NEW d, opened' = [opened EXCEPT ![r] = @ \union {d}]
        PROVE  opened[s] \subseteq opened'[s]
    BY <2>2, DeedsStay
  <2>3. ASSUME NEW t \in Takers, Take(t) PROVE opened[s] \subseteq opened'[s]
    <3>1. now \in Seconds
      BY DEF Typed, TypeOK
    <3>2. UNCHANGED opened \/ opened' = [opened EXCEPT ![now] = @ \union {[by |-> t, id |-> buf[t]]}]
      BY <2>3 DEF Take, StartTake, RaftSnapshot, RaftSnapshotFails, PutData, FillData, PutSum, FillSum, WriteFails
    <3> QED BY <2>1, <2>2, <3>1, <3>2
  <2>4. ASSUME NEW r \in Seconds, Rot(r) PROVE opened[s] \subseteq opened'[s]
    BY <2>2, <2>4 DEF Rot
  <2>5. ASSUME \/ \E n \in Nodes : Schedule(n) \/ Elect(n)
               \/ \E a \in Admins : Restore(a)
               \/ Tick \/ Unseal \/ UNCHANGED vars
        PROVE  UNCHANGED opened
    BY <2>5 DEF Schedule, Wake, Look, LookFails, Elect, Restore, StartRestore, StatSum, GetData, GetSum,
                Reread, Submit, Tick, Unseal, vars
  <2> QED BY <2>1, <2>3, <2>4, <2>5 DEF Next, Over
<1>2. Undisturbed(s)
  BY <1>1 DEF Undisturbed
<1>3. ASSUME sum[s] \in Reads PROVE sum'[s] \in Reads
  <2>1. CASE UNCHANGED sum
    BY <1>3, <2>1
  <2>2. ASSUME NEW t \in Takers, pc[t] \in {"putSum", "fillSum"}, sum' = [sum EXCEPT ![at[t]] = buf[t]]
        PROVE  sum'[s] \in Reads
    BY <1>3, <2>2 DEF Typed, TypeOK, HoldsInv, Writing
  <2>3. ASSUME NEW t \in Takers, pc[t] = "putSum", sum' = [sum EXCEPT ![at[t]] = Cut]
        PROVE  sum'[s] \in Reads
    <3>1. CASE at[t] = s
      <4>1. Writing(t) /\ [by |-> t, id |-> buf[t]] \in opened[s]
        BY <2>3, <3>1 DEF StoredInv, WroteInv, Opened, Writing, Did
      <4> QED BY <1>2, <1>3, <4>1, Clash DEF Undisturbed
    <3>2. CASE at[t] # s
      BY <1>3, <2>3, <3>2 DEF Typed, TypeOK
    <3> QED BY <3>1, <3>2
  <2>4. ASSUME NEW t \in Takers, Take(t) PROVE sum'[s] \in Reads
    BY <2>1, <2>2, <2>3, <2>4 DEF Take, StartTake, RaftSnapshot, RaftSnapshotFails, PutData,
                 FillData, PutSum, FillSum, WriteFails
  <2> QED BY <2>1, <2>4 DEF Next, Schedule, Wake, Look, LookFails, Elect, Restore,
             StartRestore, StatSum, GetData, GetSum, Reread, Submit, Rot, process, Tick, Unseal, Over, vars
<1> QED BY <1>2, <1>3

\* A step leaves a restore alone that it is not a step of.
LEMMA RestoreAlone ==
    ASSUME Typed, StoredInv, [Next]_vars, NEW a \in Admins, Restoring(a), store' = store,
           pc'[a] = pc[a], buf'[a] = buf[a], at'[a] = at[a], checked'[a] = checked[a]
    PROVE  Restoring(a)'
<1>1. at[a] \in Seconds
  BY DEF Typed, TypeOK, Takers
<1>2. Undisturbed(at[a])' => Undisturbed(at[a]) /\ (sum[at[a]] \in Reads => sum'[at[a]] \in Reads)
  BY <1>1, SumsStay
<1>3. at[a]' = at[a] /\ sum[at[a]]' = sum'[at[a]] /\ (Undisturbed(at[a])' <=> \A d, e \in opened'[at[a]] : d = e)
  BY DEF Undisturbed
<1> QED BY <1>2, <1>3 DEF Restoring, Undisturbed

\* A process that returns, or takes a snapshot, is at no step of a restore.
LEMMA TakeRestoring ==
    ASSUME Typed, StoredInv, NEW a \in Admins, Restoring(a), store' = store,
           \/ Return(a)
           \/ checked' = checked /\ pc[a] \notin {"reread", "submit"} /\ pc'[a] \notin {"stat", "reread", "submit"}
    PROVE  Restoring(a)'
<1>1. CASE Return(a)
  <2>1. checked'[a] = None /\ pc'[a] \in {"sleep", "idle"}
    BY <1>1 DEF Typed, TypeOK, Return, Takers
  <2> QED BY <2>1 DEF Restoring
<1>2. CASE checked' = checked /\ pc[a] \notin {"reread", "submit"} /\ pc'[a] \notin {"stat", "reread", "submit"}
  BY <1>2 DEF Restoring
<1> QED BY <1>1, <1>2

\* The steps of the restore itself.
LEMMA RestoreRestoring ==
    ASSUME Typed, StoredInv, NEW a \in Admins, Restoring(a), Restore(a)
    PROVE  Restoring(a)'
<1> USE DEF files
<1>1. a \in Takers /\ at[a] \in Seconds /\ store' = store
  BY DEF Typed, TypeOK, Takers, Restore, StartRestore, StatSum, GetData, GetSum, Reread, Submit
<1>2. CASE (\E s \in Seconds : StartRestore(a, s)) \/ StatSum(a) \/ GetData(a)
  <2>1. /\ checked' = checked /\ checked[a] = None /\ pc'[a] \in {"stat", "get", "getSum", "reread"}
        /\ pc'[a] \in {"stat", "reread"} => store = "dir"
    BY <1>1, <1>2 DEF Typed, TypeOK, Restoring, StartRestore, StatSum, GetData, Goto
  <2> QED BY <1>1, <2>1 DEF Restoring
<1>3. CASE GetSum(a)
  <2>1. CASE ~Return(a)
    <3>1. /\ buf[a] # Cut /\ sum[at[a]] = buf[a] /\ UNCHANGED <<buf, at, sum>>
          /\ pc'[a] = (IF store = "s3" THEN "submit" ELSE "reread") /\ checked'[a] = buf[a]
      BY <1>1, <1>3, <2>1 DEF Typed, TypeOK, GetSum
    <3>2. checked'[a] # None => sum'[at'[a]] \in Reads
      BY <1>1, <3>1 DEF Typed, TypeOK, Content
    <3> QED BY <1>1, <3>1, <3>2 DEF Restoring, Typed, TypeOK
  <2> QED BY <1>1, <2>1, TakeRestoring
<1>4. CASE Reread(a)
  <2>1. /\ pc[a] = "reread" /\ pc'[a] = "submit" /\ buf'[a] = data[at[a]] /\ store = "dir"
        /\ UNCHANGED <<at, checked, opened>>
    BY <1>1, <1>4 DEF Typed, TypeOK, Reread, Goto, Restoring, history
  <2>2. checked[a] # None /\ Undisturbed(at[a]) => data[at[a]] \in Reads
    BY <1>1, <2>1 DEF Restoring, StoredInv, SumInv
  <2>3. Undisturbed(at[a])' <=> Undisturbed(at[a])
    BY <2>1 DEF Undisturbed
  <2> QED BY <1>1, <2>1, <2>2, <2>3, ReadsKnown DEF Restoring
<1>5. CASE Submit(a)
  BY <1>1, <1>5, TakeRestoring DEF Submit
<1> QED BY <1>2, <1>3, <1>4, <1>5 DEF Restore

\* Only Submit asks Vault to restore anything, and no step moves the store.
LEMMA StoreStays == [Next]_vars => store' = store
BY DEF Next, vars, Schedule, Take, Restore, Wake, Look, LookFails, StartTake, RaftSnapshot, RaftSnapshotFails,
    PutData, FillData, PutSum, FillSum, WriteFails, StartRestore, StatSum, GetData, GetSum, Reread, Submit,
    Tick, Elect, Unseal, Rot, Over

LEMMA SubmittedBy ==
    ASSUME [Next]_vars, NEW r \in submitted', r \notin submitted
    PROVE  \E a \in Admins : Submit(a) /\ r = [at |-> at[a], data |-> buf[a], checked |-> checked[a]]
<1>1. submitted' # submitted
  OBVIOUS
<1>2. PICK a \in Admins : Submit(a)
  BY <1>1 DEF Next, vars, history, Schedule, Take, Restore, Wake, Look, LookFails, StartTake, RaftSnapshot,
    RaftSnapshotFails, PutData, FillData, PutSum, FillSum, WriteFails, StartRestore, StatSum, GetData, GetSum,
    Reread, Tick, Elect, Unseal, Rot, Over
<1> QED BY <1>2 DEF Submit

LEMMA RestoringStep == Typed /\ StoredInv /\ RestoringInv /\ [Next]_vars => RestoringInv'
<1> SUFFICES ASSUME Typed, StoredInv, RestoringInv, [Next]_vars PROVE RestoringInv'
  OBVIOUS
<1> USE DEF clock, files, process, history
<1>1. ASSUME NEW a \in Admins PROVE Restoring(a)'
  <2>1. a \in Takers /\ a \notin Nodes /\ Restoring(a)
    BY Marks DEF Takers, RestoringInv
  <2>2. CASE /\ store' = store
             /\ pc'[a] = pc[a] /\ buf'[a] = buf[a] /\ at'[a] = at[a] /\ checked'[a] = checked[a]
    BY <2>1, <2>2, RestoreAlone
  <2>3. ASSUME NEW t \in Takers, t # a, Return(t), store' = store PROVE Restoring(a)'
    <3>1. pc'[a] = pc[a] /\ buf'[a] = buf[a] /\ at'[a] = at[a] /\ checked'[a] = checked[a]
      BY <2>1, <2>3 DEF Typed, TypeOK, Return
    <3> QED BY <2>2, <2>3, <3>1
  <2>4. ASSUME NEW n \in Nodes, Schedule(n) \/ Elect(n) PROVE Restoring(a)'
    <3>1. n \in Takers /\ n # a /\ store' = store
      BY <2>1, <2>4 DEF Takers, Schedule, Wake, Look, LookFails, Elect
    <3>2. CASE ~Return(n)
      <4>1. pc'[a] = pc[a] /\ buf'[a] = buf[a] /\ at'[a] = at[a] /\ checked'[a] = checked[a]
        BY <2>1, <2>4, <3>1, <3>2 DEF Typed, TypeOK, Schedule, Wake, Look, LookFails, Elect, Goto
      <4> QED BY <2>2, <3>1, <4>1
    <3> QED BY <2>3, <3>1, <3>2
  <2>5. ASSUME NEW t \in Takers, Take(t) PROVE Restoring(a)'
    <3>1. store' = store
      BY <2>5 DEF Take, StartTake, RaftSnapshot, RaftSnapshotFails, PutData, FillData, PutSum, FillSum, WriteFails
    <3>2. CASE ~Return(t)
      <4>1. /\ checked' = checked
            /\ pc[t] \notin {"reread", "submit"} /\ pc'[t] \notin {"stat", "reread", "submit"}
            /\ t # a => pc'[a] = pc[a] /\ buf'[a] = buf[a] /\ at'[a] = at[a]
        BY <2>1, <2>5, <3>2 DEF Typed, TypeOK, Take, StartTake, RaftSnapshot, RaftSnapshotFails, PutData,
             FillData, PutSum, FillSum, WriteFails, Goto
      <4> QED BY <2>1, <2>2, <3>1, <4>1, TakeRestoring
    <3> QED BY <2>1, <2>3, <3>1, <3>2, TakeRestoring
  <2>6. ASSUME NEW b \in Admins, Restore(b) PROVE Restoring(a)'
    <3>1. CASE b = a
      BY <2>1, <2>6, <3>1, RestoreRestoring
    <3>2. CASE b # a
      <4>1. b \in Takers /\ store' = store
        BY <2>6 DEF Takers, Restore, StartRestore, StatSum, GetData, GetSum, Reread, Submit
      <4>2. CASE ~Return(b)
        <5>1. pc'[a] = pc[a] /\ buf'[a] = buf[a] /\ at'[a] = at[a] /\ checked'[a] = checked[a]
          BY <2>1, <2>6, <3>2, <4>1, <4>2 DEF Typed, TypeOK, Restore, StartRestore, StatSum, GetData, GetSum,
               Reread, Submit, Goto
        <5> QED BY <2>2, <4>1, <5>1
      <4> QED BY <2>3, <3>2, <4>1, <4>2
    <3> QED BY <3>1, <3>2
  <2>7. CASE (\E s \in Seconds : Rot(s)) \/ Tick \/ Unseal \/ UNCHANGED vars
    BY <2>2, <2>7 DEF Rot, Tick, Unseal, vars
  <2> QED BY <2>4, <2>5, <2>6, <2>7 DEF Next, Over
<1>2. RestoredWhole'
  <2> SUFFICES ASSUME NEW r \in submitted', r.data = Cut
               PROVE  store' = "dir" /\ (r.checked = None \/ ~Undisturbed(r.at)')
    BY DEF RestoredWhole, Undisturbed
  <2>1. CASE r \in submitted
    <3>1. store = "dir" /\ (r.checked = None \/ ~Undisturbed(r.at)) /\ r.at \in Seconds
      BY <2>1 DEF RestoringInv, RestoredWhole, Typed, TypeOK, Attempt
    <3>2. store' = store
      BY StoreStays
    <3> QED BY <3>1, <3>2, SumsStay
  <2>2. CASE r \notin submitted
    <3>1. PICK a \in Admins : Submit(a) /\ r = [at |-> at[a], data |-> buf[a], checked |-> checked[a]]
      BY <2>2, SubmittedBy
    <3>2. store = "dir" /\ (checked[a] = None \/ ~Undisturbed(at[a])) /\ UNCHANGED <<store, opened>>
      BY <3>1 DEF RestoringInv, Restoring, Submit
    <3> QED BY <3>1, <3>2 DEF Undisturbed
  <2> QED BY <2>1, <2>2
<1> QED BY <1>1, <1>2 DEF RestoringInv

LEMMA RestoringInit == Init => RestoringInv
BY DEF Init, RestoringInv, Restoring, RestoredWhole, Takers, Scheduled

\* Vault is asked to restore only what one process read whole: from S3 always,
\* from a file unless it had no checksum or was disturbed after its verification.
THEOREM Restored == Spec => []RestoredWhole
<1>1. RestoringInv => RestoredWhole
  BY DEF RestoringInv
<1> QED BY <1>1, InitType, TypeStep, StoredInit, StoredStep, RestoringInit, RestoringStep, PTL DEF Spec

(***************************************************************************)
(* One snapshot per tick.  A node is at one tick at a time and looks at it *)
(* once; it goes on only as the leader of the term it looks in, and leaves *)
(* the tick with a snapshot reported or a failure.                         *)
(***************************************************************************)

LEMMA TickLater == ASSUME NEW s \in Nat PROVE NextTick(s) \in Nat /\ NextTick(s) > s
<1> DEFINE q == s \div Period
           r == s % Period
<1>1. q \in Nat /\ r \in 0..(Period - 1) /\ s = Period * q + r
  BY Bounds
<1>2. (q + 1) * Period = Period * q + Period
  BY <1>1, Bounds
<1> QED BY <1>1, <1>2, Bounds DEF NextTick

\* The node has found itself leader and takes the snapshot of its tick.
Taking(n) == store = "s3" /\ pc[n] \in {"read", "put", "putSum"}

NodesInv ==
    \A n \in Nodes :
        /\ due[n] > 0
        /\ store = "s3" => /\ pc[n] \in {"sleep", "look", "read", "put", "putSum"}
                           /\ pc[n] # "sleep" => now >= due[n]
        /\ store = "dir" => pc[n] \notin {"sleep", "look"}

LooksOnce == \A l \in looks : l.term <= term /\ l.tick <= due[l.by] /\ (l.tick = due[l.by] => Taking(l.by))

\* lead[m] is the leader of term m.
TakersLed(lead) ==
    \A n \in Nodes : Taking(n) => \E l \in looks : l.tick = due[n] /\ l.by = n /\ lead[l.term] = n

ReportsLed(lead) ==
    \A w \in written : w.tick # 0 =>
        /\ w.by \in Nodes /\ w.tick < due[w.by]
        /\ \E l \in looks : l.tick = w.tick /\ l.by = w.by /\ lead[l.term] = w.by

ReportsOnce == \A v, w \in written : v.tick # 0 /\ v.tick = w.tick /\ v.by = w.by => v = w

LeadersDone(lead) ==
    \A l \in looks : lead[l.term] = l.by =>
        \/ l.tick = due[l.by] /\ Taking(l.by)
        \/ l.tick \in failed
        \/ \E w \in written : w.tick = l.tick

Led(lead) ==
    /\ lead[term] = leader
    /\ LooksOnce /\ TakersLed(lead) /\ ReportsLed(lead) /\ ReportsOnce /\ LeadersDone(lead)

TickInv == NodesInv /\ \E lead \in [0..MaxElections -> Nodes] : Led(lead)

LEMMA TickInit == Init => TickInv
<1> SUFFICES ASSUME Init PROVE TickInv
  OBVIOUS
<1> DEFINE first == [i \in 0..MaxElections |-> leader]
<1>1. first \in [0..MaxElections -> Nodes] /\ first[term] = leader
  BY Bounds DEF Init
<1>2. NextTick(0) > 0
  BY TickLater
<1>3. NodesInv
  BY <1>2 DEF Init, NodesInv, Scheduled, Takers
<1>4. looks = {} /\ written = {} /\ \A n \in Nodes : ~Taking(n)
  BY DEF Init, Taking, Takers
<1> HIDE DEF first
<1>5. Led(first)
  BY <1>1, <1>4 DEF Led, LooksOnce, TakersLed, ReportsLed, ReportsOnce, LeadersDone
<1> QED BY <1>1, <1>3, <1>5 DEF TickInv

\* A step on which no node takes up or leaves a tick.
LEMMA TickQuiet ==
    ASSUME Typed, NEW lead \in [0..MaxElections -> Nodes], Led(lead),
           UNCHANGED <<looks, term, leader, due, failed>>, \A n \in Nodes : Taking(n)' <=> Taking(n),
           written \subseteq written', \A w \in written' : w \in written \/ w.tick = 0
    PROVE  Led(lead)'
<1>1. \A l \in looks : l.by \in Nodes
  BY DEF Typed, TypeOK
<1>2. LooksOnce' /\ TakersLed(lead)' /\ LeadersDone(lead)'
  BY <1>1 DEF Led, LooksOnce, TakersLed, LeadersDone
<1>3. ReportsLed(lead)' /\ ReportsOnce'
  BY DEF Led, ReportsLed, ReportsOnce
<1> QED BY <1>2, <1>3 DEF Led

\* A node leaves its tick without having taken it up: the look failed, or found another
\* leader.
LEMMA TickSkipped ==
    ASSUME Typed, NEW lead \in [0..MaxElections -> Nodes], Led(lead), NEW n \in Nodes,
           ~Taking(n), ~Taking(n)', \A m \in Nodes \ {n} : Taking(m)' <=> Taking(m),
           NEW d \in Nat, d > due[n], due' = [due EXCEPT ![n] = d],
           UNCHANGED <<written, term, leader, failed>>,
           \/ looks' = looks
           \/ leader # n /\ looks' = looks \union {[tick |-> due[n], by |-> n, term |-> term]}
    PROVE  Led(lead)'
<1>1. /\ \A m \in Nodes : due[m] \in Nat /\ due'[m] \in Nat /\ due[m] <= due'[m] /\ (m # n => due'[m] = due[m])
      /\ due[n] < due'[n] /\ term \in 0..MaxElections /\ looks \subseteq looks'
  BY DEF Typed, TypeOK
<1>2. \A l \in looks : l.by \in Nodes /\ l.tick \in Nat
  BY DEF Typed, TypeOK
<1>3. ASSUME NEW l \in looks'
      PROVE  l \in looks \/ (l.tick = due[n] /\ l.by = n /\ l.term = term /\ lead[l.term] # l.by)
  BY <1>3 DEF Led
<1>4. LooksOnce'
  <2> SUFFICES ASSUME NEW l \in looks'
               PROVE  l.term <= term /\ l.tick <= due'[l.by] /\ (l.tick = due'[l.by] => Taking(l.by)')
    BY DEF LooksOnce, Taking
  <2>1. CASE l \in looks
    <3>1. l.term <= term /\ l.tick <= due[l.by] /\ (l.tick = due[l.by] => Taking(l.by))
      BY <2>1 DEF Led, LooksOnce
    <3> QED BY <1>1, <1>2, <2>1, <3>1
  <2>2. CASE l \notin looks
    BY <1>1, <1>3, <2>2
  <2> QED BY <2>1, <2>2
<1>5. TakersLed(lead)'
  <2> SUFFICES ASSUME NEW m \in Nodes, Taking(m)'
               PROVE  \E l \in looks' : l.tick = due'[m] /\ l.by = m /\ lead[l.term] = m
    BY DEF TakersLed
  <2>1. m # n /\ Taking(m)
    OBVIOUS
  <2> QED BY <1>1, <2>1 DEF Led, TakersLed
<1>6. ReportsLed(lead)'
  <2> SUFFICES ASSUME NEW w \in written, w.tick # 0
               PROVE  /\ w.by \in Nodes /\ w.tick < due'[w.by]
                      /\ \E l \in looks' : l.tick = w.tick /\ l.by = w.by /\ lead[l.term] = w.by
    BY DEF ReportsLed
  <2>1. w.by \in Nodes /\ w.tick < due[w.by] /\ w.tick \in Nat
    BY DEF Led, ReportsLed, Typed, TypeOK, Entry
  <2> QED BY <1>1, <2>1 DEF Led, ReportsLed
<1>7. ReportsOnce'
  BY DEF Led, ReportsOnce
<1>8. LeadersDone(lead)'
  <2> SUFFICES ASSUME NEW l \in looks', lead[l.term] = l.by
               PROVE  \/ l.tick = due'[l.by] /\ Taking(l.by)'
                      \/ l.tick \in failed
                      \/ \E w \in written : w.tick = l.tick
    BY DEF LeadersDone, Taking
  <2>1. l \in looks
    BY <1>3
  <2> QED BY <1>1, <1>2, <2>1 DEF Led, LeadersDone
<1> QED BY <1>4, <1>5, <1>6, <1>7, <1>8 DEF Led

\* A leader leaves its tick: the snapshot is reported, or a call or write for it failed.
LEMMA TickLeft ==
    ASSUME Typed, NEW lead \in [0..MaxElections -> Nodes], Led(lead), NEW n \in Nodes, due[n] > 0,
           Taking(n), ~Taking(n)', \A m \in Nodes \ {n} : Taking(m)' <=> Taking(m),
           NEW d \in Nat, d > due[n], due' = [due EXCEPT ![n] = d],
           UNCHANGED <<looks, term, leader>>,
           \/ written' = written /\ failed' = failed \union {due[n]}
           \/ failed' = failed /\ written' = written \union {ReportOf(n)}
    PROVE  Led(lead)'
<1>1. /\ \A m \in Nodes : due[m] \in Nat /\ due'[m] \in Nat /\ due[m] <= due'[m] /\ (m # n => due'[m] = due[m])
      /\ due[n] < due'[n]
  BY DEF Typed, TypeOK
<1>2. \A l \in looks : l.by \in Nodes /\ l.tick \in Nat
  BY DEF Typed, TypeOK
<1>3. ReportOf(n).tick = due[n] /\ ReportOf(n).by = n
  BY DEF ReportOf, TickOf, Scheduled, Taking
<1>4. LooksOnce'
  <2> SUFFICES ASSUME NEW l \in looks
               PROVE  l.term <= term /\ l.tick <= due'[l.by] /\ (l.tick = due'[l.by] => Taking(l.by)')
    BY DEF LooksOnce, Taking
  <2>1. l.term <= term /\ l.tick <= due[l.by] /\ (l.tick = due[l.by] => Taking(l.by))
    BY DEF Led, LooksOnce
  <2> QED BY <1>1, <1>2, <2>1
<1>5. TakersLed(lead)'
  <2> SUFFICES ASSUME NEW m \in Nodes, Taking(m)'
               PROVE  \E l \in looks : l.tick = due'[m] /\ l.by = m /\ lead[l.term] = m
    BY DEF TakersLed
  <2>1. m # n /\ Taking(m)
    OBVIOUS
  <2> QED BY <1>1, <2>1 DEF Led, TakersLed
<1>6. ReportsLed(lead)'
  <2> SUFFICES ASSUME NEW w \in written', w.tick # 0
               PROVE  /\ w.by \in Nodes /\ w.tick < due'[w.by]
                      /\ \E l \in looks : l.tick = w.tick /\ l.by = w.by /\ lead[l.term] = w.by
    BY DEF ReportsLed
  <2>1. CASE w \in written
    <3>1. w.by \in Nodes /\ w.tick < due[w.by] /\ w.tick \in Nat
      BY <2>1 DEF Led, ReportsLed, Typed, TypeOK, Entry
    <3> QED BY <1>1, <2>1, <3>1 DEF Led, ReportsLed
  <2>2. CASE w = ReportOf(n)
    BY <1>1, <1>3, <2>2 DEF Led, TakersLed
  <2> QED BY <2>1, <2>2
<1>7. ReportsOnce'
  <2>1. ASSUME NEW w \in written, w.tick = due[n], w.by = n PROVE FALSE
    BY <1>1, <2>1 DEF Led, ReportsLed
  <2> QED BY <1>3, <2>1 DEF Led, ReportsOnce
<1>8. LeadersDone(lead)'
  <2> SUFFICES ASSUME NEW l \in looks, lead[l.term] = l.by
               PROVE  \/ l.tick = due'[l.by] /\ Taking(l.by)'
                      \/ l.tick \in failed'
                      \/ \E w \in written' : w.tick = l.tick
    BY DEF LeadersDone, Taking
  <2>1. CASE l.by = n /\ l.tick = due[n]
    BY <1>3, <2>1
  <2>2. CASE ~(l.by = n /\ l.tick = due[n])
    BY <1>1, <1>2, <2>2 DEF Led, LeadersDone
  <2> QED BY <2>1, <2>2
<1> QED BY <1>4, <1>5, <1>6, <1>7, <1>8 DEF Led

\* The leader takes up its tick.
LEMMA TickTaken ==
    ASSUME Typed, NEW lead \in [0..MaxElections -> Nodes], Led(lead), NEW n \in Nodes, leader = n,
           ~Taking(n), Taking(n)', \A m \in Nodes \ {n} : Taking(m)' <=> Taking(m),
           looks' = looks \union {[tick |-> due[n], by |-> n, term |-> term]},
           UNCHANGED <<due, written, term, leader, failed>>
    PROVE  Led(lead)'
<1> DEFINE new == [tick |-> due[n], by |-> n, term |-> term]
<1>1. new.tick = due[n] /\ new.by = n /\ new.term = term /\ lead[term] = n /\ term \in 0..MaxElections
      /\ due[n] \in Nat
  BY DEF Led, Typed, TypeOK
<1>2. \A l \in looks : l.by \in Nodes
  BY DEF Typed, TypeOK
<1> HIDE DEF new
<1>3. looks' = looks \union {new}
  BY DEF new
<1>4. LooksOnce'
  BY <1>1, <1>2, <1>3 DEF Led, LooksOnce
<1>5. TakersLed(lead)'
  BY <1>1, <1>3 DEF Led, TakersLed
<1>6. ReportsLed(lead)' /\ ReportsOnce'
  BY <1>3 DEF Led, ReportsLed, ReportsOnce
<1>7. LeadersDone(lead)'
  BY <1>1, <1>2, <1>3 DEF Led, LeadersDone
<1> QED BY <1>4, <1>5, <1>6, <1>7 DEF Led

LEMMA TickElected ==
    ASSUME Typed, TickInv, NEW n \in Nodes, Elect(n)
    PROVE  TickInv'
<1> USE DEF clock, files, process, history
<1>1. PICK lead \in [0..MaxElections -> Nodes] : Led(lead)
  BY DEF TickInv
<1>2. /\ term \in 0..MaxElections /\ term + 1 \in 0..MaxElections /\ leader' = n /\ term' = term + 1
      /\ UNCHANGED <<looks, written, failed, due, pc, store, now>>
  BY Bounds DEF Elect, Typed, TypeOK
<1>3. PICK next \in [0..MaxElections -> Nodes] :
        /\ next[term + 1] = n
        /\ \A i \in 0..MaxElections : i <= term => next[i] = lead[i]
  <2> DEFINE f == [lead EXCEPT ![term + 1] = n]
  <2>1. f \in [0..MaxElections -> Nodes] /\ f[term + 1] = n
        /\ \A i \in 0..MaxElections : i <= term => f[i] = lead[i]
    BY <1>2
  <2> HIDE DEF f
  <2> QED BY <2>1
<1>4. \A l \in looks : l.term \in 0..MaxElections /\ l.term <= term /\ next[l.term] = lead[l.term]
  BY <1>1, <1>3 DEF Led, LooksOnce, Typed, TypeOK
<1>5. \A m \in Nodes : Taking(m)' <=> Taking(m)
  BY <1>2 DEF Taking
<1>6. \A l \in looks : l.by \in Nodes
  BY DEF Typed, TypeOK
<1>7. LooksOnce'
  BY <1>1, <1>2, <1>4, <1>5, <1>6 DEF Led, LooksOnce
<1>8. TakersLed(next)' /\ ReportsLed(next)' /\ ReportsOnce'
  <2>1. TakersLed(next)'
    BY <1>1, <1>2, <1>4, <1>5 DEF Led, TakersLed
  <2>2. ReportsLed(next)'
    BY <1>1, <1>2, <1>4 DEF Led, ReportsLed
  <2>3. ReportsOnce'
    BY <1>1, <1>2 DEF Led, ReportsOnce
  <2> QED BY <2>1, <2>2, <2>3
<1>9. LeadersDone(next)'
  BY <1>1, <1>2, <1>4, <1>5, <1>6 DEF Led, LeadersDone
<1>10. Led(next)'
  BY <1>2, <1>3, <1>7, <1>8, <1>9 DEF Led
<1>11. NodesInv'
  BY <1>2 DEF TickInv, NodesInv
<1> QED BY <1>3, <1>10, <1>11 DEF TickInv

\* What a node does at its tick.
LEMMA TickNode ==
    ASSUME Typed, NodesInv, NEW n \in Nodes, Return(n), UNCHANGED <<store, now>>
    PROVE  /\ NodesInv' /\ ~Taking(n)' /\ \A m \in Nodes \ {n} : Taking(m)' <=> Taking(m)
           /\ store = "s3" /\ pc[n] # "sleep" =>
                \E d \in Nat : d > due[n] /\ due' = [due EXCEPT ![n] = d]
           /\ store = "dir" => due' = due
<1>1. now \in Nat /\ NextTick(now) \in Nat /\ NextTick(now) > now /\ n \in Takers
  <2>1. now \in Nat
    BY Bounds DEF Typed, TypeOK, Seconds
  <2>2. NextTick(now) \in Nat /\ NextTick(now) > now
    BY <2>1, TickLater
  <2> QED BY <2>1, <2>2 DEF Takers
<1>2. /\ pc'[n] = (IF store = "s3" THEN "sleep" ELSE "idle")
      /\ \A m \in Nodes \ {n} : pc'[m] = pc[m] /\ due'[m] = due[m]
      /\ due'[n] = (IF store = "s3" THEN NextTick(now) ELSE due[n])
      /\ due' \in [Nodes -> Nat]
  BY <1>1 DEF Typed, TypeOK, Return, Scheduled, Takers
<1>3. NodesInv'
  BY <1>1, <1>2 DEF NodesInv
<1>4. ~Taking(n)' /\ \A m \in Nodes \ {n} : Taking(m)' <=> Taking(m)
  BY <1>2 DEF Taking
<1>5. ASSUME store = "s3", pc[n] # "sleep"
      PROVE  NextTick(now) > due[n] /\ due' = [due EXCEPT ![n] = NextTick(now)]
  BY <1>1, <1>2, <1>5 DEF NodesInv, Typed, TypeOK
<1>6. store = "dir" => due' = due
  BY <1>2 DEF Typed, TypeOK
<1> QED BY <1>1, <1>3, <1>4, <1>5, <1>6

LEMMA TickSchedule ==
    ASSUME Typed, TickInv, NEW n \in Nodes, Schedule(n)
    PROVE  TickInv'
<1> USE DEF clock, files, history
<1>1. PICK lead \in [0..MaxElections -> Nodes] : Led(lead)
  BY DEF TickInv
<1>2. NodesInv /\ n \in Takers /\ UNCHANGED <<store, now, term, leader, written, failed>>
  BY DEF TickInv, Takers, Schedule, Wake, Look, LookFails
<1>3. store = "s3" /\ ~Taking(n)
  BY DEF TickInv, NodesInv, Schedule, Wake, Look, LookFails, Goto, Taking, Typed, TypeOK
<1>4. CASE Wake(n)
  <2>1. UNCHANGED <<looks, due>> /\ now >= due[n] /\ pc' = [pc EXCEPT ![n] = "look"]
    BY <1>4 DEF Wake, Goto
  <2>2. \A m \in Nodes : Taking(m)' <=> Taking(m)
    BY <1>2, <1>3, <2>1 DEF Taking, Typed, TypeOK
  <2>3. NodesInv'
    BY <1>2, <1>3, <2>1 DEF NodesInv, Typed, TypeOK
  <2> QED BY <1>1, <1>2, <2>1, <2>2, <2>3, TickQuiet DEF TickInv
<1>5. CASE Return(n)
  <2>1. /\ \/ looks' = looks
           \/ leader # n /\ looks' = looks \union {[tick |-> due[n], by |-> n, term |-> term]}
        /\ pc[n] # "sleep"
    <3>1. ~Wake(n)
      BY <1>2, <1>3, <1>5 DEF Wake, Goto, Return, Typed, TypeOK, Scheduled
    <3>2. Look(n) => leader # n
      BY <1>2, <1>3, <1>5 DEF Look, Return, Typed, TypeOK, Scheduled
    <3> QED BY <3>1, <3>2 DEF Schedule, Look, LookFails
  <2>2. PICK d \in Nat : d > due[n] /\ due' = [due EXCEPT ![n] = d]
    BY <1>2, <1>3, <1>5, <2>1, TickNode
  <2>3. NodesInv' /\ ~Taking(n)' /\ \A m \in Nodes \ {n} : Taking(m)' <=> Taking(m)
    BY <1>2, <1>5, TickNode
  <2>4. Led(lead)'
    BY <1>1, <1>2, <1>3, <2>1, <2>2, <2>3, TickSkipped
  <2> QED BY <2>3, <2>4 DEF TickInv
<1>6. CASE Look(n) /\ leader = n
  <2>1. /\ pc' = [pc EXCEPT ![n] = "read"] /\ UNCHANGED due /\ pc[n] = "look"
        /\ looks' = looks \union {[tick |-> due[n], by |-> n, term |-> term]}
    BY <1>6 DEF Look
  <2>2. Taking(n)' /\ \A m \in Nodes \ {n} : Taking(m)' <=> Taking(m)
    BY <1>2, <1>3, <2>1 DEF Taking, Typed, TypeOK
  <2>3. NodesInv'
    BY <1>2, <1>3, <2>1 DEF NodesInv, Typed, TypeOK
  <2>4. Led(lead)'
    BY <1>1, <1>2, <1>3, <1>6, <2>1, <2>2, TickTaken
  <2> QED BY <2>3, <2>4 DEF TickInv
<1> QED BY <1>4, <1>5, <1>6 DEF Schedule, Look, LookFails

LEMMA TickTake ==
    ASSUME Typed, TickInv, NEW t \in Takers, Take(t)
    PROVE  TickInv'
<1> USE DEF clock, files, history
<1>1. PICK lead \in [0..MaxElections -> Nodes] : Led(lead)
  BY DEF TickInv
<1>2. NodesInv /\ UNCHANGED <<store, now, term, leader, looks>>
  BY DEF TickInv, Take, StartTake, RaftSnapshot, RaftSnapshotFails, PutData, FillData, PutSum, FillSum, WriteFails
<1>3. CASE ~Scheduled(t)
  <2>1. UNCHANGED <<due, failed>> /\ \A n \in Nodes \ {t} : pc'[n] = pc[n]
    <3>1. failed' = failed
      BY <1>3 DEF Take, StartTake, RaftSnapshot, RaftSnapshotFails, PutData, FillData, PutSum, FillSum,
         WriteFails, Missed
    <3>2. ASSUME Return(t) PROVE due' = due /\ \A n \in Nodes \ {t} : pc'[n] = pc[n]
      <4>1. due' = [n \in Nodes |-> due[n]]
        BY <1>3, <3>2 DEF Return
      <4>2. due \in [Nodes -> Nat]
        BY DEF Typed, TypeOK
      <4>3. \A n \in Nodes \ {t} : pc'[n] = pc[n]
        BY <3>2 DEF Return, Typed, TypeOK, Takers
      <4> QED BY <4>1, <4>2, <4>3
    <3>3. \/ Return(t)
          \/ due' = due /\ \E to \in PCs : pc' = [pc EXCEPT ![t] = to]
      BY DEF Take, StartTake, RaftSnapshot, RaftSnapshotFails, PutData, FillData, PutSum, FillSum,
         WriteFails, Goto, PCs
    <3>4. (\E to \in PCs : pc' = [pc EXCEPT ![t] = to]) => \A n \in Nodes \ {t} : pc'[n] = pc[n]
      BY DEF Typed, TypeOK, Takers
    <3> QED BY <3>1, <3>2, <3>3, <3>4
  <2>2. written \subseteq written' /\ \A w \in written' : w \in written \/ w.tick = 0
    BY <1>3 DEF Take, StartTake, RaftSnapshot, RaftSnapshotFails, PutData, FillData, PutSum, FillSum,
       WriteFails, Reports, ReportOf, TickOf
  <2>3. t \in Nodes => store = "dir" /\ pc'[t] \notin {"sleep", "look"}
    BY <1>3 DEF Scheduled, Take, StartTake, RaftSnapshot, RaftSnapshotFails, PutData, FillData, PutSum,
       FillSum, WriteFails, Return, Goto, Typed, TypeOK
  <2>4. \A n \in Nodes : Taking(n)' <=> Taking(n)
    BY <1>2, <2>1, <2>3 DEF Taking
  <2>5. NodesInv'
    BY <1>2, <2>1, <2>3 DEF NodesInv
  <2>6. Led(lead)'
    BY <1>1, <1>2, <2>1, <2>2, <2>4, TickQuiet
  <2> QED BY <2>5, <2>6 DEF TickInv
<1>4. CASE Scheduled(t)
  <2>1. t \in Nodes /\ store = "s3" /\ pc[t] \in {"sleep", "look", "read", "put", "putSum"} /\ due[t] > 0
    BY <1>2, <1>4 DEF Scheduled, NodesInv
  <2>2. Taking(t)
    BY <2>1 DEF Taking, Take, StartTake, RaftSnapshot, RaftSnapshotFails, PutData, FillData, PutSum,
       FillSum, WriteFails, Goto
  <2>3. CASE RaftSnapshot(t) \/ PutData(t)
    <3>1. UNCHANGED <<due, failed, written>> /\ \E to \in {"put", "putSum"} : pc' = [pc EXCEPT ![t] = to]
      BY <2>1, <2>3 DEF RaftSnapshot, PutData, Goto
    <3>2. pc'[t] \in {"put", "putSum"} /\ \A n \in Nodes \ {t} : pc'[n] = pc[n]
      BY <3>1 DEF Typed, TypeOK
    <3>3. \A n \in Nodes : Taking(n)' <=> Taking(n)
      BY <1>2, <2>1, <2>2, <3>2 DEF Taking
    <3>4. now >= due[t]
      BY <1>2, <2>1, <2>2 DEF NodesInv, Taking
    <3>5. NodesInv'
      BY <1>2, <2>1, <3>1, <3>2, <3>4 DEF NodesInv
    <3>6. Led(lead)'
      BY <1>1, <1>2, <3>1, <3>3, TickQuiet
    <3> QED BY <3>5, <3>6 DEF TickInv
  <2>4. CASE RaftSnapshotFails(t) \/ PutSum(t) \/ WriteFails(t)
    <3>1. /\ Return(t)
          /\ \/ written' = written /\ failed' = failed \union {due[t]}
             \/ failed' = failed /\ written' = written \union {ReportOf(t)}
      BY <1>4, <2>1, <2>4 DEF RaftSnapshotFails, PutSum, WriteFails, Missed, Reports
    <3>2. NodesInv' /\ ~Taking(t)' /\ \A m \in Nodes \ {t} : Taking(m)' <=> Taking(m)
      BY <1>2, <2>1, <3>1, TickNode
    <3>3. pc[t] # "sleep"
      BY <2>2 DEF Taking
    <3>4. PICK d \in Nat : d > due[t] /\ due' = [due EXCEPT ![t] = d]
      BY <1>2, <2>1, <3>1, <3>3, TickNode
    <3>5. Led(lead)'
      BY <1>1, <1>2, <2>1, <2>2, <3>1, <3>2, <3>4, TickLeft
    <3> QED BY <3>2, <3>5 DEF TickInv
  <2> QED BY <2>1, <2>3, <2>4 DEF Take, StartTake, FillData, FillSum, Goto
<1> QED BY <1>3, <1>4

LEMMA TickStep == Typed /\ TickInv /\ [Next]_vars => TickInv'
<1> SUFFICES ASSUME Typed, TickInv, [Next]_vars PROVE TickInv'
  OBVIOUS
<1> USE DEF clock, files, process, history
<1>1. PICK lead \in [0..MaxElections -> Nodes] : Led(lead)
  BY DEF TickInv
<1>2. ASSUME UNCHANGED <<looks, term, leader, due, failed, written, store>>, now' >= now,
             \A n \in Nodes : pc'[n] = pc[n]
      PROVE  TickInv'
  <2>1. \A n \in Nodes : Taking(n)' <=> Taking(n)
    BY <1>2 DEF Taking
  <2>2. NodesInv'
    <3>1. now \in Nat /\ now' >= now /\ \A n \in Nodes : due[n] \in Nat
      BY <1>2, Bounds DEF Typed, TypeOK, Seconds
    <3>2. now' \in Int
      BY DEF Next, vars, Schedule, Take, Restore, Wake, Look, LookFails, StartTake, RaftSnapshot,
         RaftSnapshotFails, PutData, FillData, PutSum, FillSum, WriteFails, StartRestore, StatSum, GetData, GetSum,
         Reread, Submit, Tick, Elect, Unseal, Rot, Over, Typed, TypeOK, Seconds
    <3> QED BY <1>2, <3>1, <3>2 DEF TickInv, NodesInv
  <2> QED BY <1>1, <1>2, <2>1, <2>2, TickQuiet DEF TickInv
<1>3. now \in Int
  BY Bounds DEF Typed, TypeOK, Seconds
<1>4. ASSUME NEW a \in Admins, Restore(a) PROVE TickInv'
  <2>1. UNCHANGED <<looks, term, leader, failed, written, store, now>>
    BY <1>4 DEF Restore, StartRestore, StatSum, GetData, GetSum, Reread, Submit
  <2>2. a \notin Nodes
    BY Marks
  <2>3. due' = due /\ \A n \in Nodes : pc'[n] = pc[n]
    BY <1>4, <2>2 DEF Restore, StartRestore, StatSum, GetData, GetSum, Reread, Submit, Goto, Return, Scheduled,
       Typed, TypeOK, Takers
  <2> QED BY <1>2, <1>3, <2>1, <2>3
<1>5. CASE (\E s \in Seconds : Rot(s)) \/ Tick \/ Unseal \/ UNCHANGED vars
  BY <1>2, <1>3, <1>5 DEF Rot, Tick, Unseal, vars
<1> QED BY <1>4, <1>5, TickSchedule, TickElected, TickTake DEF Next, Over

LEMMA TickOnce == Typed /\ TickInv => OneSnapshotPerTick
<1> SUFFICES ASSUME Typed, TickInv, NEW k \in 1..(MaxSecond + Period)
             PROVE  LET seen  == {l \in looks : l.tick = k}
                        terms == {l.term : l \in seen}
                        kept  == {w \in written : w.tick = k}
                        past  == k \notin failed /\ \A n \in Nodes : due[n] > k IN
                    /\ Cardinality(kept) <= Cardinality(terms)
                    /\ past /\ {l.by : l \in seen} = Nodes /\ Cardinality(terms) = 1 => kept # {}
  BY DEF OneSnapshotPerTick
<1> DEFINE seen  == {l \in looks : l.tick = k}
           terms == {l.term : l \in seen}
           kept  == {w \in written : w.tick = k}
<1>1. PICK lead \in [0..MaxElections -> Nodes] : Led(lead)
  BY DEF TickInv
<1>2. k # 0 /\ k \in Nat
  BY Bounds
<1>3. IsFiniteSet(terms)
  <2>1. terms \in SUBSET (0..MaxElections)
    BY DEF Typed, TypeOK
  <2>2. IsFiniteSet(0..MaxElections)
    BY FS_Interval, Bounds
  <2> QED BY <2>1, <2>2, FS_Subset
<1>4. Cardinality(kept) <= Cardinality(terms)
  <2> DEFINE look(w) == CHOOSE l \in seen : l.by = w.by /\ lead[l.term] = w.by
             f == [w \in kept |-> look(w).term]
  <2>1. ASSUME NEW w \in kept PROVE look(w) \in seen /\ lead[look(w).term] = w.by
    <3>1. \E l \in seen : l.by = w.by /\ lead[l.term] = w.by
      BY <1>1, <1>2 DEF Led, ReportsLed
    <3> QED BY <3>1
  <2>2. f \in [kept -> terms]
    BY <2>1
  <2>3. ASSUME NEW v \in kept, NEW w \in kept, f[v] = f[w] PROVE v = w
    <3>1. v.by = w.by
      BY <2>1, <2>3
    <3> QED BY <1>1, <1>2, <3>1 DEF Led, ReportsOnce
  <2> HIDE DEF f
  <2>4. f \in Injection(kept, terms)
    BY <2>2, <2>3 DEF Injection, IsInjective
  <2> QED BY <1>3, <2>4, FS_Injection
<1>5. ASSUME k \notin failed, \A n \in Nodes : due[n] > k, {l.by : l \in seen} = Nodes, Cardinality(terms) = 1
      PROVE  kept # {}
  <2>1. PICK m : terms = {m}
    BY <1>3, <1>5, FS_Singleton
  <2>2. m \in 0..MaxElections
    BY <2>1 DEF Typed, TypeOK
  <2>3. PICK l \in seen : l.by = lead[m]
    BY <1>5, <2>2
  <2>4. l.term = m /\ l.tick = k /\ l.by \in Nodes
    BY <2>1, <2>2, <2>3
  <2>5. l.tick # due[l.by]
    BY <1>2, <1>5, <2>4 DEF Typed, TypeOK
  <2> QED BY <1>1, <1>5, <2>3, <2>4, <2>5 DEF Led, LeadersDone
<1> QED BY <1>4, <1>5

\* Scheduled snapshots: never more for a tick than terms in which nodes looked at it, and
\* one when all looked in one term and nothing failed; for any number of nodes,
\* elections and ticks.
THEOREM OneSnapshot == Spec => []OneSnapshotPerTick
<1> QED BY InitType, TypeStep, TickInit, TickStep, TickOnce, PTL DEF Spec

(***************************************************************************)
(* Listing.  What was reported written has data under its name.            *)
(***************************************************************************)

NamedInv ==
    /\ \A w \in written : data[w.at] # None
    /\ \A t \in Takers : pc[t] \in {"fill", "putSum", "fillSum"} => data[at[t]] # None

\* Data may change, but it is never gone.
LEMMA DataStays ==
    ASSUME Typed, [Next]_vars, NEW s \in Seconds, data[s] # None
    PROVE  data'[s] # None
<1> USE ReadsKnown DEF files
<1>1. CASE data' = data
  BY <1>1
<1>2. ASSUME NEW t \in Takers, Take(t) PROVE data'[s] # None
  <2>1. CASE PutData(t)
    BY <2>1 DEF PutData, Goto, Typed, TypeOK, HoldsInv, Writing
  <2>2. CASE FillData(t)
    BY <2>2 DEF FillData, Goto, Typed, TypeOK, HoldsInv, Writing
  <2>3. CASE WriteFails(t)
    BY <2>3 DEF WriteFails, Goto, Typed, TypeOK, HoldsInv, Writing
  <2> QED BY <1>2, <2>1, <2>2, <2>3 DEF Take, StartTake, RaftSnapshot, RaftSnapshotFails, PutSum, FillSum
<1>3. ASSUME NEW r \in Seconds, Rot(r) PROVE data'[s] # None
  BY <1>3 DEF Rot, Typed, TypeOK
<1> QED BY <1>1, <1>2, <1>3 DEF Next, vars, Schedule, Restore, Wake, Look, LookFails, StartRestore, StatSum,
     GetData, GetSum, Reread, Submit, Tick, Elect, Unseal, Over

LEMMA NamedStep == Typed /\ NamedInv /\ [Next]_vars => NamedInv'
<1> SUFFICES ASSUME Typed, NamedInv, [Next]_vars PROVE NamedInv'
  OBVIOUS
<1> USE ReadsKnown DEF clock, files, process, history
<1> DEFINE opening == {"fill", "putSum", "fillSum"}
<1>1. \A t \in Takers : at[t] \in Seconds
  BY DEF Typed, TypeOK
<1>2. ASSUME NEW t \in Takers, pc'[t] \in opening PROVE data'[at'[t]] # None
  <2>1. CASE pc[t] \in opening /\ at'[t] = at[t]
    BY <1>1, <2>1, DataStays DEF NamedInv
  <2>2. CASE PutData(t)
    BY <2>2 DEF PutData, Goto, Typed, TypeOK, HoldsInv, Writing
  <2>3. CASE ~PutData(t)
    <3>1. pc[t] \in opening /\ at'[t] = at[t]
      BY <1>2, <2>3 DEF Typed, TypeOK, Next, vars, Schedule, Take, Restore, Wake, Look, LookFails, StartTake,
         RaftSnapshot, RaftSnapshotFails, PutData, FillData, PutSum, FillSum, WriteFails, StartRestore, StatSum,
         GetData, GetSum, Reread, Submit, Return, Goto, Tick, Elect, Unseal, Rot, Over
    <3> QED BY <2>1, <3>1
  <2> QED BY <2>2, <2>3
<1>3. ASSUME NEW w \in written' PROVE data'[w.at] # None
  <2>1. CASE w \in written
    BY <2>1, DataStays DEF NamedInv, Typed, TypeOK, Entry
  <2>2. CASE w \notin written
    <3>1. written' # written
      BY <2>2
    <3>2. PICK t \in Takers : PutSum(t) \/ FillSum(t)
      BY <3>1 DEF Next, vars, Schedule, Take, Restore, Wake, Look, LookFails, StartTake, RaftSnapshot,
         RaftSnapshotFails, PutData, FillData, WriteFails, StartRestore, StatSum, GetData, GetSum, Reread,
         Submit, Tick, Elect, Unseal, Rot, Over
    <3>3. w.at = at[t] /\ pc[t] \in opening
      BY <2>2, <3>2 DEF PutSum, FillSum, Reports, ReportOf
    <3> QED BY <1>1, <3>3, DataStays DEF NamedInv
  <2> QED BY <2>1, <2>2
<1> QED BY <1>2, <1>3 DEF NamedInv

LEMMA NamedInit == Init => NamedInv
BY DEF Init, NamedInv, Takers, Scheduled

\* The first name of a listing that is not empty is its greatest.
LEMMA FirstIsGreatest ==
    ASSUME NEW names \in SUBSET Seconds, names # {}
    PROVE  First(names) \in names /\ \A r \in names : r <= First(names)
<1> DEFINE Before == {MaxSecond - s : s \in names}
<1>1. Before \subseteq Nat /\ Before # {}
  <2>1. ASSUME NEW s \in names PROVE MaxSecond - s \in Nat
    BY Bounds DEF Seconds
  <2> QED BY <2>1
<1>2. \E x \in Before : \A y \in Before : x <= y
  <2> HIDE DEF Before
  <2> DEFINE R == OpToRel(<, Nat)
  <2>1. \A x, y \in Nat : y < x => <<y, x>> \in R
    BY DEF OpToRel
  <2>2. IsWellFoundedOn(R, Nat)
    BY NatLessThanWellFounded
  <2> HIDE DEF R
  <2>3. PICK x \in Before : \A y \in Before : <<y, x>> \notin R
    BY <1>1, <2>2, WFMin
  <2>4. ASSUME NEW y \in Before PROVE x <= y
    <3>1. x \in Nat /\ y \in Nat /\ ~(y < x)
      BY <1>1, <2>1, <2>3
    <3> QED BY <3>1
  <2> QED BY <2>4
<1>3. PICK x \in Before : \A y \in Before : x <= y
  BY <1>2
<1>4. PICK s \in names : x = MaxSecond - s
  OBVIOUS
<1>5. \A r \in names : r <= s
  <2> SUFFICES ASSUME NEW r \in names PROVE r <= s
    OBVIOUS
  <2>1. x <= MaxSecond - r
    BY <1>3
  <2> QED BY <1>4, <2>1, Bounds DEF Seconds
<1> QED BY <1>5 DEF First

\* A prefix that fits the page is listed whole.
LEMMA WholePage ==
    ASSUME Cardinality(Keys) <= PageSize PROVE Page(Keys) = Keys
<1>1. Keys \in SUBSET (-1..(2 * MaxSecond + 1))
  <2> SUFFICES ASSUME NEW k \in Keys PROVE k \in -1..(2 * MaxSecond + 1)
    OBVIOUS
  <2>1. CASE k = -1
    BY <2>1, Bounds
  <2>2. ASSUME NEW s \in Seconds, k = 2 * s \/ k = 2 * s + 1 PROVE k \in -1..(2 * MaxSecond + 1)
    BY <2>2, Bounds DEF Seconds
  <2> QED BY <2>1, <2>2 DEF Keys
<1>2. IsFiniteSet(Keys) /\ Cardinality(Keys) \in Nat
  <2>1. -1 \in Int /\ 2 * MaxSecond + 1 \in Int
    BY Bounds
  <2>2. IsFiniteSet(-1..(2 * MaxSecond + 1))
    BY <2>1, FS_Interval
  <2>3. IsFiniteSet(Keys)
    BY <1>1, <2>2, FS_Subset
  <2> QED BY <2>3, FS_CardinalityType
<1>3. ASSUME NEW k \in Keys PROVE Cardinality({j \in Keys : j <= k}) <= PageSize
  <2> DEFINE up == {j \in Keys : j <= k}
  <2>1. up \in SUBSET Keys
    OBVIOUS
  <2> HIDE DEF up
  <2>2. IsFiniteSet(up) /\ Cardinality(up) <= Cardinality(Keys)
    BY <1>2, <2>1, FS_Subset
  <2>3. Cardinality(up) \in Nat
    BY <2>2, FS_CardinalityType
  <2>4. Cardinality(up) <= PageSize
    BY <1>2, <2>2, <2>3, Bounds
  <2> QED BY <2>4 DEF up
<1> QED BY <1>3 DEF Page

LEMMA NamedListed == Typed /\ NamedInv => NewestListed
<1> SUFFICES ASSUME Typed, NamedInv, store = "dir" \/ Cardinality(Keys) <= PageSize, NEW w \in written
             PROVE  Listed # {} /\ w.at <= First(Listed)
  BY DEF NewestListed
<1>1. w.at \in Seconds /\ data[w.at] # None
  BY DEF NamedInv, Typed, TypeOK, Entry
<1>2. w.at \in Listed
  <2>1. 2 * w.at \in Keys
    BY <1>1 DEF Keys
  <2> QED BY <1>1, <2>1, WholePage DEF Listed, Typed, TypeOK
<1>3. Listed \in SUBSET Seconds
  BY DEF Listed
<1> QED BY <1>2, <1>3, FirstIsGreatest

\* The listing starts with the newest reported snapshot, or a newer one, as long as the
\* prefix fits one page, whatever the page size and the number of snapshots.
THEOREM Newest == Spec => []NewestListed
<1> QED BY InitType, TypeStep, NamedInit, NamedStep, NamedListed, PTL DEF Spec

=============================================================================
