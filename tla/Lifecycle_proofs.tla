-------------------------- MODULE Lifecycle_proofs --------------------------
(***************************************************************************)
(* Joining and leaving the Raft cluster, for every set of instances, every *)
(* size of the group and every number of errors, lapses, evictions, expired *)
(* hooks and losses.                                                       *)
(***************************************************************************)
EXTENDS Lifecycle, FiniteSetTheorems, TLAPS

(***************************************************************************)
(* Typing.                                                                 *)
(***************************************************************************)

LEMMA InitType == Init => TypeOK
BY Tokens, Bounds DEF Init, TypeOK, States, PCs, Ways, TokenStates

LEMMA ProcessType ==
    ASSUME TypeOK, NEW n \in Nodes,
           Step(n) \/ PollIdle(n) \/ LeaveDeadline(n) \/ RestartProcess(n)
    PROVE  TypeOK'
<1> USE DEF TypeOK, process, raft, counts, Goto, Leaves, Errs
<1>1. CASE Poll(n)
  BY <1>1 DEF Poll, PCs
<1>2. CASE Ready(n)
  BY <1>2 DEF Ready, UseToken, Held, TokenStates, PCs
<1>3. CASE CompleteLaunch(n)
  BY <1>3, Bounds DEF CompleteLaunch, PCs, States
<1>4. CASE CompleteTerminate(n)
  <2>1. errors' \in 0..MaxErrors
    BY <1>4, Bounds DEF CompleteTerminate
  <2>2. asg' \in [Nodes -> States] /\ pc' \in [Nodes -> PCs] /\ continued' \in [Nodes -> BOOLEAN]
    BY <1>4 DEF CompleteTerminate, PCs, States
  <2> QED BY <1>4, <2>1, <2>2 DEF CompleteTerminate
<1>5. CASE ReadPeers(n)
  <2>1. pc' \in [Nodes -> PCs]
    BY <1>5 DEF ReadPeers, PCs
  <2>2. how' \in [Nodes -> Ways]
    BY <1>5 DEF ReadPeers, Ways
  <2>3. tok' \in [Nodes -> TokenStates]
    BY <1>5 DEF ReadPeers, UseToken, Held, TokenStates
  <2> QED BY <1>5, <2>1, <2>2, <2>3 DEF ReadPeers
<1>6. CASE StepDown(n) \/ AwaitLeader(n) \/ Recheck(n)
  BY <1>6 DEF StepDown, AwaitLeader, Recheck, PCs, Ways
<1>7. CASE RemovePeer(n)
  BY <1>7, Bounds DEF RemovePeer, Errs, PCs
<1>8. CASE LeaveErr(n) \/ RetryLeave(n)
  BY <1>8, Bounds DEF LeaveErr, RetryLeave, PCs, Ways
<1>9. CASE PollIdle(n) \/ LeaveDeadline(n)
  BY <1>9 DEF PollIdle, LeaveDeadline, vars
<1>10. CASE RestartProcess(n)
  BY <1>10, Bounds DEF RestartProcess, PCs, TokenStates
<1> QED BY <1>1, <1>2, <1>3, <1>4, <1>5, <1>6, <1>7, <1>8, <1>9, <1>10 DEF Step

LEMMA EndsType ==
    ASSUME TypeOK, NEW n \in Nodes, NEW way \in Ways, Ends(n, way),
           errors' \in 0..MaxErrors, lapses' \in 0..MaxLapses, evictions' \in 0..MaxEvictions,
           expiries' \in 0..MaxExpiries, losses' \in 0..MaxLosses
    PROVE  TypeOK'
BY DEF TypeOK, Ends, States, PCs, TokenStates

LEMMA GroupType == ASSUME TypeOK, NEW n \in Nodes, Group(n) PROVE TypeOK'
<1> USE DEF TypeOK, process, raft, counts, Goto
<1>1. CASE Launch(n)
  BY <1>1 DEF Launch, States, PCs
<1>2. CASE Retire(n) \/ Evict(n)
  BY <1>2, Bounds DEF Retire, Evict, States
<1>3. CASE HookExpires(n)
  <2>1. expiries' \in 0..MaxExpiries
    BY <1>3, Bounds DEF HookExpires
  <2>2. "abandoned" \in Ways /\ "expired" \in Ways
    BY DEF Ways
  <2> QED BY <1>3, <2>1, <2>2, EndsType DEF HookExpires
<1>4. CASE Terminate(n)
  BY <1>4, EndsType DEF Terminate
<1>5. CASE Die(n)
  <2>1. losses' \in 0..MaxLosses /\ "died" \in Ways
    BY <1>5, Bounds DEF Die, Ways
  <2> QED BY <1>5, <2>1, EndsType DEF Die
<1> QED BY <1>1, <1>2, <1>3, <1>4, <1>5 DEF Group

LEMMA VaultType == ASSUME TypeOK, NEW n \in Nodes, Vault(n) \/ Lapse(n) PROVE TypeOK'
<1> USE DEF TypeOK, process, raft, counts
<1>1. CASE Join(n) \/ CatchUp(n) \/ Promote(n) \/ Elect(n)
  BY <1>1 DEF Join, CatchUp, Promote, Elect
<1>2. CASE Lapse(n)
  BY <1>2, Bounds DEF Lapse
<1> QED BY <1>1, <1>2 DEF Vault

LEMMA TypeStep == TypeOK /\ [Next]_vars => TypeOK'
<1> SUFFICES ASSUME TypeOK, [Next]_vars PROVE TypeOK'
  OBVIOUS
<1>1. CASE StoreToken \/ UNCHANGED vars
  BY <1>1 DEF StoreToken, TypeOK, TokenStates, vars, process, raft, counts
<1> QED BY <1>1, ProcessType, GroupType, VaultType DEF Next, PoolExhausted

\* Every variable of the lifecycle model stays in its type.
THEOREM LifecycleTyping == Spec => []TypeOK
<1> QED BY InitType, TypeStep, PTL DEF Spec
-----------------------------------------------------------------------------
(***************************************************************************)
(* Each node by itself.  No action touches the place, the process, the     *)
(* flags or the membership of another node.                                *)
(***************************************************************************)

Leaving == {"leave", "stepDown", "awaitLeader", "remove", "recheck", "failed"}

\* Where the instance and its process are, relative to each other.
Placed(n) ==
    /\ asg[n] \in {"none", "Terminated"} <=> pc[n] = "off"
    /\ asg[n] = "none" => member[n] = "out"
    /\ pc[n] \in Leaving \union {"completeTerminate"} => asg[n] \in {"Terminating:Wait", "Terminating:Proceed"}

\* An instance that goes into service is a voter, and stays one until it leaves.
Serving(n) ==
    /\ asg[n] = "InService" => member[n] = "voter"
    /\ pc[n] = "completeLaunch" /\ asg[n] = "Pending:Wait" => member[n] = "voter"

\* A process that has been through its leave knows how it ended.
Decided(n) ==
    /\ asg[n] \in {"Terminating:Proceed", "Terminated"} => how[n] # "none"
    /\ how[n] = "left" \/ pc[n] = "recheck" => member[n] = "removed"
    /\ pc[n] = "completeTerminate" => how[n] # "none"
    /\ left[n] => pc[n] \in Leaving \/ how[n] # "none"
    /\ pc[n] = "off" => ~left[n]

NodeInv(n) == Placed(n) /\ Serving(n) /\ Decided(n)
NodesInv == \A n \in Nodes : NodeInv(n)

Same(n) ==
    /\ asg'[n] = asg[n] /\ pc'[n] = pc[n] /\ left'[n] = left[n]
    /\ member'[n] = member[n] /\ how'[n] = how[n]

LEMMA SameKept == ASSUME NEW n \in Nodes, NodeInv(n), Same(n) PROVE NodeInv(n)'
BY DEF NodeInv, Placed, Serving, Decided, Same, Leaving

LEMMA NodesInit == Init => NodesInv
BY NoneIsNoNode DEF Init, NodesInv, NodeInv, Placed, Serving, Decided, Leaving

LEMMA ProcessNode ==
    ASSUME TypeOK, NEW n \in Nodes, NodeInv(n), Step(n) \/ LeaveDeadline(n) \/ RestartProcess(n)
    PROVE  NodeInv(n)' /\ \A m \in Nodes \ {n} : Same(m)
<1> USE DEF TypeOK, raft, counts, Goto, Leaves, Same
<1> USE DEF NodeInv, Placed, Serving, Decided, Leaving
<1>1. CASE Poll(n)
  BY <1>1 DEF Poll, Seen
<1>2. CASE Ready(n)
  BY <1>2 DEF Ready, RaftReady
<1>3. CASE CompleteLaunch(n)
  BY <1>3 DEF CompleteLaunch
<1>4. CASE CompleteTerminate(n)
  BY <1>4 DEF CompleteTerminate
<1>5. CASE ReadPeers(n)
  BY <1>5 DEF ReadPeers
<1>6. CASE StepDown(n) \/ AwaitLeader(n) \/ Recheck(n)
  BY <1>6 DEF StepDown, AwaitLeader, Recheck
<1>7. CASE RemovePeer(n)
  BY <1>7 DEF RemovePeer
<1>8. CASE LeaveErr(n) \/ RetryLeave(n)
  BY <1>8 DEF LeaveErr, RetryLeave
<1>9. CASE LeaveDeadline(n)
  BY <1>9 DEF LeaveDeadline
<1>10. CASE RestartProcess(n)
  BY <1>10 DEF RestartProcess
<1> QED BY <1>1, <1>2, <1>3, <1>4, <1>5, <1>6, <1>7, <1>8, <1>9, <1>10 DEF Step

LEMMA GroupNode ==
    ASSUME TypeOK, NEW n \in Nodes, NodeInv(n), Group(n) \/ Vault(n) \/ Lapse(n)
    PROVE  NodeInv(n)' /\ \A m \in Nodes \ {n} : Same(m)
<1> USE DEF TypeOK, process, raft, counts, Goto, Same
<1> USE DEF NodeInv, Placed, Serving, Decided, Leaving
<1>1. CASE Launch(n)
  BY <1>1 DEF Launch
<1>2. CASE Retire(n) \/ Evict(n)
  BY <1>2 DEF Retire, Evict
<1>3. CASE HookExpires(n)
  BY <1>3 DEF HookExpires, Ends
<1>4. CASE Terminate(n)
  BY <1>4 DEF Terminate, Ends
<1>5. CASE Die(n)
  BY <1>5 DEF Die, Ends, Alive
<1>6. CASE Vault(n)
  BY <1>6 DEF Vault, Join, CatchUp, Promote, Elect, Alive
<1>7. CASE Lapse(n)
  BY <1>7 DEF Lapse
<1> QED BY <1>1, <1>2, <1>3, <1>4, <1>5, <1>6, <1>7 DEF Group

LEMMA NodesStep == TypeOK /\ NodesInv /\ [Next]_vars => NodesInv'
<1> SUFFICES ASSUME TypeOK, NodesInv, [Next]_vars, NEW m \in Nodes PROVE NodeInv(m)'
  BY DEF NodesInv
<1>1. NodeInv(m)
  BY DEF NodesInv
<1>2. ASSUME NEW n \in Nodes,
             \/ Step(n) \/ LeaveDeadline(n) \/ RestartProcess(n)
             \/ Group(n) \/ Vault(n) \/ Lapse(n)
      PROVE  NodeInv(m)'
  <2>1. NodeInv(n)' /\ \A k \in Nodes \ {n} : Same(k)
    BY <1>2, ProcessNode, GroupNode DEF NodesInv
  <2> QED BY <1>1, <2>1, SameKept
<1>3. CASE StoreToken \/ UNCHANGED vars
  BY <1>1, <1>3, SameKept DEF StoreToken, Same, vars, process, raft
<1> QED BY <1>2, <1>3 DEF Next, PollIdle, PoolExhausted

\* An instance in service carries the data, whatever fails or leaves.
THEOREM InServiceVotes == Spec => []InServiceIsVoter
<1>1. NodesInv => InServiceIsVoter
  BY DEF NodesInv, NodeInv, Serving, InServiceIsVoter
<1> QED BY <1>1, InitType, TypeStep, NodesInit, NodesStep, PTL DEF Spec

\* A hook continues only after a decision, and a leave that succeeded is final.
THEOREM Departures == Spec => []DepartureDecided
<1>1. NodesInv => DepartureDecided
  BY DEF NodesInv, NodeInv, Decided, DepartureDecided
<1> QED BY <1>1, InitType, TypeStep, NodesInit, NodesStep, PTL DEF Spec

-----------------------------------------------------------------------------
(***************************************************************************)
(* A refresh.  Size instances are in service throughout, each of them a    *)
(* live voter: so the data has its copies, a leaver always finds another   *)
(* voter, and while nobody leaves by force no voter is dead.               *)
(***************************************************************************)

Refreshing == evictions = 0 /\ losses = 0

RefreshInv ==
    Refreshing => /\ Cardinality(Members("InService")) >= Size
                  /\ \A n \in Nodes : how[n] # "sole"

LEMMA MembersFinite == \A s : IsFiniteSet(Members(s)) /\ Cardinality(Members(s)) \in Nat
BY Sizes, FS_Subset, FS_CardinalityType DEF Members

LEMMA RefreshInit == Init => RefreshInv
<1> SUFFICES ASSUME Init PROVE RefreshInv
  OBVIOUS
<1>1. PICK first \in SUBSET Nodes :
        /\ Cardinality(first) = Size
        /\ asg = [n \in Nodes |-> IF n \in first THEN "InService" ELSE "none"]
  BY DEF Init
<1>2. Members("InService") = first
  BY <1>1 DEF Members
<1> QED BY <1>1, <1>2, Sizes DEF Init, RefreshInv

LEMMA InServiceVoters == TypeOK /\ NodesInv => \A n \in Members("InService") : n \in Voters /\ Alive(n)
BY DEF TypeOK, NodesInv, NodeInv, Serving, Members, Voters, Alive

\* In a refresh an instance leaves service only while there is one more than Size.
LEMMA InServiceCount ==
    ASSUME TypeOK, NodesInv, Refreshing', [Next]_vars, Cardinality(Members("InService")) >= Size
    PROVE  Cardinality(Members("InService")') >= Size
<1> USE DEF TypeOK, process, raft, counts
<1>1. ASSUME Members("InService") \subseteq Members("InService")'
      PROVE  Cardinality(Members("InService")') >= Size
  <2>1. IsFiniteSet(Members("InService")')
    BY Sizes, FS_Subset DEF Members
  <2>2. /\ Cardinality(Members("InService")) <= Cardinality(Members("InService")')
        /\ Cardinality(Members("InService")') \in Nat
    BY <1>1, <2>1, FS_Subset, FS_CardinalityType
  <2> QED BY <2>2, MembersFinite, Sizes
<1>2. ASSUME NEW n \in Nodes, Retire(n)
      PROVE  Cardinality(Members("InService")') >= Size
  <2>1. Members("InService")' = Members("InService") \ {n} /\ n \in Members("InService")
    BY <1>2 DEF Retire, Members
  <2>2. Cardinality(Members("InService")) > Size
    BY <1>2 DEF Retire
  <2>3. IsFiniteSet(Members("InService"))
    BY MembersFinite
  <2>4. Cardinality(Members("InService") \ {n}) = Cardinality(Members("InService")) - 1
    BY <2>1, <2>3, FS_RemoveElement
  <2>5. Cardinality(Members("InService")) \in Nat
    BY MembersFinite
  <2> QED BY <2>1, <2>2, <2>4, <2>5, Sizes
<1>3. ASSUME NEW n \in Nodes, Step(n) \/ PollIdle(n) \/ LeaveDeadline(n) \/ RestartProcess(n)
      PROVE  Members("InService") \subseteq Members("InService")'
  BY <1>3 DEF Step, Poll, Ready, CompleteLaunch, CompleteTerminate, ReadPeers, StepDown, AwaitLeader,
     RemovePeer, Recheck, LeaveErr, RetryLeave, PollIdle, LeaveDeadline, RestartProcess, vars, Members
<1>4. ASSUME NEW n \in Nodes, Vault(n) \/ Lapse(n) \/ (Group(n) /\ ~Retire(n))
      PROVE  Members("InService") \subseteq Members("InService")'
  <2>1. CASE Vault(n) \/ Lapse(n)
    BY <2>1 DEF Vault, Join, CatchUp, Promote, Elect, Lapse, Members
  <2>2. CASE Launch(n)
    BY <2>2 DEF Launch, Members
  <2>3. CASE HookExpires(n) \/ Terminate(n)
    BY <2>3 DEF HookExpires, Terminate, Ends, Members
  <2>4. ~Evict(n) /\ ~Die(n)
    BY Bounds DEF Evict, Die, Refreshing
  <2> QED BY <1>4, <2>1, <2>2, <2>3, <2>4 DEF Group
<1>5. CASE StoreToken \/ UNCHANGED vars
  BY <1>1, <1>5 DEF StoreToken, vars, Members
<1> QED BY <1>1, <1>2, <1>3, <1>4, <1>5 DEF Next, PoolExhausted

LEMMA RefreshStep == TypeOK /\ NodesInv /\ RefreshInv /\ [Next]_vars => RefreshInv'
<1> SUFFICES ASSUME TypeOK, NodesInv, RefreshInv, [Next]_vars, Refreshing'
             PROVE  /\ Cardinality(Members("InService")') >= Size
                    /\ \A n \in Nodes : how'[n] # "sole"
  BY DEF RefreshInv, Members
<1> USE DEF TypeOK, process, raft, counts
<1>1. Refreshing
  <2>1. evictions' = evictions \/ evictions' = evictions + 1
    BY DEF Next, Step, Poll, Ready, CompleteLaunch, CompleteTerminate, ReadPeers, StepDown, AwaitLeader,
       RemovePeer, Recheck, LeaveErr, RetryLeave, PollIdle, LeaveDeadline, RestartProcess, vars, Vault,
       Join, CatchUp, Promote, Elect, Lapse, Group, Launch, Retire, Evict, HookExpires, Terminate, Die,
       StoreToken, PoolExhausted
  <2>2. losses' = losses \/ losses' = losses + 1
    BY DEF Next, Step, Poll, Ready, CompleteLaunch, CompleteTerminate, ReadPeers, StepDown, AwaitLeader,
       RemovePeer, Recheck, LeaveErr, RetryLeave, PollIdle, LeaveDeadline, RestartProcess, vars, Vault,
       Join, CatchUp, Promote, Elect, Lapse, Group, Launch, Retire, Evict, HookExpires, Terminate, Die,
       StoreToken, PoolExhausted
  <2> QED BY <2>1, <2>2, Bounds DEF Refreshing
<1>2. Cardinality(Members("InService")') >= Size
  BY <1>1, InServiceCount DEF RefreshInv
<1>3. ASSUME NEW n \in Nodes, ReadPeers(n) PROVE how'[n] # "sole"
  <2>1. asg[n] # "InService"
    BY <1>3 DEF ReadPeers, NodesInv, NodeInv, Placed, Leaving
  <2>2. Members("InService") # {}
    <3>1. Cardinality(Members("InService")) >= Size /\ Cardinality({}) = 0
      BY <1>1, FS_EmptySet DEF RefreshInv
    <3> HIDE DEF TypeOK
    <3> QED BY <3>1, Sizes
  <2>3. OtherVoters(n) # {}
    BY <2>1, <2>2, InServiceVoters DEF OtherVoters, Members
  <2> QED BY <1>1, <1>3, <2>3 DEF ReadPeers, Leaves, RefreshInv
<1>4. ASSUME NEW m \in Nodes PROVE how'[m] # "sole"
  <2>1. how[m] # "sole"
    BY <1>1 DEF RefreshInv
  <2>2. ASSUME NEW n \in Nodes, ReadPeers(n) PROVE how'[m] # "sole"
    BY <1>3, <2>1, <2>2 DEF ReadPeers, Leaves
  <2>3. ASSUME NEW n \in Nodes, Step(n) \/ PollIdle(n) \/ LeaveDeadline(n) \/ RestartProcess(n), ~ReadPeers(n)
        PROVE  how'[m] # "sole"
    BY <2>1, <2>3 DEF Step, Poll, Ready, CompleteLaunch, CompleteTerminate, StepDown, AwaitLeader,
       RemovePeer, Recheck, LeaveErr, RetryLeave, Leaves, PollIdle, LeaveDeadline, RestartProcess, vars
  <2>4. ASSUME NEW n \in Nodes, Vault(n) \/ Lapse(n) \/ Group(n)
        PROVE  how'[m] # "sole"
    <3>1. how[n] # "sole"
      BY <1>1 DEF RefreshInv
    <3> QED BY <2>1, <2>4, <3>1 DEF Vault, Join, CatchUp, Promote, Elect, Lapse, Group, Launch, Retire,
            Evict, HookExpires, Terminate, Die, Ends
  <2>5. CASE StoreToken \/ UNCHANGED vars
    BY <2>1, <2>5 DEF StoreToken, vars
  <2> QED BY <2>2, <2>3, <2>4, <2>5 DEF Next, PoolExhausted
<1> QED BY <1>2, <1>4

LEMMA RefreshCopies == TypeOK /\ NodesInv /\ RefreshInv => RefreshKeepsCopies
<1> SUFFICES ASSUME TypeOK, NodesInv, RefreshInv, Refreshing
             PROVE  Cardinality({v \in Voters : Alive(v)}) >= Size
  BY DEF RefreshKeepsCopies, Refreshing
<1> DEFINE L == {v \in Voters : Alive(v)}
<1>1. Members("InService") \subseteq L
  BY InServiceVoters
<1>2. IsFiniteSet(L)
  BY Sizes, FS_Subset DEF Voters
<1> HIDE DEF L
<1>3. Cardinality(Members("InService")) <= Cardinality(L) /\ Cardinality(L) \in Nat
  BY <1>1, <1>2, FS_Subset, FS_CardinalityType
<1>4. Cardinality(L) >= Size
  BY <1>3, MembersFinite, Sizes DEF RefreshInv
<1> QED BY <1>4 DEF L

LEMMA RefreshQuorum == TypeOK /\ NodesInv /\ RefreshInv => RefreshKeepsQuorum
<1> SUFFICES ASSUME TypeOK, NodesInv, RefreshInv, Refreshing,
                    \A n \in Nodes : how[n] \in {"none", "left", "sole"}
             PROVE  Quorum(Voters)
  BY DEF RefreshKeepsQuorum, RefreshInv, Refreshing
<1>1. \A v \in Voters : Alive(v)
  BY DEF Voters, Alive, RefreshInv, NodesInv, NodeInv, Placed, Decided
<1>2. {v \in Voters : Alive(v)} = Voters
  BY <1>1
<1>3. Cardinality(Voters) >= Size
  BY <1>2, RefreshCopies DEF RefreshKeepsCopies, Refreshing
<1>4. Cardinality(Voters) \in Nat
  BY Sizes, FS_Subset, FS_CardinalityType DEF Voters
<1> QED BY <1>2, <1>3, <1>4, Sizes DEF Quorum

\* A refresh keeps Size live voters, even when leaving fails.
THEOREM CopiesKept == Spec => []RefreshKeepsCopies
<1> QED BY InitType, TypeStep, NodesInit, NodesStep, RefreshInit, RefreshStep, RefreshCopies, PTL DEF Spec

\* A refresh whose nodes manage to leave keeps quorum and never empties the cluster.
THEOREM QuorumKept == Spec => []RefreshKeepsQuorum
<1> QED BY InitType, TypeStep, NodesInit, NodesStep, RefreshInit, RefreshStep, RefreshQuorum, PTL DEF Spec

=============================================================================
