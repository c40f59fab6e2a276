----------------------------- MODULE Lifecycle -----------------------------
(***************************************************************************)
(* vault-utils lifecycle on every node (RunLifecycle and leaveWithRetry of *)
(* internal/vaultcluster/lifecycle.go, NodeHealthOK of health_raft.go,     *)
(* LeaveRaft of raftpeers.go, withToken of cmd/vault-utils/main.go), with  *)
(* the Auto Scaling group whose hooks it answers (internal/aws/asg,        *)
(* aws-ec2-vault-cluster/asg.tf) and the Raft cluster it joins and leaves. *)
(***************************************************************************)
EXTENDS Integers, FiniteSets

CONSTANTS
    Nodes,          \* the instances there may ever be
    None,           \* no leader
    Size,           \* cluster_size: desired and minimum size of the group
    TokenStart,     \* what the operator secret may hold first: "none", "stale", "good"
    MaxErrors,      \* bound: calls that fail, restarts of the process
    MaxLapses,      \* bound: nodes falling behind, leaders losing leadership
    MaxEvictions,   \* bound: terminations that are not part of a refresh
    MaxExpiries,    \* bound: hooks that reach their heartbeat timeout
    MaxLosses       \* bound: instances that die at once

ASSUME NoneIsNoNode == None \notin Nodes
ASSUME Sizes == Size \in Nat \ {0} /\ IsFiniteSet(Nodes) /\ Size <= Cardinality(Nodes)
ASSUME Tokens == TokenStart \subseteq {"none", "stale", "good"} /\ TokenStart # {}
ASSUME Bounds ==
    /\ MaxErrors \in Nat /\ MaxLapses \in Nat /\ MaxEvictions \in Nat
    /\ MaxExpiries \in Nat /\ MaxLosses \in Nat

VARIABLES
    asg,         \* asg[n]: the lifecycle state of the instance
    pc,          \* pc[n]: where n's lifecycle process is
    left,        \* left[n], continued[n]: the flags of RunLifecycle
    continued,
    deadline,    \* deadline[n]: LeaveTimeout has passed
    tok,         \* tok[n]: the token the process holds
    secret,      \* the operator secret
    member,      \* member[n]: n's place in the Raft configuration
    caughtUp,    \* the peers autopilot calls healthy
    ldr,         \* the Raft leader, or None
    how,         \* history: how[n] is the way n's departure was decided
    errors, lapses, evictions, expiries, losses   \* counters against their bounds

process == <<pc, left, continued, deadline, tok>>
raft    == <<member, caughtUp, ldr>>
counts  == <<errors, lapses, evictions, expiries, losses>>
vars    == <<asg, process, secret, raft, how, counts>>

States == {"none", "Pending:Wait", "InService", "Terminating:Wait", "Terminating:Proceed", "Terminated"}
PCs == {"off", "state", "ready", "completeLaunch", "leave", "stepDown", "awaitLeader",
        "remove", "recheck", "failed", "completeTerminate"}
Ways == {"none", "left", "sole", "gaveUp", "abandoned", "expired", "died"}
TokenStates == {"none", "stale", "good"}

TypeOK ==
    /\ asg \in [Nodes -> States] /\ pc \in [Nodes -> PCs]
    /\ left \in [Nodes -> BOOLEAN] /\ continued \in [Nodes -> BOOLEAN]
    /\ deadline \in [Nodes -> BOOLEAN]
    /\ tok \in [Nodes -> TokenStates] /\ secret \in TokenStates
    /\ member \in [Nodes -> {"out", "learner", "voter", "removed"}]
    /\ caughtUp \in SUBSET Nodes /\ ldr \in Nodes \union {None}
    /\ how \in [Nodes -> Ways]
    /\ errors \in 0..MaxErrors /\ lapses \in 0..MaxLapses
    /\ evictions \in 0..MaxEvictions /\ expiries \in 0..MaxExpiries
    /\ losses \in 0..MaxLosses

Alive(n)  == asg[n] \notin {"none", "Terminated"}
Voters    == {n \in Nodes : member[n] = "voter"}
Quorum(V) == 2 * Cardinality({v \in V : Alive(v)}) > Cardinality(V)
Members(s) == {n \in Nodes : asg[n] = s}

\* Requests need an active node, which needs a quorum of the voters.
Served == ldr # None /\ Alive(ldr) /\ Quorum(Voters)

\* A group of Size nodes that all carry the data.
Init ==
    /\ \E first \in SUBSET Nodes :
         /\ Cardinality(first) = Size
         /\ asg = [n \in Nodes |-> IF n \in first THEN "InService" ELSE "none"]
         /\ pc = [n \in Nodes |-> IF n \in first THEN "state" ELSE "off"]
         /\ member = [n \in Nodes |-> IF n \in first THEN "voter" ELSE "out"]
         /\ caughtUp = first /\ ldr \in first
    /\ left = [n \in Nodes |-> FALSE] /\ continued = [n \in Nodes |-> FALSE]
    /\ deadline = [n \in Nodes |-> FALSE] /\ tok = [n \in Nodes |-> "none"]
    /\ secret \in TokenStart
    /\ how = [n \in Nodes |-> "none"]
    /\ errors = 0 /\ lapses = 0 /\ evictions = 0 /\ expiries = 0 /\ losses = 0

Goto(n, to) == pc' = [pc EXCEPT ![n] = to]
Errs == errors < MaxErrors /\ errors' = errors + 1

-----------------------------------------------------------------------------
(* RunLifecycle                                                            *)

\* DescribeAutoScalingInstances may still show a hook that has been continued.
Seen(n) == IF asg[n] = "Terminating:Proceed" THEN {asg[n], "Terminating:Wait"} ELSE {asg[n]}

\* Fault: the hook is continued without a leave.
Poll_NoLeave(n) ==
    /\ pc[n] = "state"
    /\ \/ "Pending:Wait" \in Seen(n) /\ Goto(n, "ready")
       \/ "Terminating:Wait" \in Seen(n) /\ ~continued[n] /\ Goto(n, "completeTerminate")
    /\ UNCHANGED <<asg, left, continued, deadline, tok, secret, raft, how, counts>>

Poll(n) ==
    /\ pc[n] = "state"
    /\ \/ /\ "Pending:Wait" \in Seen(n)
          /\ Goto(n, "ready") /\ UNCHANGED left
       \/ /\ "Terminating:Wait" \in Seen(n) /\ ~continued[n]
          /\ left' = [left EXCEPT ![n] = TRUE]
          /\ Goto(n, IF left[n] THEN "completeTerminate" ELSE "leave")
    /\ deadline' = [deadline EXCEPT ![n] = FALSE]
    /\ UNCHANGED <<asg, continued, tok, secret, raft, how, counts>>

\* In any other state the process only polls again.
PollIdle(n) ==
    /\ pc[n] = "state" /\ "Pending:Wait" \notin Seen(n)
    /\ "Terminating:Wait" \notin Seen(n) \/ continued[n]
    /\ UNCHANGED vars

\* withToken: a missing token is read from the secret; a 403 drops it again.
Held(n) == IF tok[n] = "none" THEN secret ELSE tok[n]
\* Fault: a 403 does not drop the token.
UseToken_Kept(n) == tok' = [tok EXCEPT ![n] = Held(n)]

UseToken(n) == tok' = [tok EXCEPT ![n] = IF Held(n) = "stale" THEN "none" ELSE Held(n)]

\* Fault: a learner that has caught up counts as ready.
RaftReady_AnyPeer(n) == Served /\ member[n] \in {"learner", "voter"} /\ n \in caughtUp

\* NodeRaftReady on what autopilot reports.
RaftReady(n) == Served /\ member[n] = "voter" /\ n \in caughtUp

Ready(n) ==
    /\ pc[n] = "ready"
    /\ Goto(n, IF Held(n) = "good" /\ RaftReady(n) THEN "completeLaunch" ELSE "state")
    /\ UseToken(n)
    /\ UNCHANGED <<asg, left, continued, deadline, secret, raft, how, counts>>

\* A hook that is no longer pending, or a failed call, is an error: poll again.
CompleteLaunch(n) ==
    /\ pc[n] = "completeLaunch"
    /\ Goto(n, "state")
    /\ \/ asg[n] = "Pending:Wait" /\ asg' = [asg EXCEPT ![n] = "InService"] /\ UNCHANGED errors
       \/ asg[n] # "Pending:Wait" /\ UNCHANGED <<asg, errors>>
       \/ asg[n] = "Pending:Wait" /\ Errs /\ UNCHANGED asg
    /\ UNCHANGED <<left, continued, deadline, tok, secret, raft, how,
                   lapses, evictions, expiries, losses>>

\* Fault: a failed call counts as a continued hook.
CompleteTerminate_Once(n) ==
    /\ pc[n] = "completeTerminate"
    /\ Goto(n, "state")
    /\ continued' = [continued EXCEPT ![n] = TRUE]
    /\ \/ /\ asg[n] = "Terminating:Wait"
          /\ asg' = [asg EXCEPT ![n] = "Terminating:Proceed"] /\ UNCHANGED errors
       \/ UNCHANGED asg /\ Errs
    /\ UNCHANGED <<left, deadline, tok, secret, raft, how, lapses, evictions, expiries, losses>>

CompleteTerminate(n) ==
    /\ pc[n] = "completeTerminate"
    /\ Goto(n, "state")
    /\ \/ /\ asg[n] = "Terminating:Wait"
          /\ asg' = [asg EXCEPT ![n] = "Terminating:Proceed"]
          /\ continued' = [continued EXCEPT ![n] = TRUE]
          /\ UNCHANGED errors
       \/ asg[n] # "Terminating:Wait" /\ UNCHANGED <<asg, continued, errors>>
       \/ asg[n] = "Terminating:Wait" /\ Errs /\ UNCHANGED <<asg, continued>>
    /\ UNCHANGED <<left, deadline, tok, secret, raft, how,
                   lapses, evictions, expiries, losses>>

-----------------------------------------------------------------------------
(* leaveWithRetry and LeaveRaft                                            *)

\* The attempt succeeds, or finds nothing to hand off: no further attempt.
Leaves(n, way) == Goto(n, "completeTerminate") /\ how' = [how EXCEPT ![n] = way]

OtherVoters(n) == Voters \ {n}

\* RaftPeers and what LeaveRaft decides from it.  A Vault that has not joined
\* refuses the read, and one that has been removed may.
ReadPeers(n) ==
    /\ pc[n] = "leave"
    /\ UseToken(n)
    /\ IF Held(n) # "good" \/ ~Served
       THEN Goto(n, "failed") /\ UNCHANGED how
       ELSE \/ member[n] = "removed" /\ Leaves(n, "left")
            \/ member[n] \in {"out", "removed"} /\ Goto(n, "failed") /\ UNCHANGED how
            \/ member[n] \in {"learner", "voter"} /\ OtherVoters(n) = {} /\ Leaves(n, "sole")
            \/ /\ member[n] \in {"learner", "voter"} /\ OtherVoters(n) # {}
               /\ Goto(n, IF ldr = n THEN "stepDown" ELSE "remove") /\ UNCHANGED how
    /\ UNCHANGED <<asg, left, continued, deadline, secret, raft, counts>>

\* Stepping down does nothing on a node that is not active.
StepDown(n) ==
    /\ pc[n] = "stepDown"
    /\ Goto(n, "awaitLeader")
    /\ ldr' = IF ldr = n THEN None ELSE ldr
    /\ UNCHANGED <<asg, left, continued, deadline, tok, secret, member, caughtUp, how, counts>>

\* Fault: the process stays in a wait that has timed out.
AwaitLeader_Stuck(n) ==
    /\ pc[n] = "awaitLeader"
    /\ Goto(n, IF ldr \notin {n, None} THEN "remove" ELSE "timedOut")
    /\ UNCHANGED <<asg, left, continued, deadline, tok, secret, raft, how, counts>>

\* waitOtherLeader
AwaitLeader(n) ==
    /\ pc[n] = "awaitLeader"
    /\ Goto(n, IF ldr \notin {n, None} THEN "remove" ELSE "failed")
    /\ UNCHANGED <<asg, left, continued, deadline, tok, secret, raft, how, counts>>

\* Fault: an error of remove-peer is ignored.
RemovePeer_ErrIgnored(n) ==
    /\ pc[n] = "remove"
    /\ Goto(n, "recheck")
    /\ IF Served /\ OtherVoters(n) # {}
       THEN member' = [member EXCEPT ![n] = "removed"] /\ caughtUp' = caughtUp \ {n}
            /\ ldr' = IF ldr = n THEN None ELSE ldr
       ELSE UNCHANGED raft
    /\ UNCHANGED <<asg, left, continued, deadline, tok, secret, how, counts>>

\* remove-peer; Raft refuses a configuration without voters.  A removal that was
\* carried out may be reported as an error all the same.
RemovePeer(n) ==
    /\ pc[n] = "remove"
    /\ IF Served /\ OtherVoters(n) # {}
       THEN /\ \/ Goto(n, "recheck") /\ UNCHANGED errors
               \/ Goto(n, "failed") /\ Errs
            /\ member' = [member EXCEPT ![n] = "removed"]
            /\ caughtUp' = caughtUp \ {n}
            /\ ldr' = IF ldr = n THEN None ELSE ldr
       ELSE Goto(n, "failed") /\ UNCHANGED <<raft, errors>>
    /\ UNCHANGED <<asg, left, continued, deadline, tok, secret, how,
                   lapses, evictions, expiries, losses>>

\* The second read confirms the removal, and so does its failure.
Recheck(n) ==
    /\ pc[n] = "recheck"
    /\ Leaves(n, "left")
    /\ UNCHANGED <<asg, left, continued, deadline, tok, secret, raft, counts>>

\* A call of the attempt fails on its own.
LeaveErr(n) ==
    /\ pc[n] \in {"leave", "stepDown", "awaitLeader", "remove"} /\ Errs
    /\ Goto(n, "failed")
    /\ UNCHANGED <<asg, left, continued, deadline, tok, secret, raft, how,
                   lapses, evictions, expiries, losses>>

\* LeaveTimeout runs out while the node is leaving.
LeaveDeadline(n) ==
    /\ pc[n] \in {"leave", "stepDown", "awaitLeader", "remove", "recheck", "failed"}
    /\ ~deadline[n]
    /\ deadline' = [deadline EXCEPT ![n] = TRUE]
    /\ UNCHANGED <<asg, pc, left, continued, tok, secret, raft, how, counts>>

\* After a failed attempt: another one, or terminate anyway.
RetryLeave(n) ==
    /\ pc[n] = "failed"
    /\ IF deadline[n] THEN Leaves(n, "gaveUp") ELSE Goto(n, "leave") /\ UNCHANGED how
    /\ UNCHANGED <<asg, left, continued, deadline, tok, secret, raft, counts>>

\* Restart=always: the flags and the token are gone.
RestartProcess(n) ==
    /\ pc[n] # "off" /\ Errs
    /\ Goto(n, "state")
    /\ left' = [left EXCEPT ![n] = FALSE] /\ continued' = [continued EXCEPT ![n] = FALSE]
    /\ deadline' = [deadline EXCEPT ![n] = FALSE] /\ tok' = [tok EXCEPT ![n] = "none"]
    /\ UNCHANGED <<asg, secret, raft, how, lapses, evictions, expiries, losses>>

-----------------------------------------------------------------------------
(* The Auto Scaling group                                                  *)

\* A replacement or the surge instance of a refresh; max_size is Size + 1.
Launch(n) ==
    /\ asg[n] = "none"
    /\ Cardinality(Members("Pending:Wait") \union Members("InService")) <= Size
    /\ asg' = [asg EXCEPT ![n] = "Pending:Wait"]
    /\ Goto(n, "state")
    /\ UNCHANGED <<left, continued, deadline, tok, secret, raft, how, counts>>

\* A refresh retires an instance while min_healthy_percentage = 100 stays met.
Retire(n) ==
    /\ asg[n] = "InService" /\ Cardinality(Members("InService")) > Size
    /\ asg' = [asg EXCEPT ![n] = "Terminating:Wait"]
    /\ UNCHANGED <<process, secret, raft, how, counts>>

\* Any other reason to terminate an instance goes through the same hook.
Evict(n) ==
    /\ asg[n] \in {"Pending:Wait", "InService"} /\ evictions < MaxEvictions
    /\ evictions' = evictions + 1
    /\ asg' = [asg EXCEPT ![n] = "Terminating:Wait"]
    /\ UNCHANGED <<process, secret, raft, how, errors, lapses, expiries, losses>>

Ends(n, way) ==
    /\ asg' = [asg EXCEPT ![n] = "Terminated"]
    /\ pc' = [pc EXCEPT ![n] = "off"]
    /\ left' = [left EXCEPT ![n] = FALSE] /\ continued' = [continued EXCEPT ![n] = FALSE]
    /\ deadline' = [deadline EXCEPT ![n] = FALSE] /\ tok' = [tok EXCEPT ![n] = "none"]
    /\ ldr' = IF ldr = n THEN None ELSE ldr
    /\ how' = [how EXCEPT ![n] = way]
    /\ UNCHANGED <<secret, member, caughtUp>>

\* vault-join: default_result ABANDON.  vault-leave: default_result CONTINUE.
HookExpires(n) ==
    /\ expiries < MaxExpiries /\ expiries' = expiries + 1
    /\ \/ asg[n] = "Pending:Wait" /\ Ends(n, "abandoned")
       \/ asg[n] = "Terminating:Wait" /\ Ends(n, "expired")
    /\ UNCHANGED <<errors, lapses, evictions, losses>>

Terminate(n) ==
    /\ asg[n] = "Terminating:Proceed" /\ Ends(n, how[n])
    /\ UNCHANGED counts

Die(n) ==
    /\ Alive(n) /\ losses < MaxLosses /\ losses' = losses + 1
    /\ Ends(n, "died")
    /\ UNCHANGED <<errors, lapses, evictions, expiries>>

-----------------------------------------------------------------------------
(* Vault: Raft, and the bootstrap that stores the operator token           *)

\* retry_join runs on its own, whatever the instance's lifecycle state.
Join(n) ==
    /\ Alive(n) /\ member[n] = "out" /\ Served
    /\ member' = [member EXCEPT ![n] = "learner"]
    /\ UNCHANGED <<asg, process, secret, caughtUp, ldr, how, counts>>

CatchUp(n) ==
    /\ Alive(n) /\ member[n] \in {"learner", "voter"} /\ n \notin caughtUp /\ Served
    /\ caughtUp' = caughtUp \union {n}
    /\ UNCHANGED <<asg, process, secret, member, ldr, how, counts>>

\* Autopilot makes a healthy learner a voter.
Promote(n) ==
    /\ Alive(n) /\ member[n] = "learner" /\ n \in caughtUp /\ Served
    /\ member' = [member EXCEPT ![n] = "voter"]
    /\ UNCHANGED <<asg, process, secret, caughtUp, ldr, how, counts>>

Elect(n) ==
    /\ ldr = None /\ Alive(n) /\ n \in Voters \intersect caughtUp /\ Quorum(Voters)
    /\ ldr' = n
    /\ UNCHANGED <<asg, process, secret, member, caughtUp, how, counts>>

Lapse(n) ==
    /\ lapses < MaxLapses /\ lapses' = lapses + 1
    /\ \/ n \in caughtUp /\ n # ldr /\ caughtUp' = caughtUp \ {n} /\ UNCHANGED ldr
       \/ ldr = n /\ ldr' = None /\ UNCHANGED caughtUp
    /\ UNCHANGED <<asg, process, secret, member, how, errors, evictions, expiries, losses>>

\* Bootstrap replaces whatever the secret held.
StoreToken ==
    /\ secret # "good" /\ secret' = "good"
    /\ UNCHANGED <<asg, process, raft, how, counts>>

\* Every instance there may ever be is gone: the end of this finite pool.
PoolExhausted == (\A n \in Nodes : asg[n] = "Terminated") /\ UNCHANGED vars

-----------------------------------------------------------------------------
Step(n) ==
    \/ Poll(n) \/ Ready(n) \/ CompleteLaunch(n) \/ CompleteTerminate(n)
    \/ ReadPeers(n) \/ StepDown(n) \/ AwaitLeader(n) \/ RemovePeer(n) \/ Recheck(n)
    \/ LeaveErr(n) \/ RetryLeave(n)

Vault(n) == Join(n) \/ CatchUp(n) \/ Promote(n) \/ Elect(n)

Group(n) ==
    \/ Launch(n) \/ Retire(n) \/ Evict(n) \/ HookExpires(n) \/ Terminate(n) \/ Die(n)

Next ==
    \/ \E n \in Nodes : \/ Step(n) \/ PollIdle(n) \/ LeaveDeadline(n) \/ RestartProcess(n)
                        \/ Vault(n) \/ Lapse(n) \/ Group(n)
    \/ StoreToken \/ PoolExhausted

(***************************************************************************)
(* The process keeps polling and its deadline comes; AWS terminates what   *)
(* has been continued; Vault joins, catches up, promotes and elects when   *)
(* it can; bootstrap ends.  AWS is not obliged to launch or retire.        *)
(***************************************************************************)
Fairness ==
    /\ \A n \in Nodes :
         WF_vars(Step(n)) /\ WF_vars(LeaveDeadline(n)) /\ WF_vars(Terminate(n)) /\ WF_vars(Vault(n))
    /\ WF_vars(StoreToken)

Spec == Init /\ [][Next]_vars
FairSpec == Spec /\ Fairness

-----------------------------------------------------------------------------
(* Correctness                                                             *)

\* An instance in service carries the data: nothing between the readiness check,
\* the continued launch hook and a later leave takes a voter's vote away from it.
\* (RunLifecycle, NodeHealthOK, LeaveRaft)
InServiceIsVoter == \A n \in Nodes : asg[n] = "InService" => member[n] = "voter"

\* A refresh never retires an old node before the new one holds the data: Size
\* voters are alive throughout, even when leaving fails.  (lifecycle.go:11-13)
RefreshKeepsCopies ==
    evictions = 0 /\ losses = 0
        => Cardinality({v \in Voters : Alive(v)}) >= Size

\* In a refresh whose nodes all manage to leave, the survivors keep quorum at
\* every step, and no leaver ever is the only voter.  (lifecycle.go:15-17)
RefreshKeepsQuorum ==
    (evictions = 0 /\ losses = 0 /\ \A n \in Nodes : how[n] \in {"none", "left", "sole"})
        => Quorum(Voters) /\ \A n \in Nodes : how[n] # "sole"

\* The terminate hook continues only after a decision, and after a leave that
\* succeeded the node is out of the peer set for good, restarts included.
DepartureDecided ==
    \A n \in Nodes : /\ asg[n] \in {"Terminating:Proceed", "Terminated"} => how[n] # "none"
                     /\ how[n] = "left" => member[n] = "removed"

\* A departing instance is not held forever: its hook is continued although
\* calls fail, the leader moves or the process restarts.  (leaveWithRetry)
Departs == \A n \in Nodes : asg[n] = "Terminating:Wait" ~> asg[n] = "Terminated"

\* A launched instance goes into service as long as the cluster has quorum, even
\* when the secret held the token of an earlier cluster at first.  (withToken)
EntersService ==
    \A n \in Nodes : asg[n] = "Pending:Wait" ~> asg[n] # "Pending:Wait" \/ ~Quorum(Voters)

-----------------------------------------------------------------------------
(* What a comment says and the code does not keep.                         *)

\* "A leader steps down first, so the removal is committed by a node that stays"
\* (raftpeers.go:74): the leader is not removed.
RemovalByStayer ==
    [][\A n \in Nodes : member[n] # "removed" /\ member'[n] = "removed" => ldr # n]_vars
=============================================================================
