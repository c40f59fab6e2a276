----------------------------- MODULE BreakGlass -----------------------------
(***************************************************************************)
(* vault-utils break-glass begin and end (cmd/vault-utils/breakglass.go,   *)
(* internal/vaultcluster/breakglass.go, tokenhelper.go), run from several  *)
(* terminals at once against the one generate-root attempt a Vault can     *)
(* have, and the store "vault login" keeps its token in.                   *)
(*                                                                         *)
(* An attempt is named by its number, which stands for its nonce, its OTP  *)
(* and the root token it mints.                                            *)
(***************************************************************************)
EXTENDS Integers, FiniteSets

CONSTANTS
    Terminals,      \* the shells that run break-glass
    Accounts,       \* the accounts, each with one token store
    AccountOf,      \* AccountOf[t]: the account terminal t runs as
    Required,       \* shares Vault requires
    Shares,         \* shares the key store holds
    MaxAttempts,    \* bound: generate-root attempts
    MaxRefusals,    \* bound: calls that fail without an effect
    MaxFaults       \* bound: crashes, lost answers, cancels that fail, lost attempts

ASSUME Setup ==
    /\ IsFiniteSet(Terminals)
    /\ AccountOf \in [Terminals -> Accounts]
    /\ Required \in Nat \ {0} /\ Shares \in Nat \ {0}
ASSUME Bounds == MaxAttempts \in Nat /\ MaxRefusals \in Nat /\ MaxFaults \in Nat

Roots == 1..MaxAttempts
None  == 0                  \* no token, no attempt
Login == -1                 \* a token of an ordinary "vault login"

VARIABLES
    pc,         \* pc[t]: where terminal t's command is
    mine,       \* mine[t]: the attempt begin has started
    sent,       \* sent[t]: the shares it has submitted to it
    hand,       \* hand[t]: the token the process holds
    saved,      \* saved[a]: the token in account a's store
    attempt,    \* the attempt in progress in Vault, or None
    progress,   \* the shares Vault has accepted for it
    started,    \* the attempts started so far
    live,       \* the root tokens that still work
    abandoned,  \* history: the roots a failure took from their holder, which no code goes after
    refusals, faults   \* counters against their bounds

process  == <<pc, mine, sent, hand>>
vault    == <<attempt, progress, started, live>>
failures == <<refusals, faults, abandoned>>
vars     == <<process, saved, vault, failures>>

PCs == {"idle", "status", "cancelStale", "init", "update", "cancel", "verify", "store",
        "revokeUnsaved", "lookup", "revoke", "erase"}

TypeOK ==
    /\ pc \in [Terminals -> PCs]
    /\ mine \in [Terminals -> Roots \union {None}]
    /\ sent \in [Terminals -> 0..Shares]
    /\ hand \in [Terminals -> Roots \union {None, Login}]
    /\ saved \in [Accounts -> Roots \union {None, Login}]
    /\ attempt \in Roots \union {None} /\ progress \in 0..(Required - 1)
    /\ started \in 0..MaxAttempts /\ live \in SUBSET Roots /\ abandoned \in SUBSET Roots
    /\ refusals \in 0..MaxRefusals /\ faults \in 0..MaxFaults

Init ==
    /\ pc = [t \in Terminals |-> "idle"] /\ mine = [t \in Terminals |-> None]
    /\ sent = [t \in Terminals |-> 0] /\ hand = [t \in Terminals |-> None]
    /\ saved \in [Accounts -> {None, Login}]
    /\ attempt = None /\ progress = 0 /\ started = 0 /\ live = {}
    /\ abandoned = {} /\ refusals = 0 /\ faults = 0

Goto(t, from, to) == pc[t] = from /\ pc' = [pc EXCEPT ![t] = to]

\* The command returns and the process forgets what it held.
Return(t) ==
    /\ pc' = [pc EXCEPT ![t] = "idle"] /\ mine' = [mine EXCEPT ![t] = None]
    /\ sent' = [sent EXCEPT ![t] = 0] /\ hand' = [hand EXCEPT ![t] = None]

\* The process alone has the root: minted, and in no store yet.
Minted(t) == pc[t] \in {"verify", "store", "revokeUnsaved"}

\* A failure, and the roots it takes from their holder.
Refused(lost) ==
    /\ refusals < MaxRefusals /\ refusals' = refusals + 1 /\ UNCHANGED faults
    /\ abandoned' = abandoned \union lost
Fault(lost) ==
    /\ faults < MaxFaults /\ faults' = faults + 1 /\ UNCHANGED refusals
    /\ abandoned' = abandoned \union lost

-----------------------------------------------------------------------------
(* begin                                                                   *)

\* The commands that may still start an attempt.
Starting == {t \in Terminals : pc[t] \in {"status", "cancelStale", "init"}}

\* begin refuses to run over a saved root.  A lookup that fails counts as none, and
\* the root is given up to the one that will be saved over it.
Begin(t) ==
    /\ started + Cardinality(Starting) < MaxAttempts
    /\ Goto(t, "idle", "status")
    /\ IF saved[AccountOf[t]] \in live THEN Refused({saved[AccountOf[t]]}) ELSE UNCHANGED failures
    /\ UNCHANGED <<mine, sent, hand, saved, vault>>

\* cancelStaleAttempt: any attempt Vault reports is taken for a stale one.
ReadStatus(t) ==
    /\ Goto(t, "status", IF attempt = None THEN "init" ELSE "cancelStale")
    /\ UNCHANGED <<mine, sent, hand, saved, vault, failures>>

\* Vault cancels whatever attempt is in progress, or nothing.
Cancelled == attempt' = None /\ progress' = 0 /\ UNCHANGED <<started, live>>

CancelStale(t) ==
    /\ pc[t] = "cancelStale" /\ Cancelled
    /\ \/ pc' = [pc EXCEPT ![t] = "init"] /\ UNCHANGED <<mine, sent, hand, failures>>
       \/ Return(t) /\ Fault({})          \* the answer is lost
    /\ UNCHANGED saved

\* GenerateRootInit, refused while another attempt is in progress.
StartAttempt(t) ==
    /\ pc[t] = "init" /\ attempt = None
    /\ started' = started + 1 /\ attempt' = started + 1 /\ progress' = 0
    /\ \/ /\ pc' = [pc EXCEPT ![t] = "update"] /\ mine' = [mine EXCEPT ![t] = started + 1]
          /\ UNCHANGED <<sent, hand, failures>>
       \/ Return(t) /\ Fault({})          \* the answer is lost
    /\ UNCHANGED <<saved, live>>

InitRefused(t) ==
    /\ pc[t] = "init" /\ attempt # None
    /\ Return(t)
    /\ UNCHANGED <<saved, vault, failures>>

\* selectShares
ToSend == IF Required < Shares THEN Required ELSE Shares

\* Fault: the shares of a finished attempt still count.
Accepted_NoReset ==
    /\ progress' = progress + 1
    /\ IF progress + 1 < Required
       THEN UNCHANGED <<attempt, live>>
       ELSE attempt' = None /\ live' = live \union {attempt}
    /\ UNCHANGED started

\* What an accepted share does: it is counted, or it is the last and mints the root.
Accepted ==
    /\ progress' = (progress + 1) % Required
    /\ IF progress + 1 < Required
       THEN UNCHANGED <<attempt, live>>
       ELSE attempt' = None /\ live' = live \union {attempt}
    /\ UNCHANGED started

\* Fault: shares go to whatever attempt is in progress.
SubmitShare_AnyNonce(t) ==
    /\ pc[t] = "update" /\ sent[t] < ToSend /\ attempt # None
    /\ Accepted
    /\ sent' = [sent EXCEPT ![t] = @ + 1]
    /\ IF progress + 1 < Required
       THEN UNCHANGED <<pc, hand>>
       ELSE pc' = [pc EXCEPT ![t] = "verify"] /\ hand' = [hand EXCEPT ![t] = attempt]
    /\ UNCHANGED <<mine, saved, failures>>

\* GenerateRootUpdate with the nonce of the process's own attempt.
SubmitShare(t) ==
    /\ pc[t] = "update" /\ sent[t] < ToSend /\ attempt = mine[t]
    /\ Accepted
    /\ \/ /\ sent' = [sent EXCEPT ![t] = @ + 1]
          /\ IF progress + 1 < Required
             THEN UNCHANGED <<pc, hand>>
             ELSE pc' = [pc EXCEPT ![t] = "verify"] /\ hand' = [hand EXCEPT ![t] = attempt]
          /\ UNCHANGED failures
       \/ /\ pc' = [pc EXCEPT ![t] = "cancel"] /\ UNCHANGED <<sent, hand>>
          /\ Fault(live' \ live)          \* its answer is lost, with the root it carried
    /\ UNCHANGED <<mine, saved>>

\* The share is refused because the attempt is no longer this process's, or the
\* shares run out before Vault has enough of them.
ShareFails(t) ==
    /\ attempt # mine[t] \/ sent[t] = ToSend
    /\ Goto(t, "update", "cancel")
    /\ UNCHANGED <<mine, sent, hand, saved, vault, failures>>

\* Fault: a failed begin leaves its attempt behind.
CancelAttempt_Kept(t) ==
    /\ pc[t] = "cancel"
    /\ Return(t)
    /\ UNCHANGED <<saved, vault, failures>>

\* The deferred cancel; its own failure is only logged.
CancelAttempt(t) ==
    /\ pc[t] = "cancel"
    /\ Return(t)
    /\ \/ Cancelled /\ UNCHANGED failures
       \/ Fault({}) /\ UNCHANGED vault
    /\ UNCHANGED saved

\* The lookup of the new root; when it fails the token is dropped as it is.
Verify(t) ==
    /\ pc[t] = "verify"
    /\ \/ pc' = [pc EXCEPT ![t] = "store"] /\ UNCHANGED <<mine, sent, hand, failures>>
       \/ Return(t) /\ Refused({hand[t]})
    /\ UNCHANGED <<saved, vault>>

\* StoreHelperToken
Store(t) ==
    /\ pc[t] = "store"
    /\ \/ saved' = [saved EXCEPT ![AccountOf[t]] = hand[t]] /\ Return(t) /\ UNCHANGED failures
       \/ pc' = [pc EXCEPT ![t] = "revokeUnsaved"] /\ Refused({}) /\ UNCHANGED <<mine, sent, hand, saved>>
    /\ UNCHANGED vault

\* Fault: a root that cannot be saved is dropped.
RevokeUnsaved_Dropped(t) == pc[t] = "revokeUnsaved" /\ Return(t) /\ UNCHANGED <<saved, vault, failures>>

\* begin returns an error whether or not the revocation works; one carried out whose
\* answer is lost leaves the same state as one that is answered.
RevokeUnsaved(t) ==
    /\ pc[t] = "revokeUnsaved"
    /\ Return(t)
    /\ \/ live' = live \ {hand[t]} /\ UNCHANGED failures
       \/ Fault({hand[t]}) /\ UNCHANGED live
    /\ UNCHANGED <<saved, attempt, progress, started>>

-----------------------------------------------------------------------------
(* end                                                                     *)

End(t) ==
    /\ saved[AccountOf[t]] # None
    /\ Goto(t, "idle", "lookup")
    /\ hand' = [hand EXCEPT ![t] = saved[AccountOf[t]]]
    /\ UNCHANGED <<mine, sent, saved, vault, failures>>

\* Only a token that holds the root policy is revoked.
LookupRoot(t) ==
    /\ pc[t] = "lookup"
    /\ \/ /\ hand[t] \in live
          /\ pc' = [pc EXCEPT ![t] = "revoke"] /\ UNCHANGED <<mine, sent, hand, failures>>
       \/ hand[t] \notin live /\ Return(t) /\ UNCHANGED failures
       \/ Return(t) /\ Refused({})
    /\ UNCHANGED <<saved, vault>>

\* Fault: a failed revocation does not keep end from erasing the token.
RevokeRoot_ErrIgnored(t) ==
    /\ Goto(t, "revoke", "erase")
    /\ \/ live' = live \ {hand[t]} /\ UNCHANGED failures
       \/ Refused({}) /\ UNCHANGED live
    /\ UNCHANGED <<mine, sent, hand, saved, attempt, progress, started>>

\* A revocation that fails, carried out or not, keeps the token in its store.
RevokeRoot(t) ==
    /\ pc[t] = "revoke"
    /\ \/ /\ hand[t] \in live /\ live' = live \ {hand[t]}
          /\ pc' = [pc EXCEPT ![t] = "erase"] /\ UNCHANGED <<mine, sent, hand, failures>>
       \/ live' = live \ {hand[t]} /\ Return(t) /\ Fault({})      \* its answer is lost
       \/ hand[t] \notin live /\ UNCHANGED live /\ Return(t) /\ UNCHANGED failures
       \/ UNCHANGED live /\ Return(t) /\ Refused({})
    /\ UNCHANGED <<saved, attempt, progress, started>>

\* EraseHelperToken removes what the store holds now.
Erase(t) ==
    /\ pc[t] = "erase"
    /\ Return(t)
    /\ \/ saved' = [saved EXCEPT ![AccountOf[t]] = None] /\ UNCHANGED failures
       \/ Refused({}) /\ UNCHANGED saved
    /\ UNCHANGED vault

-----------------------------------------------------------------------------
(* Failures                                                                *)

\* A call of begin fails without an effect: begin returns, or its deferred cancel runs.
CallFails(t) ==
    /\ \/ pc[t] = "update" /\ pc' = [pc EXCEPT ![t] = "cancel"] /\ UNCHANGED <<mine, sent, hand>>
       \/ pc[t] \in {"status", "cancelStale", "init"} /\ Return(t)
    /\ Refused({})
    /\ UNCHANGED <<saved, vault>>

\* The process is killed.
Crash(t) ==
    /\ pc[t] # "idle"
    /\ Return(t) /\ Fault(IF Minted(t) THEN {hand[t]} ELSE {})
    /\ UNCHANGED <<saved, vault>>

\* Vault keeps the attempt in memory: a restart or a new leader ends it.
LoseAttempt ==
    /\ attempt # None /\ Fault({}) /\ Cancelled
    /\ UNCHANGED <<process, saved>>

\* Nobody runs a command.
Quiet == (\A t \in Terminals : pc[t] = "idle") /\ UNCHANGED vars

-----------------------------------------------------------------------------
BeginStep(t) ==
    \/ Begin(t) \/ ReadStatus(t) \/ CancelStale(t) \/ StartAttempt(t) \/ InitRefused(t)
    \/ SubmitShare(t) \/ ShareFails(t) \/ CancelAttempt(t)
    \/ Verify(t) \/ Store(t) \/ RevokeUnsaved(t)

EndStep(t) == End(t) \/ LookupRoot(t) \/ RevokeRoot(t) \/ Erase(t)

Next == (\E t \in Terminals : BeginStep(t) \/ EndStep(t) \/ CallFails(t) \/ Crash(t))
        \/ LoseAttempt \/ Quiet

Spec == Init /\ [][Next]_vars

-----------------------------------------------------------------------------
(* Correctness                                                             *)

\* Every terminal runs as an account of its own.
OwnStores == \A t, u \in Terminals : AccountOf[t] = AccountOf[u] => t = u

Held == {hand[t] : t \in Terminals} \union {saved[a] : a \in Accounts}

\* Whoever gets a token gets the one its own OTP decodes, however attempts are
\* cancelled and replaced between two shares.  (generateRoot)
TokenIsOwn ==
    \A t \in Terminals : Minted(t) => hand[t] = mine[t]

\* No root token works that nobody holds: whatever commands fail or overlap, it is in a
\* process's hand or in a store, while stores are not shared.  The roots excepted are
\* those a failure itself took and the code does not go after: the last share's answer
\* lost, the new root's lookup refused, the revocation of an unsaved root refused, the
\* process killed with the root in hand, the lookup of a saved root refused to a begin.
\* (BreakGlass.Begin, breakGlassBegin, breakGlassEnd)
NoStrayRoot == OwnStores => live \subseteq Held \union abandoned

\* A failed begin leaves no attempt behind, whichever call failed and whoever
\* cancelled what in between.  (the deferred cancel of generateRoot)
AttemptHasOwner ==
    faults = 0 /\ attempt # None
        => \E t \in Terminals : mine[t] = attempt /\ pc[t] \in {"update", "cancel"}

\* end erases a saved root only once that root has stopped working.  (End)
ErasedIsRevoked ==
    [][OwnStores => \A a \in Accounts :
         saved[a] \in Roots /\ saved'[a] = None => saved[a] \notin live']_vars

-----------------------------------------------------------------------------
(* What the documentation says and the code does not keep.                 *)

\* "`begin` refuses to run while a root is already saved" (README.md:379): a saved
\* root that works is not replaced by another.
SavedRootKept ==
    [][\A a \in Accounts : saved[a] \in live => saved'[a] \in {saved[a], None}]_vars
=============================================================================
