-------------------------- MODULE BreakGlass_proofs --------------------------
(***************************************************************************)
(* Break-glass roots, for every set of terminals and accounts, every number *)
(* of shares, attempts, refused calls and faults.                          *)
(***************************************************************************)
EXTENDS BreakGlass, FiniteSetTheorems, TLAPS

(***************************************************************************)
(* Attempts are numbered as they start, so whatever anybody holds or has    *)
(* saved is older than the attempt in progress.                            *)
(***************************************************************************)

\* The commands under way that may start an attempt have room to.
Budget == started + Cardinality(Starting) <= MaxAttempts

Began(t)  == pc[t] \in {"update", "cancel", "verify", "store", "revokeUnsaved"}
Ending(t) == pc[t] \in {"lookup", "revoke", "erase"}

\* What a command has begun is its own, and only a minted or a saved token is held.
Owned(t) ==
    /\ Began(t) => mine[t] \in Roots /\ mine[t] <= started
    /\ Minted(t) => hand[t] = mine[t]
    /\ ~Minted(t) /\ ~Ending(t) => hand[t] = None
    /\ hand[t] <= started /\ (attempt # None => hand[t] # attempt)

Kept(a) == saved[a] <= started /\ (attempt # None => saved[a] # attempt)

Known ==
    /\ TypeOK /\ Budget /\ attempt <= started
    /\ \A t \in Terminals : Owned(t)
    /\ \A a \in Accounts : Kept(a)

LEMMA StartingFinite == IsFiniteSet(Starting) /\ Cardinality(Starting) \in Nat
BY Setup, FS_Subset, FS_CardinalityType DEF Starting

LEMMA KnownInit == Init => Known
<1> SUFFICES ASSUME Init PROVE Known
  OBVIOUS
<1>1. TypeOK
  BY Setup, Bounds DEF Init, TypeOK, PCs, None
<1>2. Budget
  <2>1. Starting = {}
    BY DEF Init, Starting
  <2> QED BY <2>1, FS_EmptySet, Bounds DEF Budget, Init
<1> QED BY <1>1, <1>2 DEF Init, Known, Owned, Kept, Began, Minted, Ending, None, Login

\* No step but Begin puts a command among those that may start an attempt.
LEMMA BudgetKept ==
    ASSUME Known, Starting' \subseteq Starting, started' = started
    PROVE  Budget'
<1>1. Cardinality(Starting') <= Cardinality(Starting) /\ Cardinality(Starting') \in Nat
  BY StartingFinite, FS_Subset, FS_CardinalityType
<1>2. started \in Nat /\ Cardinality(Starting) \in Nat
  BY StartingFinite, Bounds DEF Known, TypeOK
<1>3. started' + Cardinality(Starting') <= MaxAttempts
  BY <1>1, <1>2, Bounds DEF Known, Budget
<1> QED BY <1>3 DEF Budget

LEMMA BudgetBegin ==
    ASSUME Known, NEW t \in Terminals, Begin(t)
    PROVE  Budget'
<1>1. Starting' = Starting \union {t} /\ t \notin Starting
  BY DEF Begin, Goto, Starting, Known, TypeOK
<1>2. IsFiniteSet(Starting) /\ Cardinality(Starting) \in Nat
  BY StartingFinite
<1>3. Cardinality(Starting') = Cardinality(Starting) + 1
  BY <1>1, <1>2, FS_AddElement
<1>4. started' = started /\ started + Cardinality(Starting) < MaxAttempts /\ started \in Nat
  BY Bounds DEF Begin, vault, Known, TypeOK
<1>5. started' + Cardinality(Starting') <= MaxAttempts
  BY <1>2, <1>3, <1>4, Bounds
<1> QED BY <1>5 DEF Budget

LEMMA BudgetStart ==
    ASSUME Known, NEW t \in Terminals, StartAttempt(t)
    PROVE  Budget' /\ started + 1 \in Roots
<1>1. pc'[t] \in {"update", "idle"} /\ \A u \in Terminals : u # t => pc'[u] = pc[u]
  BY DEF StartAttempt, Return, Known, TypeOK
<1>2. Starting' = Starting \ {t} /\ t \in Starting
  BY <1>1 DEF StartAttempt, Starting
<1>3. IsFiniteSet(Starting) /\ Cardinality(Starting) \in Nat
  BY StartingFinite
<1>4. Cardinality(Starting') = Cardinality(Starting) - 1
  BY <1>2, <1>3, FS_RemoveElement
<1>5. Cardinality(Starting') \in Nat
  BY <1>2, <1>3, FS_RemoveElement, FS_CardinalityType
<1>6. started' = started + 1 /\ started \in Nat
  BY Bounds DEF StartAttempt, Known, TypeOK
<1>7. started' + Cardinality(Starting') <= MaxAttempts /\ started + 1 <= MaxAttempts
  BY <1>3, <1>4, <1>5, <1>6, Bounds DEF Known, Budget
<1> QED BY <1>6, <1>7, Bounds DEF Budget, Roots

LEMMA ProgressType ==
    ASSUME NEW p \in 0..(Required - 1)
    PROVE  (p + 1) % Required \in 0..(Required - 1)
BY Setup

\* What a step may do to the history of failures.
Failing ==
    /\ \/ refusals < MaxRefusals /\ refusals' = refusals + 1 /\ UNCHANGED faults
       \/ faults < MaxFaults /\ faults' = faults + 1 /\ UNCHANGED refusals
       \/ UNCHANGED <<refusals, faults>>
    /\ abandoned \subseteq abandoned' /\ abandoned' \subseteq Roots

LEMMA CountsType ==
    ASSUME TypeOK, Failing
    PROVE  refusals' \in 0..MaxRefusals /\ faults' \in 0..MaxFaults /\ abandoned' \in SUBSET Roots
BY Bounds DEF TypeOK, Failing

\* A failure takes a root only from a command that has minted it, or from its account.
LEMMA TerminalFailing ==
    ASSUME Known, NEW t \in Terminals, BeginStep(t) \/ EndStep(t) \/ CallFails(t) \/ Crash(t)
    PROVE  Failing
<1> USE DEF failures
<1>1. abandoned \subseteq Roots
  BY DEF Known, TypeOK
<1>2. ASSUME NEW lost \in SUBSET Roots, Refused(lost) \/ Fault(lost)
      PROVE  Failing
  BY <1>1, <1>2 DEF Refused, Fault, Failing
<1>3. ASSUME UNCHANGED failures
      PROVE  Failing
  BY <1>1, <1>3 DEF Failing
<1>4. {} \in SUBSET Roots /\ (Minted(t) => {hand[t]} \in SUBSET Roots)
  BY DEF Known, Owned, Began, Minted
<1>5. CASE Begin(t)
  <2>1. saved[AccountOf[t]] \in live => {saved[AccountOf[t]]} \in SUBSET Roots
    BY DEF Known, TypeOK
  <2> QED BY <1>2, <1>3, <1>5, <2>1 DEF Begin
<1>6. CASE SubmitShare(t)
  <2>1. live' \ live \in SUBSET Roots
    BY <1>6 DEF SubmitShare, Accepted, Known, Owned, Began
  <2> QED BY <1>2, <1>3, <1>6, <2>1 DEF SubmitShare
<1>7. CASE Verify(t) \/ RevokeUnsaved(t) \/ Crash(t)
  BY <1>2, <1>3, <1>4, <1>7 DEF Verify, RevokeUnsaved, Crash, Minted
<1>8. CASE CancelStale(t) \/ StartAttempt(t) \/ CancelAttempt(t) \/ Store(t) \/ LookupRoot(t)
           \/ RevokeRoot(t) \/ Erase(t) \/ CallFails(t)
  BY <1>2, <1>3, <1>4, <1>8 DEF CancelStale, StartAttempt, CancelAttempt, Store, LookupRoot, RevokeRoot,
     Erase, CallFails
<1>9. CASE ReadStatus(t) \/ InitRefused(t) \/ ShareFails(t) \/ End(t)
  BY <1>3, <1>9 DEF ReadStatus, InitRefused, ShareFails, End
<1> QED BY <1>5, <1>6, <1>7, <1>8, <1>9 DEF BeginStep, EndStep

\* A step of terminal t is on its own variables.
Others(t) ==
    \A u \in Terminals \ {t} :
        pc'[u] = pc[u] /\ mine'[u] = mine[u] /\ sent'[u] = sent[u] /\ hand'[u] = hand[u]

\* Every step but the start of an attempt: what Known asks of it.
LEMMA KnownKept ==
    ASSUME Known, TypeOK', Budget', NEW t \in Terminals, Others(t), started' = started,
           attempt' \in {attempt, None}, Owned(t)',
           \/ saved' = saved
           \/ \E v \in {hand[t], None} : saved' = [saved EXCEPT ![AccountOf[t]] = v]
    PROVE  Known'
<1>1. started \in Nat /\ (attempt' = attempt \/ attempt' = None) /\ attempt' <= started'
  BY Bounds DEF Known, TypeOK, None
<1>2. ASSUME NEW u \in Terminals PROVE Owned(u)'
  BY <1>1 DEF Known, Owned, Began, Minted, Ending, Others
<1>3. ASSUME NEW a \in Accounts PROVE Kept(a)'
  <2>1. CASE saved'[a] = saved[a]
    BY <1>1, <2>1 DEF Known, Kept
  <2>2. CASE saved'[a] = hand[t]
    BY <1>1, <2>2 DEF Known, Kept, Owned
  <2>3. CASE saved'[a] = None
    BY <1>1, <2>3 DEF Kept, TypeOK, None, Roots
  <2> QED BY <2>1, <2>2, <2>3 DEF Known, TypeOK
<1> QED BY <1>1, <1>2, <1>3 DEF Known

LEMMA BudgetTerminal ==
    ASSUME Known, NEW t \in Terminals, Others(t), started' = started, pc' = [pc EXCEPT ![t] = pc'[t]],
           pc'[t] \in {"status", "cancelStale", "init"} => pc[t] \in {"status", "cancelStale", "init"}
    PROVE  Budget'
<1>1. Starting' \subseteq Starting
  BY DEF Starting, Others
<1> QED BY <1>1, BudgetKept

LEMMA KnownStart ==
    ASSUME Known, NEW t \in Terminals, StartAttempt(t)
    PROVE  Known'
<1>1. Budget' /\ started + 1 \in Roots
  BY BudgetStart
<1>2. started \in Nat /\ started + 1 \in Nat /\ started' = started + 1 /\ attempt' = started + 1
  BY Bounds DEF StartAttempt, Known, TypeOK
<1>3. refusals' \in 0..MaxRefusals /\ faults' \in 0..MaxFaults /\ abandoned' \in SUBSET Roots
  BY CountsType, TerminalFailing DEF BeginStep, Known
<1>4. started' \in 0..MaxAttempts /\ 0 \in 0..(Required - 1)
  BY <1>1, <1>2, Bounds, Setup DEF Roots
<1>5. TypeOK'
  <2>1. pc' \in [Terminals -> PCs] /\ mine' \in [Terminals -> Roots \union {None}]
    BY <1>1 DEF StartAttempt, Return, Known, TypeOK, PCs
  <2>2. sent' \in [Terminals -> 0..Shares] /\ hand' \in [Terminals -> Roots \union {None, Login}]
    BY Setup DEF StartAttempt, Return, Known, TypeOK
  <2> QED BY <1>1, <1>2, <1>3, <1>4, <2>1, <2>2 DEF StartAttempt, Known, TypeOK
<1>6. ASSUME NEW u \in Terminals PROVE Owned(u)'
  <2>1. hand'[u] <= started' /\ hand'[u] # attempt'
    <3>1. hand'[u] \in {hand[u], None}
      BY DEF StartAttempt, Return, Known, TypeOK
    <3>2. hand[u] <= started /\ hand[u] \in Int
      BY Bounds DEF Known, Owned, TypeOK, Roots, None, Login
    <3> QED BY <1>2, <3>1, <3>2 DEF None
  <2>2. CASE u # t
    <3>1. pc'[u] = pc[u] /\ mine'[u] = mine[u] /\ hand'[u] = hand[u] /\ mine[u] \in Int
      BY <2>2, Bounds DEF StartAttempt, Return, Known, TypeOK, Roots, None
    <3>2. Began(u) => mine[u] \in Roots /\ mine[u] <= started'
      BY <1>2, <3>1 DEF Known, Owned
    <3> QED BY <2>1, <3>1, <3>2 DEF Known, Owned, Began, Minted, Ending
  <2>3. CASE u = t
    <3>1. hand'[t] = None
      BY DEF StartAttempt, Return, Known, TypeOK, Owned, Minted, Ending
    <3>2. \/ pc'[t] = "update" /\ mine'[t] = started + 1
          \/ pc'[t] = "idle"
      BY DEF StartAttempt, Return, Known, TypeOK
    <3>3. pc'[t] = "update" => mine'[t] \in Roots /\ mine'[t] <= started'
      BY <1>1, <1>2, <3>2
    <3> QED BY <2>1, <2>3, <3>1, <3>2, <3>3 DEF Owned, Began, Minted, Ending
  <2> QED BY <2>2, <2>3
<1>7. ASSUME NEW a \in Accounts PROVE Kept(a)'
  <2>1. saved' = saved /\ saved[a] <= started /\ saved[a] \in Int
    BY Bounds DEF StartAttempt, Known, Kept, TypeOK, Roots, None, Login
  <2> QED BY <1>2, <2>1 DEF Kept
<1> QED BY <1>1, <1>2, <1>5, <1>6, <1>7 DEF Known

\* A command that returns holds nothing any more.
LEMMA ReturnKnown ==
    ASSUME Known, NEW t \in Terminals, Return(t), started' = started, attempt' \in {attempt, None},
           progress' \in 0..(Required - 1), live' \in SUBSET Roots,
           Failing,
           \/ saved' = saved
           \/ \E v \in {hand[t], None} : saved' = [saved EXCEPT ![AccountOf[t]] = v]
    PROVE  Known'
<1>1. refusals' \in 0..MaxRefusals /\ faults' \in 0..MaxFaults /\ abandoned' \in SUBSET Roots
  BY CountsType DEF Known
<1>2. TypeOK'
  <2>1. pc' \in [Terminals -> PCs] /\ mine' \in [Terminals -> Roots \union {None}]
        /\ sent' \in [Terminals -> 0..Shares] /\ hand' \in [Terminals -> Roots \union {None, Login}]
    BY Setup DEF Return, Known, TypeOK, PCs
  <2>2. saved' \in [Accounts -> Roots \union {None, Login}]
    BY Setup DEF Known, TypeOK
  <2> QED BY <1>1, <2>1, <2>2 DEF Known, TypeOK
<1>3. Others(t) /\ pc'[t] = "idle" /\ hand'[t] = None /\ pc' = [pc EXCEPT ![t] = pc'[t]]
  BY DEF Return, Known, TypeOK, Others
<1>4. Budget'
  BY <1>3, BudgetTerminal
<1>5. Owned(t)'
  BY <1>2, <1>3, Bounds DEF Owned, Began, Minted, Ending, Known, TypeOK, None, Roots
<1> QED BY <1>2, <1>3, <1>4, <1>5, KnownKept

\* A command that goes on within begin or end.
LEMMA MoveKnown ==
    ASSUME Known, NEW t \in Terminals, NEW to \in PCs, pc' = [pc EXCEPT ![t] = to],
           UNCHANGED <<mine, saved, started>>, attempt' \in {attempt, None},
           progress' \in 0..(Required - 1), live' \in SUBSET Roots,
           sent' \in [Terminals -> 0..Shares], \A u \in Terminals \ {t} : sent'[u] = sent[u],
           NEW h \in Roots \union {None, Login}, hand' = [hand EXCEPT ![t] = h],
           Failing, Budget', Owned(t)'
    PROVE  Known'
<1>1. refusals' \in 0..MaxRefusals /\ faults' \in 0..MaxFaults /\ abandoned' \in SUBSET Roots
  BY CountsType DEF Known
<1>2. TypeOK'
  BY <1>1 DEF Known, TypeOK
<1>3. Others(t)
  BY DEF Known, TypeOK, Others
<1> QED BY <1>2, <1>3, KnownKept

LEMMA MoveBegin ==
    ASSUME Known, NEW t \in Terminals, Failing, ~Return(t),
           \/ Begin(t) \/ ReadStatus(t) \/ CancelStale(t) \/ ShareFails(t) \/ SubmitShare(t)
    PROVE  Known'
<1> USE DEF vault, failures, Goto
<1>1. hand[t] \in Roots \union {None, Login} /\ 0 \in 0..(Required - 1)
  BY Setup DEF Known, TypeOK
<1>2. CASE Begin(t) \/ ReadStatus(t) \/ CancelStale(t) \/ ShareFails(t)
  <2>1. PICK to \in {"status", "init", "cancelStale", "cancel"} : pc' = [pc EXCEPT ![t] = to]
    BY <1>2 DEF Begin, ReadStatus, CancelStale, ShareFails
  <2>2. /\ UNCHANGED <<mine, sent, hand, saved, started, live>>
        /\ attempt' \in {attempt, None} /\ progress' \in {progress, 0}
    BY <1>2 DEF Begin, ReadStatus, CancelStale, ShareFails, Cancelled
  <2>3. Budget'
    <3>1. CASE ~Begin(t)
      <4>1. Others(t) /\ pc' = [pc EXCEPT ![t] = pc'[t]] /\ pc'[t] = to
        BY <2>1, <2>2 DEF Others, Known, TypeOK
      <4>2. to \in {"status", "cancelStale", "init"} => pc[t] \in {"status", "cancelStale", "init"}
        BY <1>2, <2>1, <3>1, <4>1 DEF ReadStatus, CancelStale, ShareFails, Known, TypeOK
      <4> QED BY <2>2, <4>1, <4>2, BudgetTerminal
    <3> QED BY <3>1, BudgetBegin
  <2>4. Owned(t)'
    <3>1. pc'[t] = to /\ ~Minted(t) /\ ~Ending(t) /\ (to = "cancel" => Began(t))
      BY <1>2, <2>1 DEF Begin, ReadStatus, CancelStale, ShareFails, Known, TypeOK, Minted, Ending, Began
    <3>2. Owned(t) /\ (attempt' # None => attempt' = attempt)
      BY <2>2 DEF Known
    <3> QED BY <2>2, <3>1, <3>2 DEF Owned, Began, Minted, Ending
  <2>5. to \in PCs /\ hand' = [hand EXCEPT ![t] = hand[t]]
    BY <2>2 DEF PCs, Known, TypeOK
  <2>6. /\ progress' \in 0..(Required - 1) /\ live' \in SUBSET Roots
        /\ sent' \in [Terminals -> 0..Shares] /\ \A u \in Terminals \ {t} : sent'[u] = sent[u]
    BY <1>1, <2>2 DEF Known, TypeOK
  <2> QED BY <1>1, <2>1, <2>2, <2>3, <2>4, <2>5, <2>6, MoveKnown
<1>3. CASE SubmitShare(t)
  <2>1. /\ pc[t] = "update" /\ attempt = mine[t] /\ mine[t] \in Roots /\ mine[t] <= started
        /\ hand[t] = None /\ started' = started /\ progress' = (progress + 1) % Required
    BY <1>3 DEF SubmitShare, Accepted, Known, Owned, Began, Minted, Ending
  <2>2. attempt' \in {attempt, None} /\ live' \in SUBSET Roots /\ UNCHANGED <<mine, saved>>
    BY <1>3, <2>1 DEF SubmitShare, Accepted, Known, TypeOK
  <2>3. progress' \in 0..(Required - 1)
    BY <2>1, ProgressType DEF Known, TypeOK
  <2>4. sent' \in [Terminals -> 0..Shares] /\ \A u \in Terminals \ {t} : sent'[u] = sent[u]
    <3>1. sent[t] < Shares \/ sent' = sent
      BY <1>3, Setup DEF SubmitShare, ToSend, Known, TypeOK
    <3>2. sent[t] < Shares => sent[t] + 1 \in 0..Shares
      BY Setup DEF Known, TypeOK
    <3>3. sent' = sent \/ sent' = [sent EXCEPT ![t] = sent[t] + 1]
      BY <1>3 DEF SubmitShare
    <3> QED BY <3>1, <3>2, <3>3 DEF Known, TypeOK
  <2>6. \E to \in {"update", "cancel", "verify"}, h \in {None, mine[t]} :
           /\ pc' = [pc EXCEPT ![t] = to] /\ hand' = [hand EXCEPT ![t] = h]
           /\ to = "verify" => h = mine[t] /\ attempt' = None
           /\ to # "verify" => h = None
    <3>1. \/ pc' = pc /\ hand' = hand
          \/ pc' = [pc EXCEPT ![t] = "cancel"] /\ hand' = hand
          \/ /\ pc' = [pc EXCEPT ![t] = "verify"] /\ hand' = [hand EXCEPT ![t] = mine[t]]
             /\ attempt' = None
      BY <1>3, <2>1 DEF SubmitShare, Accepted
    <3>2. pc = [pc EXCEPT ![t] = "update"] /\ hand = [hand EXCEPT ![t] = None]
      BY <2>1 DEF Known, TypeOK
    <3> QED BY <3>1, <3>2
  <2>7. PICK to \in {"update", "cancel", "verify"}, h \in {None, mine[t]} :
           /\ pc' = [pc EXCEPT ![t] = to] /\ hand' = [hand EXCEPT ![t] = h]
           /\ to = "verify" => h = mine[t] /\ attempt' = None
           /\ to # "verify" => h = None
    BY <2>6
  <2>8. Others(t) /\ pc' = [pc EXCEPT ![t] = pc'[t]] /\ pc'[t] = to /\ hand'[t] = h
    BY <2>2, <2>4, <2>7 DEF Known, TypeOK, Others
  <2>9. Budget'
    BY <2>1, <2>8, BudgetTerminal
  <2>10. Owned(t)'
    <3>1. started \in Nat /\ None <= started /\ (attempt # None => None # attempt)
      BY Bounds DEF Known, TypeOK, None
    <3> QED BY <2>1, <2>2, <2>7, <2>8, <3>1 DEF Owned, Began, Minted, Ending
  <2>11. to \in PCs /\ h \in Roots \union {None, Login}
    BY <2>1 DEF PCs
  <2> QED BY <2>1, <2>2, <2>3, <2>4, <2>7, <2>9, <2>10, <2>11, MoveKnown
<1> QED BY <1>2, <1>3

LEMMA MoveHeld ==
    ASSUME Known, NEW t \in Terminals, Failing,
           Verify(t) \/ Store(t) \/ End(t) \/ LookupRoot(t) \/ RevokeRoot(t) \/ CallFails(t), ~Return(t)
    PROVE  Known'
<1> USE DEF vault, failures, Goto
<1> DEFINE tok == IF pc[t] = "idle" THEN saved[AccountOf[t]] ELSE hand[t]
<1>1. tok \in Roots \union {None, Login} /\ 0 \in 0..(Required - 1)
  BY Setup DEF Known, TypeOK
<1>2. \E to \in {"store", "revokeUnsaved", "lookup", "revoke", "erase", "cancel"} :
         /\ pc' = [pc EXCEPT ![t] = to]
         /\ to \in {"store", "revokeUnsaved"} => Minted(t)
         /\ to = "cancel" => pc[t] = "update"
         /\ to = "lookup" <=> pc[t] = "idle"
         /\ to \in {"lookup", "revoke", "erase"} => pc[t] \in {"idle", "lookup", "revoke"}
  BY DEF Verify, Store, End, LookupRoot, RevokeRoot, CallFails, Minted
<1>3. PICK to \in {"store", "revokeUnsaved", "lookup", "revoke", "erase", "cancel"} :
         /\ pc' = [pc EXCEPT ![t] = to]
         /\ to \in {"store", "revokeUnsaved"} => Minted(t)
         /\ to = "cancel" => pc[t] = "update"
         /\ to = "lookup" <=> pc[t] = "idle"
         /\ to \in {"lookup", "revoke", "erase"} => pc[t] \in {"idle", "lookup", "revoke"}
  BY <1>2
<1>4. /\ UNCHANGED <<mine, sent, saved, started, attempt, progress>>
      /\ live' \in SUBSET Roots
  BY DEF Verify, Store, End, LookupRoot, RevokeRoot, CallFails, Known, TypeOK
<1>5. hand' = [hand EXCEPT ![t] = tok]
  BY DEF Verify, Store, End, LookupRoot, RevokeRoot, CallFails, Known, TypeOK
<1>6. Others(t) /\ pc' = [pc EXCEPT ![t] = pc'[t]] /\ pc'[t] = to /\ hand'[t] = tok /\ to \in PCs
  BY <1>3, <1>4, <1>5 DEF Known, TypeOK, Others, PCs
<1>7. Budget'
  BY <1>3, <1>4, <1>6, BudgetTerminal
<1>8. Owned(t)'
  <2>1. tok <= started /\ (attempt # None => tok # attempt)
    BY Setup DEF Known, Owned, Kept, TypeOK
  <2>2. to = "cancel" => tok = None
    BY <1>3 DEF Known, Owned, Minted, Ending
  <2>3. to \in {"store", "revokeUnsaved"} => tok = mine[t] /\ Began(t)
    BY <1>3 DEF Known, Owned, Minted, Began
  <2> QED BY <1>3, <1>4, <1>6, <2>1, <2>2, <2>3 DEF Known, Owned, Began, Minted, Ending
<1>9. attempt' \in {attempt, None} /\ progress' \in 0..(Required - 1)
      /\ sent' \in [Terminals -> 0..Shares] /\ \A u \in Terminals \ {t} : sent'[u] = sent[u]
  BY <1>4 DEF Known, TypeOK
<1> QED BY <1>1, <1>3, <1>4, <1>5, <1>6, <1>7, <1>8, <1>9, MoveKnown

LEMMA ReturnStep ==
    ASSUME Known, NEW t \in Terminals, Return(t), BeginStep(t) \/ EndStep(t) \/ CallFails(t) \/ Crash(t),
           ~StartAttempt(t), Failing
    PROVE  Known'
<1> USE DEF vault, failures, Goto
<1>1. pc'[t] = "idle" /\ 0 \in 0..(Required - 1)
  BY Setup DEF Return, Known, TypeOK
<1>2. ~Begin(t) /\ ~ReadStatus(t) /\ ~ShareFails(t) /\ ~End(t) /\ ~SubmitShare(t)
  <2>1. ~Begin(t) /\ ~ReadStatus(t) /\ ~ShareFails(t) /\ ~End(t)
    BY <1>1 DEF Begin, ReadStatus, ShareFails, End, Known, TypeOK
  <2>2. ~SubmitShare(t)
    BY <1>1 DEF SubmitShare, Known, TypeOK
  <2> QED BY <2>1, <2>2
<1>3. /\ started' = started /\ attempt' \in {attempt, None} /\ progress' \in {progress, 0}
      /\ live' \in SUBSET Roots
  BY <1>2 DEF BeginStep, EndStep, CancelStale, InitRefused, CancelAttempt, Cancelled, Verify, Store, RevokeUnsaved,
     LookupRoot, RevokeRoot, Erase, CallFails, Crash, Known, TypeOK
<1>4. \/ saved' = saved
      \/ \E v \in {hand[t], None} : saved' = [saved EXCEPT ![AccountOf[t]] = v]
  BY <1>2 DEF BeginStep, EndStep, CancelStale, InitRefused, CancelAttempt, Verify, Store, RevokeUnsaved,
     LookupRoot, RevokeRoot, Erase, CallFails, Crash
<1>5. progress' \in 0..(Required - 1)
  BY <1>1, <1>3 DEF Known, TypeOK
<1> QED BY <1>3, <1>4, <1>5, ReturnKnown

\* Every step of a terminal keeps to itself.
LEMMA TerminalOthers ==
    ASSUME Known, NEW t \in Terminals, BeginStep(t) \/ EndStep(t) \/ CallFails(t) \/ Crash(t)
    PROVE  Others(t)
<1> USE DEF Others, Return, Goto, Known, TypeOK
<1>1. CASE BeginStep(t)
  BY <1>1 DEF BeginStep, Begin, ReadStatus, CancelStale, StartAttempt, InitRefused, SubmitShare, ShareFails,
     CancelAttempt, Verify, Store, RevokeUnsaved
<1>2. CASE EndStep(t)
  BY <1>2 DEF EndStep, End, LookupRoot, RevokeRoot, Erase
<1>3. CASE CallFails(t) \/ Crash(t)
  BY <1>3 DEF CallFails, Crash
<1> QED BY <1>1, <1>2, <1>3

LEMMA KnownStep == Known /\ [Next]_vars => Known'
<1> SUFFICES ASSUME Known, [Next]_vars PROVE Known'
  OBVIOUS
<1>1. ASSUME NEW t \in Terminals, BeginStep(t) \/ EndStep(t) \/ CallFails(t) \/ Crash(t)
      PROVE  Known'
  <2> USE TerminalFailing
  <2>1. CASE Return(t) /\ ~StartAttempt(t)
    BY <1>1, <2>1, ReturnStep
  <2>2. CASE StartAttempt(t)
    BY <2>2, KnownStart
  <2>3. CASE ~Return(t) /\ (Begin(t) \/ ReadStatus(t) \/ CancelStale(t) \/ ShareFails(t) \/ SubmitShare(t))
    BY <1>1, <2>3, MoveBegin
  <2>4. CASE ~Return(t) /\ (Verify(t) \/ Store(t) \/ End(t) \/ LookupRoot(t) \/ RevokeRoot(t) \/ CallFails(t))
    BY <1>1, <2>4, MoveHeld
  <2> QED BY <1>1, <2>1, <2>2, <2>3, <2>4 DEF BeginStep, EndStep, InitRefused, CancelAttempt,
          RevokeUnsaved, Erase, Crash
<1>2. CASE LoseAttempt
  <2>1. /\ attempt' = None /\ progress' = 0 /\ UNCHANGED <<pc, mine, sent, hand, saved, started, live>>
        /\ refusals' \in 0..MaxRefusals /\ faults' \in 0..MaxFaults /\ abandoned' \in SUBSET Roots
    BY <1>2, Bounds DEF LoseAttempt, Fault, Cancelled, process, Known, TypeOK
  <2>2. TypeOK'
    BY <2>1, Setup DEF Known, TypeOK
  <2>3. Starting' \subseteq Starting
    BY <2>1 DEF Starting
  <2>4. Budget'
    BY <2>1, <2>3, BudgetKept
  <2>5. \A u \in Terminals : Owned(u)'
    BY <2>1 DEF Known, Owned, Began, Minted, Ending
  <2>6. (\A a \in Accounts : Kept(a)') /\ attempt' <= started'
    BY <2>1, Bounds DEF Known, TypeOK, Kept, None
  <2> QED BY <2>2, <2>4, <2>5, <2>6 DEF Known
<1>3. CASE UNCHANGED vars
  <2>1. UNCHANGED <<pc, mine, sent, hand, saved, attempt, progress, started, live, refusals, faults, abandoned>>
    BY <1>3 DEF vars, process, vault, failures
  <2> QED BY <2>1 DEF Known, TypeOK, Budget, Starting, Owned, Kept, Began, Minted, Ending
<1> QED BY <1>1, <1>2, <1>3 DEF Next, Quiet

\* Every variable of the break-glass model stays in its type.
THEOREM BreakGlassTyping == Spec => []TypeOK
<1>1. Known => TypeOK
  BY DEF Known
<1> QED BY <1>1, KnownInit, KnownStep, PTL DEF Spec

\* Whoever gets a token gets the one its own OTP decodes.
THEOREM OwnToken == Spec => []TokenIsOwn
<1>1. Known => TokenIsOwn
  BY DEF Known, Owned, Minted, TokenIsOwn
<1> QED BY <1>1, KnownInit, KnownStep, PTL DEF Spec

-----------------------------------------------------------------------------
(***************************************************************************)
(* The attempt.  Without faults, the one in progress belongs to a command   *)
(* that is still submitting its shares, or is about to cancel.             *)
(***************************************************************************)

LEMMA OwnerInit == Init => AttemptHasOwner
BY DEF Init, AttemptHasOwner

LEMMA OwnerStep == Known /\ AttemptHasOwner /\ [Next]_vars => AttemptHasOwner'
<1> SUFFICES ASSUME Known, AttemptHasOwner, [Next]_vars, faults' = 0, attempt' # None
             PROVE  \E u \in Terminals : mine'[u] = attempt' /\ pc'[u] \in {"update", "cancel"}
  BY DEF AttemptHasOwner
<1> USE DEF vault, failures, Goto
<1>1. faults \in Nat
  BY Bounds DEF Known, TypeOK
<1>2. ASSUME NEW t \in Terminals, StartAttempt(t)
      PROVE  mine'[t] = attempt' /\ pc'[t] \in {"update", "cancel"}
  <2>1. \A lost : ~Fault(lost)
    BY <1>1 DEF Fault
  <2> QED BY <1>2, <2>1 DEF StartAttempt, Known, TypeOK
<1>3. ASSUME faults = 0, attempt' = attempt, NEW t \in Terminals, Others(t),
             (mine'[t] = mine[t] /\ pc'[t] \in {"update", "cancel"}) \/ pc[t] \notin {"update", "cancel"}
      PROVE  \E u \in Terminals : mine'[u] = attempt' /\ pc'[u] \in {"update", "cancel"}
  BY <1>3 DEF AttemptHasOwner, Others
<1>4. ASSUME NEW t \in Terminals, BeginStep(t) \/ EndStep(t) \/ CallFails(t) \/ Crash(t), ~StartAttempt(t)
      PROVE  \E u \in Terminals : mine'[u] = attempt' /\ pc'[u] \in {"update", "cancel"}
  <2>1. (\A lost : ~Fault(lost)) /\ ~Crash(t) /\ ~Cancelled
    BY <1>1 DEF Fault, Crash, Cancelled
  <2>2. faults = 0
    BY <1>4, <2>1 DEF BeginStep, EndStep, Begin, ReadStatus, CancelStale, InitRefused, SubmitShare, ShareFails,
       CancelAttempt, Verify, Store, RevokeUnsaved, End, LookupRoot, RevokeRoot, Erase, CallFails, Refused
  <2>3. attempt' = attempt
    BY <1>4, <2>1 DEF BeginStep, EndStep, Begin, ReadStatus, CancelStale, InitRefused, SubmitShare, Accepted,
       ShareFails, CancelAttempt, Verify, Store, RevokeUnsaved, End, LookupRoot, RevokeRoot, Erase, CallFails
  <2>4. (mine'[t] = mine[t] /\ pc'[t] \in {"update", "cancel"}) \/ pc[t] \notin {"update", "cancel"}
    <3>1. CASE SubmitShare(t)
      BY <2>1, <2>3, <3>1 DEF SubmitShare, Accepted, Known, TypeOK, Owned, Began, Roots, None
    <3>2. CASE ShareFails(t) \/ CallFails(t)
      BY <3>2 DEF ShareFails, CallFails, Known, TypeOK
    <3> QED BY <1>4, <2>1, <3>1, <3>2 DEF BeginStep, EndStep, Begin, ReadStatus, CancelStale, InitRefused,
            CancelAttempt, Verify, Store, RevokeUnsaved, End, LookupRoot, RevokeRoot, Erase
  <2>5. Others(t)
    BY <1>4, TerminalOthers
  <2> QED BY <1>3, <2>2, <2>3, <2>4, <2>5
<1>5. ~LoseAttempt
  BY DEF LoseAttempt, Cancelled
<1>6. CASE UNCHANGED vars
  BY <1>6 DEF vars, process, AttemptHasOwner
<1> QED BY <1>2, <1>4, <1>5, <1>6 DEF Next, Quiet

\* A failed begin leaves no attempt behind, whichever call failed.
THEOREM NoAttemptLeft == Spec => []AttemptHasOwner
<1> QED BY KnownInit, KnownStep, OwnerInit, OwnerStep, PTL DEF Spec

-----------------------------------------------------------------------------
(***************************************************************************)
(* The roots.  With a store of its own, what a terminal's end has read is   *)
(* what the store still holds, and a begin never replaces a live root.      *)
(***************************************************************************)

EndingInv ==
    OwnStores => \A t \in Terminals :
        /\ Ending(t) => saved[AccountOf[t]] = hand[t]
        /\ pc[t] = "erase" => hand[t] \notin live

Beginning(t) == pc[t] # "idle" /\ ~Ending(t)

StrayInv ==
    OwnStores =>
        /\ \A t \in Terminals : Beginning(t) => saved[AccountOf[t]] \notin live \ abandoned
        /\ live \subseteq Held \union abandoned

\* What the steps of a terminal do to the tokens: a store changes only by Store
\* and Erase of its own terminal, and a token comes to life only as the attempt.
LEMMA Effects ==
    ASSUME Known, NEW t \in Terminals, BeginStep(t) \/ EndStep(t) \/ CallFails(t) \/ Crash(t)
    PROVE  /\ \/ saved' = saved
              \/ /\ pc[t] = "store" /\ pc'[t] = "idle" /\ UNCHANGED live
                 /\ saved' = [saved EXCEPT ![AccountOf[t]] = hand[t]]
              \/ /\ pc[t] = "erase" /\ pc'[t] = "idle" /\ UNCHANGED live
                 /\ saved' = [saved EXCEPT ![AccountOf[t]] = None]
           /\ \/ live' \subseteq live
              \/ /\ live' = live \union {attempt} /\ attempt \in Roots
                 /\ pc[t] = "update" /\ UNCHANGED saved
                 /\ \/ hand'[t] = attempt /\ pc'[t] = "verify"
                    \/ attempt \in abandoned'
<1> USE DEF vault, failures, Goto
<1>1. CASE SubmitShare(t)
  <2>1. attempt \in Roots
    BY <1>1 DEF SubmitShare, Known, Owned, Began
  <2>2. CASE attempt \in live
    BY <1>1, <2>2 DEF SubmitShare, Accepted
  <2>3. CASE attempt \notin live
    BY <1>1, <2>1, <2>3 DEF SubmitShare, Accepted, Fault, Known, TypeOK
  <2> QED BY <2>2, <2>3
<1>2. CASE Store(t) \/ Erase(t)
  BY <1>2 DEF Store, Erase, Return, Known, TypeOK
<1>3. CASE RevokeUnsaved(t) \/ RevokeRoot(t)
  BY <1>3 DEF RevokeUnsaved, RevokeRoot
<1>4. CASE CallFails(t) \/ Crash(t)
  BY <1>4 DEF CallFails, Crash
<1>5. CASE Begin(t) \/ ReadStatus(t) \/ CancelStale(t) \/ StartAttempt(t) \/ InitRefused(t) \/ ShareFails(t)
           \/ CancelAttempt(t) \/ Verify(t) \/ End(t) \/ LookupRoot(t)
  BY <1>5 DEF Begin, ReadStatus, CancelStale, StartAttempt, InitRefused, ShareFails, CancelAttempt,
     Cancelled, Verify, End, LookupRoot
<1> QED BY <1>1, <1>2, <1>3, <1>4, <1>5 DEF BeginStep, EndStep

LEMMA EndingInit == Init => EndingInv
BY DEF Init, EndingInv, Ending

LEMMA EndingOther ==
    ASSUME Known, EndingInv, OwnStores, NEW t \in Terminals, NEW u \in Terminals \ {t},
           BeginStep(t) \/ EndStep(t) \/ CallFails(t) \/ Crash(t)
    PROVE  /\ Ending(u)' => saved'[AccountOf[u]] = hand'[u]
           /\ pc'[u] = "erase" => hand'[u] \notin live'
<1>1. pc'[u] = pc[u] /\ hand'[u] = hand[u]
  BY TerminalOthers DEF Others
<1>2. saved'[AccountOf[u]] = saved[AccountOf[u]]
  BY Effects, Setup DEF OwnStores, Known, TypeOK
<1>3. attempt \in Roots => hand[u] # attempt
  BY Bounds DEF Known, Owned, Roots, None
<1> QED BY <1>1, <1>2, <1>3, Effects DEF EndingInv, Ending

LEMMA EndingOwn ==
    ASSUME Known, EndingInv, OwnStores, NEW t \in Terminals,
           BeginStep(t) \/ EndStep(t) \/ CallFails(t) \/ Crash(t)
    PROVE  /\ Ending(t)' => saved'[AccountOf[t]] = hand'[t]
           /\ pc'[t] = "erase" => hand'[t] \notin live'
<1> USE DEF Goto
<1>1. CASE End(t)
  BY <1>1 DEF End, Known, TypeOK, Ending
<1>2. CASE LookupRoot(t) \/ RevokeRoot(t)
  <2>1. CASE Return(t)
    BY <2>1 DEF Return, Known, TypeOK, Ending
  <2>2. CASE ~Return(t)
    <3>1. saved' = saved /\ hand' = hand /\ Ending(t)
      BY <1>2, <2>2 DEF LookupRoot, RevokeRoot, Ending
    <3>2. pc'[t] = "erase" => hand[t] \notin live'
      BY <1>2, <2>2 DEF LookupRoot, RevokeRoot, Known, TypeOK
    <3> QED BY <3>1, <3>2 DEF EndingInv, Ending
  <2> QED BY <2>1, <2>2
<1>3. CASE BeginStep(t)
  <2>1. ~Ending(t)'
    BY <1>3 DEF BeginStep, Begin, ReadStatus, CancelStale, StartAttempt, InitRefused, SubmitShare, ShareFails,
       CancelAttempt, Verify, Store, RevokeUnsaved, Return, Known, TypeOK, Ending
  <2> QED BY <2>1 DEF Ending
<1>4. CASE Erase(t) \/ CallFails(t) \/ Crash(t)
  <2>1. ~Ending(t)'
    BY <1>4 DEF Erase, CallFails, Crash, Return, Known, TypeOK, Ending
  <2> QED BY <2>1 DEF Ending
<1> QED BY <1>1, <1>2, <1>3, <1>4 DEF EndStep

LEMMA EndingStep == Known /\ EndingInv /\ [Next]_vars => EndingInv'
<1> SUFFICES ASSUME Known, EndingInv, [Next]_vars, OwnStores
             PROVE  \A u \in Terminals : /\ Ending(u)' => saved'[AccountOf[u]] = hand'[u]
                                         /\ pc'[u] = "erase" => hand'[u] \notin live'
  BY DEF EndingInv, OwnStores
<1>1. ASSUME NEW t \in Terminals, BeginStep(t) \/ EndStep(t) \/ CallFails(t) \/ Crash(t), NEW u \in Terminals
      PROVE  /\ Ending(u)' => saved'[AccountOf[u]] = hand'[u]
             /\ pc'[u] = "erase" => hand'[u] \notin live'
  BY <1>1, EndingOther, EndingOwn
<1>2. CASE LoseAttempt \/ UNCHANGED vars
  BY <1>2 DEF LoseAttempt, Cancelled, vars, process, vault, EndingInv, Ending
<1> QED BY <1>1, <1>2 DEF Next, Quiet

\* end erases a saved root only once that root has stopped working.
THEOREM ErasedRevoked == Spec => ErasedIsRevoked
<1> DEFINE Safe == OwnStores => \A a \in Accounts :
                       saved[a] \in Roots /\ saved'[a] = None => saved[a] \notin live'
<1>1. Known /\ EndingInv /\ [Next]_vars => [Safe]_vars
  <2> SUFFICES ASSUME Known, EndingInv, Next, OwnStores, NEW a \in Accounts,
                      saved[a] \in Roots, saved'[a] = None
               PROVE  saved[a] \notin live'
    OBVIOUS
  <2>1. saved'[a] # saved[a]
    BY Bounds DEF Roots, None
  <2>2. PICK t \in Terminals : BeginStep(t) \/ EndStep(t) \/ CallFails(t) \/ Crash(t)
    BY <2>1 DEF Next, LoseAttempt, Quiet, vars
  <2>3. pc[t] = "erase" /\ AccountOf[t] = a /\ live' = live
    <3>1. CASE pc[t] = "store"
      <4>1. hand[t] \in Roots
        BY <3>1 DEF Known, Owned, Began, Minted
      <4> QED BY <2>1, <2>2, <3>1, <4>1, Effects, Bounds DEF Known, TypeOK, Roots, None
    <3>2. CASE pc[t] # "store"
      BY <2>1, <2>2, <3>2, Effects DEF Known, TypeOK
    <3> QED BY <3>1, <3>2
  <2> QED BY <2>3 DEF EndingInv, Ending
<1> QED BY <1>1, KnownInit, KnownStep, EndingInit, EndingStep, PTL DEF Spec, ErasedIsRevoked

LEMMA StrayInit == Init => StrayInv
BY DEF Init, StrayInv, Beginning

LEMMA StrayStep == Known /\ EndingInv /\ StrayInv /\ [Next]_vars => StrayInv'
<1> SUFFICES ASSUME Known, EndingInv, StrayInv, [Next]_vars, OwnStores
             PROVE  /\ \A u \in Terminals : Beginning(u)' => saved'[AccountOf[u]] \notin live' \ abandoned'
                    /\ live' \subseteq Held' \union abandoned'
  BY DEF StrayInv, OwnStores, Held
<1> USE DEF vault, failures, Goto
<1>1. /\ \A u \in Terminals : Beginning(u) => saved[AccountOf[u]] \notin live \ abandoned
      /\ live \subseteq Held \union abandoned
  BY DEF StrayInv
<1>2. ASSUME NEW t \in Terminals, BeginStep(t) \/ EndStep(t) \/ CallFails(t) \/ Crash(t)
      PROVE  /\ \A u \in Terminals : Beginning(u)' => saved'[AccountOf[u]] \notin live' \ abandoned'
             /\ live' \subseteq Held' \union abandoned'
  <2>1. abandoned \subseteq abandoned'
    BY <1>2, TerminalFailing DEF Failing
  <2>2. Others(t)
    BY <1>2, TerminalOthers
  <2>3. Beginning(t)' => Beginning(t) \/ saved[AccountOf[t]] \notin live \ abandoned'
    <3>1. CASE Begin(t)
      BY <3>1 DEF Begin, Refused
    <3>2. CASE ~Begin(t)
      BY <1>2, <3>2 DEF BeginStep, EndStep, ReadStatus, CancelStale, StartAttempt, InitRefused, SubmitShare,
         ShareFails, CancelAttempt, Verify, Store, RevokeUnsaved, End, LookupRoot, RevokeRoot, Erase,
         CallFails, Crash, Return, Known, TypeOK, Beginning, Ending
    <3> QED BY <3>1, <3>2
  <2>4. ASSUME NEW u \in Terminals, Beginning(u)' PROVE saved'[AccountOf[u]] \notin live' \ abandoned'
    <3>1. saved[AccountOf[u]] \notin live \ abandoned'
      BY <1>1, <2>1, <2>2, <2>3, <2>4 DEF Others, Beginning, Ending
    <3>2. saved'[AccountOf[u]] = saved[AccountOf[u]]
      <4>1. CASE u = t
        BY <1>2, <2>4, <4>1, Effects DEF Beginning
      <4>2. CASE u # t
        BY <1>2, <4>2, Effects, Setup DEF OwnStores, Known, TypeOK
      <4> QED BY <4>1, <4>2
    <3>3. attempt \in Roots => saved[AccountOf[u]] # attempt
      BY Setup, Bounds DEF Known, Kept, Roots, None
    <3> QED BY <1>2, <3>1, <3>2, <3>3, Effects
  <2>5. ASSUME NEW r \in live', r \notin abandoned' PROVE r \in Held'
    <3>1. CASE r \notin live
      BY <1>2, <2>5, <3>1, Effects DEF Held, Known, TypeOK
    <3>2. ASSUME r \in live, NEW a \in Accounts, saved[a] = r PROVE r \in Held'
      <4>1. pc[t] = "store" \/ pc[t] = "erase" => saved[AccountOf[t]] # r
        BY <1>1, <2>1, <2>5, <3>2 DEF Beginning, Ending, EndingInv
      <4>2. saved'[a] = r
        BY <1>2, <3>2, <4>1, Effects, Setup DEF Known, TypeOK
      <4> QED BY <4>2 DEF Held
    <3>3. ASSUME r \in live, NEW u \in Terminals \ {t}, hand[u] = r PROVE r \in Held'
      BY <2>2, <3>3 DEF Others, Held
    <3>4. ASSUME r \in live, hand[t] = r PROVE r \in Held'
      <4>1. r \in Roots /\ (Minted(t) \/ Ending(t))
        BY <3>4, Bounds DEF Known, TypeOK, Owned, Roots, None
      <4>2. CASE Ending(t)
        <5>1. saved[AccountOf[t]] = r /\ AccountOf[t] \in Accounts
          BY <3>4, <4>2, Setup DEF EndingInv
        <5> QED BY <3>2, <3>4, <5>1
      <4>3. CASE Minted(t) /\ ~Ending(t)
        <5>1. Verify(t) \/ Store(t) \/ RevokeUnsaved(t) \/ Crash(t)
          BY <1>2, <4>3 DEF BeginStep, EndStep, Begin, ReadStatus, CancelStale, StartAttempt, InitRefused,
             SubmitShare, ShareFails, CancelAttempt, End, LookupRoot, RevokeRoot, Erase, CallFails, Minted
        <5>2. CASE Verify(t)
          BY <2>5, <3>4, <5>2 DEF Verify, Refused, Held
        <5>3. CASE Store(t)
          <6>1. CASE Return(t)
            <7>1. saved'[AccountOf[t]] = r /\ AccountOf[t] \in Accounts
              BY <3>4, <5>3, <6>1, Setup DEF Store, Return, Known, TypeOK
            <7> QED BY <7>1 DEF Held
          <6>2. CASE ~Return(t)
            BY <3>4, <5>3, <6>2 DEF Store, Held
          <6> QED BY <6>1, <6>2
        <5>4. CASE RevokeUnsaved(t)
          BY <2>5, <3>4, <5>4 DEF RevokeUnsaved, Fault
        <5>5. CASE Crash(t)
          BY <2>5, <3>4, <4>3, <5>5 DEF Crash, Fault
        <5> QED BY <5>1, <5>2, <5>3, <5>4, <5>5
      <4> QED BY <4>1, <4>2, <4>3
    <3>5. r \notin live \/ r \in Held
      BY <1>1, <2>1, <2>5
    <3> QED BY <3>1, <3>2, <3>3, <3>4, <3>5 DEF Held
  <2> QED BY <2>4, <2>5
<1>3. CASE LoseAttempt
  <2>1. UNCHANGED <<pc, hand, saved, live>> /\ abandoned \subseteq abandoned'
    BY <1>3 DEF LoseAttempt, Cancelled, Fault, process
  <2> QED BY <1>1, <2>1 DEF Beginning, Ending, Held
<1>4. CASE UNCHANGED vars
  <2>1. UNCHANGED <<pc, hand, saved, live, abandoned>>
    BY <1>4 DEF vars, process
  <2> QED BY <1>1, <2>1 DEF Beginning, Ending, Held
<1> QED BY <1>2, <1>3, <1>4 DEF Next, Quiet

\* No root token works that nobody holds, but those a failure took, while stores are
\* not shared.
THEOREM NoStray == Spec => []NoStrayRoot
<1>1. StrayInv => NoStrayRoot
  BY DEF StrayInv, NoStrayRoot
<1> QED BY <1>1, KnownInit, KnownStep, EndingInit, EndingStep, StrayInit, StrayStep, PTL DEF Spec

=============================================================================
