-------------------------- MODULE Services_proofs --------------------------
(***************************************************************************)
(* Theorems about Services: the operator token does not expire while       *)
(* somebody is in a position to renew it.                                  *)
(***************************************************************************)
EXTENDS Services, TLAPS

USE DEF Services, Node, TokenStates

LEMMA InitTyping == Init => TypeOK
  BY Intervals, Secrets DEF Init, TypeOK

LEMMA StepTyping == TypeOK /\ [Next]_vars => TypeOK'
<1> SUFFICES ASSUME TypeOK, [Next]_vars PROVE TypeOK'
  OBVIOUS
<1> USE Intervals DEF TypeOK
<1>1. ASSUME NEW s \in Services, Start(s) PROVE TypeOK'
  BY <1>1 DEF Start
<1>2. ASSUME NEW s \in Services, WithToken(s) PROVE TypeOK'
  BY <1>2 DEF WithToken
<1>3. ASSUME NEW s \in Services, Renew(s) PROVE TypeOK'
  BY <1>3 DEF Renew
<1>4. ASSUME NEW s \in Services, Crash(s) PROVE TypeOK'
  BY <1>4 DEF Crash
<1>5. ASSUME NEW n \in Nodes, Outage(n) PROVE TypeOK'
  BY <1>5 DEF Outage
<1>6. ASSUME NEW n \in Nodes, Back(n) PROVE TypeOK'
  BY <1>6 DEF Back, clients
<1>7. CASE Issue
  BY <1>7 DEF Issue, clients
<1>8. CASE Hour
  <2>1. /\ ttl' \in 0..Period /\ idle' \in 0..(Period - 1)
        /\ UNCHANGED <<secret, reach, up, held>>
    BY <1>8 DEF Hour
  <2>2. due' \in [Services -> BOOLEAN] /\ renewing' \in [Services -> BOOLEAN]
    BY <1>8 DEF Hour
  <2>3. steady' \in [Services -> 0..2]
    BY <1>8 DEF Hour
  <2> QED
    BY <2>1, <2>2, <2>3
<1>9. CASE UNCHANGED vars
  BY <1>9 DEF vars, clients
<1> QED
  BY <1>1, <1>2, <1>3, <1>4, <1>5, <1>6, <1>7, <1>8, <1>9 DEF Next

\* Every variable keeps its type, for every set of nodes, of services and every period.
THEOREM ServicesTyping == Spec => []TypeOK
<1>1. Init => TypeOK
  BY InitTyping
<1>2. TypeOK /\ [Next]_vars => TypeOK'
  BY StepTyping
<1> QED
  BY <1>1, <1>2, PTL DEF Spec

-----------------------------------------------------------------------------
(* A service with a token renews it, only this cluster's secret gives its  *)
(* token, and who is steady holds the token of a Vault that answers.       *)

Client(s) ==
    /\ held[s] # "none" => renewing[s]
    /\ held[s] = "current" => secret = "current"
    /\ steady[s] > 0 => Placed(s)

Clients == \A s \in Services : Client(s)

LEMMA InitClients == Init => Clients
  BY DEF Init, Clients, Client

LEMMA StepClients == TypeOK /\ Clients /\ [Next]_vars => Clients'
<1> SUFFICES ASSUME TypeOK, Clients, [Next]_vars, NEW x \in Services PROVE Client(x)'
  BY DEF Clients
<1>0. Client(x)
  BY DEF Clients
<1> USE <1>0 DEF TypeOK, Client, Placed
<1>1. ASSUME NEW s \in Services, Start(s) PROVE Client(x)'
  BY <1>1 DEF Start
<1>2. ASSUME NEW s \in Services, WithToken(s) PROVE Client(x)'
  <2>1. CASE x = s
    <3>1. held'[s] \in {"none", held[s], secret} /\ renewing'[s]
      BY <1>2, <2>1 DEF WithToken
    <3>2. steady'[s] > 0 => held'[s] = held[s] /\ steady'[s] = steady[s]
      BY <1>2, <2>1 DEF WithToken
    <3> QED
      BY <1>2, <2>1, <3>1, <3>2 DEF WithToken
  <2>2. CASE x # s
    <3>1. held'[x] = held[x] /\ renewing'[x] = renewing[x] /\ steady'[x] = steady[x]
      BY <1>2, <2>2 DEF WithToken
    <3> QED
      BY <1>2, <3>1 DEF WithToken
  <2> QED
    BY <2>1, <2>2
<1>3. ASSUME NEW s \in Services, Renew(s) PROVE Client(x)'
  BY <1>3 DEF Renew
<1>4. ASSUME NEW s \in Services, Crash(s) PROVE Client(x)'
  BY <1>4 DEF Crash
<1>5. ASSUME NEW n \in Nodes, Outage(n) PROVE Client(x)'
  BY <1>5 DEF Outage
<1>6. ASSUME NEW n \in Nodes, Back(n) PROVE Client(x)'
  BY <1>6 DEF Back, clients
<1>7. CASE Issue
  BY <1>7 DEF Issue, clients
<1>8. CASE Hour
  <2>1. steady'[x] > 0 => Placed(x)
    BY <1>8 DEF Hour
  <2> QED
    BY <1>8, <2>1 DEF Hour
<1>9. CASE UNCHANGED vars
  BY <1>9 DEF vars, clients
<1> QED
  BY <1>1, <1>2, <1>3, <1>4, <1>5, <1>6, <1>7, <1>8, <1>9 DEF Next

-----------------------------------------------------------------------------
(* The token has lost at most the idle hours and the current one, and      *)
(* nothing once a steady service has served its tick.                      *)

Fresh ==
    secret = "current" /\ idle < Period - 1 =>
        /\ ttl >= Period - 1 - idle
        /\ \A s \in Services : steady[s] > 0 /\ ~due[s] => ttl = Period

LEMMA InitFresh == Init => Fresh
  BY Secrets DEF Init, Fresh

LEMMA StepFresh == TypeOK /\ Clients /\ Fresh /\ [Next]_vars => Fresh'
<1> SUFFICES ASSUME TypeOK, Clients, Fresh, [Next]_vars,
                    secret' = "current", idle' < Period - 1
             PROVE  /\ ttl' >= Period - 1 - idle'
                    /\ \A x \in Services : steady'[x] > 0 /\ ~due'[x] => ttl' = Period
  BY DEF Fresh
<1> USE Intervals DEF TypeOK
<1> DEFINE Goal == /\ ttl' >= Period - 1 - idle'
                   /\ \A x \in Services : steady'[x] > 0 /\ ~due'[x] => ttl' = Period
<1>1. ASSUME NEW s \in Services, Start(s) PROVE Goal
  BY <1>1 DEF Start, Fresh
<1>2. ASSUME NEW s \in Services, WithToken(s) PROVE Goal
  <2>1. \A x \in Services : steady'[x] > 0 => steady[x] > 0
    BY <1>2 DEF WithToken
  <2> QED
    BY <1>2, <2>1 DEF WithToken, Fresh
<1>3. ASSUME NEW s \in Services, Renew(s) PROVE Goal
  <2>1. secret = "current" /\ idle < Period - 1 /\ idle' = idle /\ steady' = steady
    BY <1>3 DEF Renew
  <2>2. ttl > 0
    BY <2>1 DEF Fresh
  <2>3. CASE Accepted(s, held[s])
    BY <1>3, <2>1, <2>3 DEF Renew
  <2>4. CASE ~Accepted(s, held[s])
    <3>1. steady[s] = 0
      BY <2>2, <2>4 DEF Accepted, Clients, Client, Placed
    <3> QED
      BY <1>3, <2>1, <2>4, <3>1 DEF Renew, Fresh
  <2> QED
    BY <2>3, <2>4
<1>4. ASSUME NEW s \in Services, Crash(s) PROVE Goal
  BY <1>4 DEF Crash, Fresh
<1>5. ASSUME NEW n \in Nodes, Outage(n) PROVE Goal
  BY <1>5 DEF Outage, Fresh
<1>6. ASSUME NEW n \in Nodes, Back(n) PROVE Goal
  BY <1>6 DEF Back, clients, Fresh
<1>7. CASE Issue
  BY <1>7 DEF Issue, clients
<1>8. CASE Hour
  <2>1. secret = "current" /\ idle < Period - 1
    BY <1>8 DEF Hour
  <2>2. ASSUME NEW x \in Services, steady'[x] > 0 PROVE due'[x]
    <3>1. Placed(x)
      BY <1>8, <2>2 DEF Hour
    <3>2. renewing[x]
      BY <3>1 DEF Placed, Clients, Client
    <3> QED
      BY <1>8, <3>2 DEF Hour
  <2>3. ttl' >= Period - 1 - idle'
    <3>1. CASE \E x \in Services : steady'[x] = 2
      <4>1. PICK x \in Services : steady'[x] = 2
        BY <3>1
      <4>2. steady[x] > 0 /\ ~due[x]
        BY <1>8, <4>1 DEF Hour
      <4>3. ttl = Period
        BY <2>1, <4>2 DEF Fresh
      <4> QED
        BY <1>8, <2>1, <3>1, <4>3 DEF Hour
    <3>2. CASE ~\E x \in Services : steady'[x] = 2
      <4>1. idle' = idle + 1 /\ ttl' \in Nat /\ ttl' >= ttl - 1
        BY <1>8, <2>1, <3>2 DEF Hour
      <4> QED
        BY <2>1, <4>1 DEF Fresh
    <3> QED
      BY <3>1, <3>2
  <2> QED
    BY <2>2, <2>3
<1>9. CASE UNCHANGED vars
  BY <1>9 DEF vars, clients, Fresh
<1> QED
  BY <1>1, <1>2, <1>3, <1>4, <1>5, <1>6, <1>7, <1>8, <1>9 DEF Next

\* The operator token does not expire while, every Period - 1 hours, one service has
\* held it undisturbed for two, for every number of nodes and services and every
\* period: failed renewals, crashes and stale tokens of the others do not matter.
THEOREM TokenSurvives == Spec => []TokenLasts
<1>1. Init => Clients /\ Fresh
  BY InitClients, InitFresh
<1>2. TypeOK /\ TypeOK' /\ Clients /\ Fresh /\ [Next]_vars => Clients' /\ Fresh'
  BY StepClients, StepFresh
<1>3. TypeOK /\ Fresh => TokenLasts
  BY Intervals DEF TypeOK, Fresh, TokenLasts
<1> QED
  BY <1>1, <1>2, <1>3, ServicesTyping, PTL DEF Spec
=============================================================================
