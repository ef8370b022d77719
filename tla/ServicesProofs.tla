--------------------------- MODULE ServicesProofs ---------------------------
(***************************************************************************)
(* What is proved of the services around the ledger, for any number of     *)
(* accounts, requests, jobs and callers: the top-up of a wallet, the queue *)
(* of payments to retry, the locks of the wallets and the circuit breaker  *)
(* of the mobile money provider.                                           *)
(*                                                                         *)
(* They share no state: each has an invariant of its own.                  *)
(***************************************************************************)
EXTENDS Topup, RetryQueue, WalletLocks, CircuitBreaker, TLAPS, FiniteSetTheorems

-----------------------------------------------------------------------------
(***************************************************************************)
(* Topping up a wallet: for any number of requests at once, a credit has   *)
(* its debit, and a request that says SUCCESS has credited.                *)
(***************************************************************************)

\* A key is with the provider at most once, by the request that inserted it
OneCaller ==
  \A p \in Procs : At(p, "provider") =>
    /\ verdict[call[p].key] = "NONE"
    /\ \A q \in Procs : At(q, "provider") /\ call[q].key = call[p].key => p = q

\* A request past the insertion has a transaction
Inserted ==
  \A p \in Procs : call[p].at \notin {"idle", "insert"} => tx[call[p].key].status # "NONE"

\* What the provider announced, and what a request acts on, is its verdict
Truthful ==
  /\ \A k \in Keys : "ACCEPTED" \in sent[k] => verdict[k] = "ACCEPTED"
  /\ \A p \in Procs : call[p].at \in {"confirm", "credit"} => verdict[call[p].key] = "ACCEPTED"
  /\ \A k \in Keys : tx[k].status = "NONE" => verdict[k] = "NONE"

TopupInv == TopupTypeOK /\ OneCaller /\ Inserted /\ Truthful /\ CreditNeedsDebit /\ SuccessIsCredited

\* The initial states satisfy the invariant
LEMMA TopupInitInv == TopupInit => TopupInv
  BY DEF TopupInit, TopupInv, TopupTypeOK, OneCaller, Inserted, Truthful, CreditNeedsDebit,
         SuccessIsCredited, At, Verdicts, Steps, Answers

\* Every step keeps the types
LEMMA TopupNextTypeOK == TopupTypeOK /\ [TopupNext]_topupVars => TopupTypeOK'
<1> SUFFICES ASSUME TopupTypeOK, [TopupNext]_topupVars PROVE TopupTypeOK'
  OBVIOUS
<1> USE DEF TopupTypeOK, Verdicts, Steps, Answers, At, Go, Start
<1>1. ASSUME NEW p \in Procs, Step(p) PROVE TopupTypeOK'
  <2>0. call[p].key \in Keys /\ call[p].user \in Users
    OBVIOUS
  <2>1. CASE InsertTopup(p)
    <3>1. CASE tx[call[p].key].status = "NONE"
      <4>1. tx' \in [Keys -> [user : Users, status : {"NONE", "PENDING", "SUCCESS", "FAILED"}]]
        BY <2>0, <2>1, <3>1 DEF InsertTopup
      <4>2. call' \in [Procs -> [at : Steps, user : Users, key : Keys]]
        BY <2>0, <2>1, <3>1 DEF InsertTopup
      <4> QED BY <2>1, <4>1, <4>2 DEF InsertTopup
    <3>2. CASE tx[call[p].key].status # "NONE"
      <4>1. UNCHANGED <<tx, credits, frozen, verdict, sent>> /\ Go(p, "idle")
        BY <2>1, <3>2 DEF InsertTopup
      <4> QED BY <4>1
    <3> QED BY <3>1, <3>2
  <2>2. CASE CallProvider(p) BY <2>2 DEF CallProvider
  <2>3. CASE RecordRefusal(p) BY <2>3 DEF RecordRefusal
  <2>4. CASE ReadStatus(p) BY <2>4 DEF ReadStatus
  <2>5. CASE Credit(p)
    <3>1. CASE frozen[tx[call[p].key].user] BY <2>5, <3>1 DEF Credit
    <3>2. CASE ~frozen[tx[call[p].key].user]
      <4>1. credits' = [credits EXCEPT ![call[p].key] = @ + 1]
            /\ tx' = [tx EXCEPT ![call[p].key].status = "SUCCESS"]
            /\ Go(p, "idle") /\ UNCHANGED <<frozen, verdict, sent>>
        BY <2>5, <3>2 DEF Credit
      <4>2. credits' \in [Keys -> Nat] BY <2>0, <4>1
      <4>3. tx' \in [Keys -> [user : Users, status : {"NONE", "PENDING", "SUCCESS", "FAILED"}]]
        BY <2>0, <4>1
      <4> QED BY <4>1, <4>2, <4>3
    <3> QED BY <3>1, <3>2
  <2>6. CASE Overwrite(p) BY <2>6 DEF Overwrite
  <2> QED BY <1>1, <2>1, <2>2, <2>3, <2>4, <2>5, <2>6 DEF Step
<1>2. ASSUME NEW p \in Procs, Crash(p) PROVE TopupTypeOK'
  BY <1>2 DEF Crash
<1>3. ASSUME NEW p \in Procs, NEW u \in Users, NEW k \in Keys, AskTopup(p, u, k) PROVE TopupTypeOK'
  BY <1>3 DEF AskTopup
<1>4. ASSUME NEW p \in Procs, NEW k \in Keys, Webhook(p, k) PROVE TopupTypeOK'
  BY <1>4 DEF Webhook
<1>5. ASSUME NEW k \in Keys, Decide(k) \/ Announce(k) PROVE TopupTypeOK'
  <2>1. CASE Decide(k) BY <2>1 DEF Decide
  <2>2. CASE Announce(k)
    <3>1. PICK v \in Answers : sent' = [sent EXCEPT ![k] = @ \cup {v}]
      BY <2>2 DEF Announce
    <3>2. sent' \in [Keys -> SUBSET Answers] BY <3>1
    <3> QED BY <2>2, <3>2 DEF Announce
  <2> QED BY <1>5, <2>1, <2>2
<1>6. ASSUME NEW u \in Users, SetFrozen(u) PROVE TopupTypeOK'
  BY <1>6 DEF SetFrozen
<1>7. CASE UNCHANGED topupVars BY <1>7 DEF topupVars
<1> QED BY <1>1, <1>2, <1>3, <1>4, <1>5, <1>6, <1>7 DEF TopupNext

\* Every step keeps the invariant
LEMMA TopupNextInv == TopupInv /\ [TopupNext]_topupVars => TopupInv'
<1> SUFFICES ASSUME TopupInv, [TopupNext]_topupVars PROVE TopupInv'
  OBVIOUS
<1>0. TopupTypeOK' BY TopupNextTypeOK DEF TopupInv
<1> USE <1>0 DEF TopupInv, TopupTypeOK, OneCaller, Inserted, Truthful, CreditNeedsDebit,
                 SuccessIsCredited, At, Go, Start
<1>1. ASSUME NEW p \in Procs, Step(p) PROVE TopupInv'
  <2>0. call[p].key \in Keys
    OBVIOUS
  <2>1. CASE InsertTopup(p)
    <3>1. CASE tx[call[p].key].status = "NONE"
      <4>1. /\ tx' = [tx EXCEPT ![call[p].key] = [user |-> call[p].user, status |-> "PENDING"]]
            /\ Go(p, "provider") /\ UNCHANGED <<credits, frozen, verdict, sent>>
        BY <2>1, <3>1 DEF InsertTopup
      <4>2. ASSUME NEW q \in Procs, At(q, "provider") PROVE call[q].key # call[p].key
        <5>1. tx[call[q].key].status # "NONE" BY <4>2
        <5> QED BY <3>1, <5>1
      <4>3. OneCaller' BY <2>0, <3>1, <4>1, <4>2
      <4>4. Inserted' BY <2>0, <2>1, <4>1 DEF InsertTopup
      <4>5. Truthful' BY <2>0, <4>1
      <4>6. (CreditNeedsDebit /\ SuccessIsCredited)' BY <2>0, <4>1
      <4> QED BY <4>3, <4>4, <4>5, <4>6
    <3>2. CASE tx[call[p].key].status # "NONE"
      <4>1. UNCHANGED <<tx, credits, frozen, verdict, sent>> /\ Go(p, "idle")
        BY <2>1, <3>2 DEF InsertTopup
      <4> QED BY <4>1
    <3> QED BY <3>1, <3>2
  <2>2. CASE CallProvider(p) BY <2>2 DEF CallProvider, Answers
  <2>3. CASE RecordRefusal(p) BY <2>3 DEF RecordRefusal
  <2>4. CASE ReadStatus(p) BY <2>4 DEF ReadStatus
  <2>5. CASE Credit(p)
    <3>1. CASE frozen[tx[call[p].key].user] BY <2>5, <3>1 DEF Credit
    <3>2. CASE ~frozen[tx[call[p].key].user]
      <4>1. credits' = [credits EXCEPT ![call[p].key] = @ + 1]
            /\ tx' = [tx EXCEPT ![call[p].key].status = "SUCCESS"]
            /\ Go(p, "idle") /\ UNCHANGED <<frozen, verdict, sent>>
        BY <2>5, <3>2 DEF Credit
      <4>2. verdict[call[p].key] = "ACCEPTED" BY <2>5 DEF Credit
      <4>3. (OneCaller /\ Inserted /\ Truthful)' BY <2>0, <4>1
      <4>4. (CreditNeedsDebit /\ SuccessIsCredited)' BY <2>0, <4>1, <4>2
      <4> QED BY <4>3, <4>4
    <3> QED BY <3>1, <3>2
  <2>6. CASE Overwrite(p) BY <2>6 DEF Overwrite
  <2> QED BY <1>1, <2>1, <2>2, <2>3, <2>4, <2>5, <2>6 DEF Step
<1>2. ASSUME NEW p \in Procs, Crash(p) PROVE TopupInv'
  BY <1>2 DEF Crash
<1>3. ASSUME NEW p \in Procs, NEW u \in Users, NEW k \in Keys, AskTopup(p, u, k) PROVE TopupInv'
  BY <1>3 DEF AskTopup
<1>4. ASSUME NEW p \in Procs, NEW k \in Keys, Webhook(p, k) PROVE TopupInv'
  <2>1. PICK step \in {"confirm", "overwrite"} :
          /\ Start(p, step, tx[k].user, k)
          /\ step = "confirm" => "ACCEPTED" \in sent[k]
    BY <1>4 DEF Webhook
  <2>2. /\ tx[k].status # "NONE" /\ call[p].at = "idle"
        /\ UNCHANGED <<tx, credits, frozen, verdict, sent>>
    BY <1>4 DEF Webhook
  <2>3. (OneCaller /\ Inserted /\ Truthful)' BY <2>1, <2>2
  <2>4. (CreditNeedsDebit /\ SuccessIsCredited)' BY <2>2
  <2> QED BY <2>3, <2>4
<1>5. ASSUME NEW k \in Keys, Decide(k) \/ Announce(k) PROVE TopupInv'
  BY <1>5 DEF Decide, Announce
<1>6. ASSUME NEW u \in Users, SetFrozen(u) PROVE TopupInv'
  BY <1>6 DEF SetFrozen
<1>7. CASE UNCHANGED topupVars BY <1>7 DEF topupVars
<1> QED BY <1>1, <1>2, <1>3, <1>4, <1>5, <1>6, <1>7 DEF TopupNext

\* The invariant holds in every reachable state
LEMMA TopupInvariance == TopupSpec => []TopupInv
  BY TopupInitInv, TopupNextInv, PTL DEF TopupSpec

\* topupWallet, confirmTopup and the webhook keep the types of their rows
THEOREM TopupTypeCorrect == TopupSpec => []TopupTypeOK
  BY TopupInvariance, PTL DEF TopupInv

\* confirmTopup credits a wallet only for money the provider took, however
\* webhooks and requests interleave.
THEOREM CreditsAreDebited == TopupSpec => []CreditNeedsDebit
  BY TopupInvariance, PTL DEF TopupInv

\* A recharge marked SUCCESS by confirmTopup did credit the wallet
THEOREM SuccessCredits == TopupSpec => []SuccessIsCredited
  BY TopupInvariance, PTL DEF TopupInv

\* The three together, as the runs check them
THEOREM TopupIsSafe == TopupSpec => []TopupSafety
<1>1. TopupTypeOK /\ CreditNeedsDebit /\ SuccessIsCredited => TopupSafety
  BY DEF TopupSafety
<1> QED BY <1>1, TopupTypeCorrect, CreditsAreDebited, SuccessCredits, PTL

-----------------------------------------------------------------------------

\* The calls of the handler never outrun the attempt
Counted ==
  \A c \in Chains :
    /\ called[c] <= MaxRetries
    /\ chain[c].at = "none" => called[c] = 0
    /\ chain[c].at = "reading" /\ chain[c].attempt = {} => called[c] = 0
    /\ chain[c].at = "reading" => \A a \in chain[c].attempt : called[c] <= a
    /\ chain[c].at \in {"armed", "handling"} =>
         \E a \in Nat : /\ chain[c].attempt = {a} /\ a < MaxRetries
                        /\ called[c] <= IF chain[c].at = "armed" THEN a ELSE a + 1

\* An attempt is one number, or none yet
OneAttempt ==
  \A c \in Chains : chain[c].attempt = {} \/ \E a \in 0..MaxRetries : chain[c].attempt = {a}

NotGivenUp == Decided /\ ~settledLate => \A c \in Chains : chain[c].at # "giveUp"

OneUnderWay == ~twoAtOnce => \A c, d \in Chains : UnderWay(c) /\ UnderWay(d) => c = d

RetryInv == RetryTypeOK /\ Counted /\ OneAttempt /\ NotGivenUp /\ OneUnderWay /\ TimersAreKnown

ChainRows == [at : {"none", "reading", "armed", "handling", "giveUp", "done"},
              attempt : SUBSET (0..MaxRetries)]

-----------------------------------------------------------------------------
(* Lemmas about the operators                                              *)

\* The attempt of a chain is its own, or the row's count
LEMMA AttemptType ==
  ASSUME RetryInv, NEW c \in Chains
  PROVE  /\ AttemptOf(c) \in Nat
         /\ chain[c].attempt = {} => AttemptOf(c) = attempts
         /\ chain[c].attempt # {} => chain[c].attempt = {AttemptOf(c)}
<1>1. CASE chain[c].attempt = {}
  BY <1>1 DEF AttemptOf, RetryInv, RetryTypeOK
<1>2. CASE chain[c].attempt # {}
  <2>1. PICK a \in 0..MaxRetries : chain[c].attempt = {a}
    BY <1>2 DEF RetryInv, OneAttempt
  <2>2. AttemptOf(c) = a
    BY <1>2, <2>1 DEF AttemptOf
  <2> QED BY <2>1, <2>2, RetryAssumption
<1> QED BY <1>1, <1>2

\* The map holds one timer step most
LEMMA TimerType ==
  /\ Cardinality({}) <= 1
  /\ \A c \in Chains : Cardinality({c}) <= 1
  BY FS_EmptySet, FS_Singleton

\* A chain moves on, keeping its attempt or taking another
LEMMA ChainMoves ==
  ASSUME RetryInv, NEW c \in Chains, NEW new \in ChainRows, chain' = [chain EXCEPT ![c] = new],
         new.attempt = {} \/ \E a \in 0..MaxRetries : new.attempt = {a}
  PROVE  /\ chain' \in [Chains -> ChainRows] /\ chain'[c] = new /\ OneAttempt'
         /\ \A d \in Chains \ {c} : chain'[d] = chain[d]
  BY DEF RetryInv, RetryTypeOK, ChainRows, OneAttempt

\* A chain moves to another place
LEMMA MovesOn ==
  ASSUME RetryInv, NEW c \in Chains, NEW step \in {"none", "reading", "armed", "handling", "giveUp", "done"},
         Moves(c, step)
  PROVE  /\ chain' \in [Chains -> ChainRows] /\ OneAttempt'
         /\ chain'[c].at = step /\ chain'[c].attempt = chain[c].attempt
         /\ \A d \in Chains \ {c} : chain'[d] = chain[d]
<1> DEFINE new == [chain[c] EXCEPT !.at = step]
<1>1. chain[c] \in ChainRows
  BY DEF RetryInv, RetryTypeOK, ChainRows
<1>2. new \in ChainRows /\ new.at = step /\ new.attempt = chain[c].attempt
  BY <1>1 DEF ChainRows
<1>3. chain' = [chain EXCEPT ![c] = new]
  BY DEF Moves
<1>4. new.attempt = {} \/ \E a \in 0..MaxRetries : new.attempt = {a}
  BY <1>2 DEF RetryInv, OneAttempt
<1> HIDE DEF new
<1> QED BY <1>2, <1>3, <1>4, ChainMoves

\* A step after which the chain step c is under way only if it was, keeps chains apart
LEMMA Apart ==
  ASSUME RetryInv, NEW c \in Chains, UNCHANGED twoAtOnce, UnderWay(c)' => UnderWay(c),
         \A d \in Chains \ {c} : chain'[d] = chain[d]
  PROVE  OneUnderWay'
  BY DEF RetryInv, OneUnderWay, UnderWay

-----------------------------------------------------------------------------
(* The steps                                                               *)

\* A call of schedule
LEMMA ScheduleStep ==
  ASSUME RetryInv, NEW c \in Chains, Schedule(c)
  PROVE  RetryInv'
<1> DEFINE new == [at |-> "reading", attempt |-> {}]
<1>1. /\ chain[c].at = "none" /\ chain' = [chain EXCEPT ![c] = new]
      /\ twoAtOnce' = (twoAtOnce \/ \E d \in Chains : UnderWay(d))
      /\ UNCHANGED <<txStatus, attempts, timer, restarts, called, settledLate>>
  BY DEF Schedule
<1>2. new \in ChainRows /\ new.at = "reading" /\ new.attempt = {}
  BY DEF ChainRows
<1> HIDE DEF new
<1>3. /\ chain' \in [Chains -> ChainRows] /\ chain'[c] = new /\ OneAttempt'
      /\ \A d \in Chains \ {c} : chain'[d] = chain[d]
  BY <1>1, <1>2, ChainMoves
<1>4. twoAtOnce' \in BOOLEAN
  BY <1>1 DEF RetryInv, RetryTypeOK
<1>5. RetryTypeOK'
  BY <1>1, <1>3, <1>4 DEF RetryInv, RetryTypeOK, ChainRows
<1>6. Counted'
  BY <1>1, <1>2, <1>3 DEF RetryInv, Counted
<1>7. NotGivenUp'
  BY <1>1, <1>2, <1>3 DEF RetryInv, NotGivenUp, Decided
<1>8. OneUnderWay'
  BY <1>1, <1>2, <1>3 DEF OneUnderWay, UnderWay
<1>9. TimersAreKnown'
  <2> SUFFICES ASSUME ~twoAtOnce'
               PROVE  /\ \A d \in Chains : chain'[d].at = "armed" => timer' = {d}
                      /\ \A d \in timer' : chain'[d].at \in {"armed", "handling"}
    BY DEF TimersAreKnown
  <2>1. ~twoAtOnce /\ timer \subseteq Chains
    BY <1>1 DEF RetryInv, RetryTypeOK
  <2>2. c \notin timer
    BY <1>1, <2>1 DEF RetryInv, TimersAreKnown
  <2> QED BY <1>1, <1>2, <1>3, <2>1, <2>2 DEF RetryInv, TimersAreKnown
<1> QED BY <1>3, <1>5, <1>6, <1>7, <1>8, <1>9 DEF RetryInv

\* The row is read: done, given up, or a timer is set
LEMMA ReadStep ==
  ASSUME RetryInv, NEW c \in Chains, ReadRow(c)
  PROVE  RetryInv'
<1> DEFINE a == AttemptOf(c)
<1>1. /\ chain[c].at = "reading"
      /\ UNCHANGED <<txStatus, attempts, restarts, called, settledLate, twoAtOnce>>
  BY DEF ReadRow
<1>2. \/ Decided /\ Moves(c, "done") /\ UNCHANGED timer
      \/ ~Decided /\ a >= MaxRetries /\ Moves(c, "giveUp") /\ UNCHANGED timer
      \/ /\ ~Decided /\ ~(a >= MaxRetries)
         /\ chain' = [chain EXCEPT ![c] = [at |-> "armed", attempt |-> {a}]] /\ timer' = {c}
  BY DEF ReadRow, Resolved, Exhausted
<1>3. /\ a \in Nat
      /\ chain[c].attempt = {} => called[c] = 0
      /\ chain[c].attempt # {} => called[c] <= a
      /\ called[c] <= MaxRetries /\ called[c] \in Nat
  <2>1. chain[c].attempt # {} => chain[c].attempt = {a}
    BY AttemptType
  <2> QED BY <1>1, <2>1, AttemptType DEF RetryInv, Counted, RetryTypeOK
<1>4. timer \subseteq Chains /\ Cardinality(timer) <= 1
  BY DEF RetryInv, RetryTypeOK
<1>5. UnderWay(c)
  BY <1>1 DEF UnderWay
<1>6. ~twoAtOnce => timer = {}
  <2>1. ASSUME ~twoAtOnce, NEW d \in timer PROVE FALSE
    <3>1. d \in Chains /\ chain[d].at \in {"armed", "handling"}
      BY <1>4, <2>1 DEF RetryInv, TimersAreKnown
    <3>2. d = c
      BY <1>5, <2>1, <3>1 DEF RetryInv, OneUnderWay, UnderWay
    <3> QED BY <1>1, <3>1, <3>2
  <2> QED BY <2>1
<1>7. CASE timer' = timer /\ \E step \in {"done", "giveUp"} : Moves(c, step) /\ (step = "giveUp" => ~Decided)
  <2>1. PICK step \in {"done", "giveUp"} : Moves(c, step) /\ (step = "giveUp" => ~Decided)
    BY <1>7
  <2>2. /\ chain' \in [Chains -> ChainRows] /\ OneAttempt' /\ chain'[c].at = step
        /\ \A d \in Chains \ {c} : chain'[d] = chain[d]
    BY <2>1, MovesOn
  <2>3. RetryTypeOK'
    BY <1>1, <1>7, <2>2 DEF RetryInv, RetryTypeOK, ChainRows
  <2>4. Counted'
    BY <1>1, <2>1, <2>2 DEF RetryInv, Counted
  <2>5. NotGivenUp'
    BY <1>1, <2>1, <2>2 DEF RetryInv, NotGivenUp, Decided
  <2>6. OneUnderWay'
    BY <1>1, <1>5, <2>2, Apart
  <2>7. TimersAreKnown'
    BY <1>1, <1>6, <1>7, <2>1, <2>2 DEF RetryInv, TimersAreKnown
  <2> QED BY <2>2, <2>3, <2>4, <2>5, <2>6, <2>7 DEF RetryInv
<1>8. CASE /\ ~Decided /\ ~(a >= MaxRetries)
           /\ chain' = [chain EXCEPT ![c] = [at |-> "armed", attempt |-> {a}]] /\ timer' = {c}
  <2> DEFINE new == [at |-> "armed", attempt |-> {a}]
  <2>1. a \in 0..MaxRetries /\ a < MaxRetries /\ called[c] <= a
    BY <1>3, <1>8, RetryAssumption
  <2>2. new \in ChainRows /\ new.at = "armed" /\ new.attempt = {a}
    BY <2>1 DEF ChainRows
  <2> HIDE DEF new, a
  <2>3. chain' = [chain EXCEPT ![c] = new]
    BY <1>8 DEF new
  <2>4. /\ chain' \in [Chains -> ChainRows] /\ chain'[c] = new /\ OneAttempt'
        /\ \A d \in Chains \ {c} : chain'[d] = chain[d]
    BY <2>1, <2>2, <2>3, ChainMoves
  <2>5. RetryTypeOK'
    BY <1>1, <1>8, <2>4, TimerType DEF RetryInv, RetryTypeOK, ChainRows
  <2>6. Counted'
    BY <1>1, <1>3, <2>1, <2>2, <2>4 DEF RetryInv, Counted
  <2>7. NotGivenUp'
    BY <1>1, <1>8, <2>4, <2>2 DEF RetryInv, NotGivenUp, Decided
  <2>8. OneUnderWay'
    BY <1>1, <1>5, <2>4, Apart
  <2>9. TimersAreKnown'
    <3> SUFFICES ASSUME ~twoAtOnce
                 PROVE  /\ \A d \in Chains : chain'[d].at = "armed" => d = c
                        /\ chain'[c].at = "armed"
      BY <1>1, <1>8 DEF TimersAreKnown
    <3>1. \A d \in Chains \ {c} : ~UnderWay(d)
      BY <1>5 DEF RetryInv, OneUnderWay
    <3> QED BY <2>2, <2>4, <3>1 DEF UnderWay
  <2> QED BY <2>4, <2>5, <2>6, <2>7, <2>8, <2>9 DEF RetryInv
<1> QED BY <1>2, <1>7, <1>8

\* The transaction is marked FAILED after the last attempt
LEMMA GiveUpStep ==
  ASSUME RetryInv, NEW c \in Chains, GiveUp(c)
  PROVE  RetryInv' /\ (Decided => settledLate)
<1>1. /\ chain[c].at = "giveUp" /\ txStatus' = "FAILED" /\ Moves(c, "done")
      /\ UNCHANGED <<attempts, timer, restarts, called, settledLate, twoAtOnce>>
  BY DEF GiveUp
<1>2. /\ chain' \in [Chains -> ChainRows] /\ OneAttempt' /\ chain'[c].at = "done"
      /\ \A d \in Chains \ {c} : chain'[d] = chain[d]
  BY <1>1, MovesOn
<1>3. RetryTypeOK'
  BY <1>1, <1>2 DEF RetryInv, RetryTypeOK, ChainRows
<1>4. Counted'
  BY <1>1, <1>2 DEF RetryInv, Counted
<1>5. NotGivenUp'
  BY <1>1 DEF NotGivenUp, Decided
<1>6. OneUnderWay'
  BY <1>1, <1>2, Apart DEF UnderWay
<1>7. TimersAreKnown'
  <2>1. timer \subseteq Chains
    BY DEF RetryInv, RetryTypeOK
  <2>2. ~twoAtOnce => c \notin timer
    BY <1>1 DEF RetryInv, TimersAreKnown
  <2> QED BY <1>1, <1>2, <2>1, <2>2 DEF RetryInv, TimersAreKnown
<1>8. Decided => settledLate
  BY <1>1 DEF RetryInv, NotGivenUp
<1> QED BY <1>2, <1>3, <1>4, <1>5, <1>6, <1>7, <1>8 DEF RetryInv

\* The timer fires and the handler is called
LEMMA FireStep ==
  ASSUME RetryInv, NEW c \in Chains, Fire(c)
  PROVE  RetryInv'
<1>1. /\ chain[c].at = "armed" /\ attempts' = attempts + 1
      /\ called' = [called EXCEPT ![c] = @ + 1] /\ Moves(c, "handling")
      /\ UNCHANGED <<txStatus, timer, restarts, settledLate, twoAtOnce>>
  BY DEF Fire
<1>2. /\ chain' \in [Chains -> ChainRows] /\ OneAttempt'
      /\ chain'[c].at = "handling" /\ chain'[c].attempt = chain[c].attempt
      /\ \A d \in Chains \ {c} : chain'[d] = chain[d]
  BY <1>1, MovesOn
<1>3. PICK a \in Nat : chain[c].attempt = {a} /\ a < MaxRetries /\ called[c] <= a
  BY <1>1 DEF RetryInv, Counted
<1>4. /\ called' \in [Chains -> Nat] /\ called'[c] = called[c] + 1 /\ called[c] \in Nat
      /\ \A d \in Chains \ {c} : called'[d] = called[d]
  BY <1>1 DEF RetryInv, RetryTypeOK
<1>5. RetryTypeOK'
  BY <1>1, <1>2, <1>4 DEF RetryInv, RetryTypeOK, ChainRows
<1>6. Counted'
  <2>1. called'[c] <= a + 1 /\ called'[c] <= MaxRetries
    BY <1>3, <1>4, RetryAssumption
  <2> QED BY <1>2, <1>3, <1>4, <2>1 DEF RetryInv, Counted
<1>7. NotGivenUp'
  BY <1>1, <1>2 DEF RetryInv, NotGivenUp, Decided
<1>8. OneUnderWay'
  BY <1>1, <1>2, Apart DEF UnderWay
<1>9. TimersAreKnown'
  BY <1>1, <1>2 DEF RetryInv, TimersAreKnown
<1> QED BY <1>2, <1>5, <1>6, <1>7, <1>8, <1>9 DEF RetryInv

\* The handler resolves the transaction, or fails and is tried again
LEMMA HandleStep ==
  ASSUME RetryInv, NEW c \in Chains, Handle(c)
  PROVE  RetryInv'
<1>1. /\ chain[c].at = "handling" /\ timer' = {}
      /\ UNCHANGED <<attempts, restarts, called, twoAtOnce>>
  BY DEF Handle, JobForgotten
<1>2. \/ txStatus' = "SUCCESS" /\ Moves(c, "done") /\ DecidedNow
      \/ /\ chain' = [chain EXCEPT ![c] = [at |-> "reading", attempt |-> {AttemptOf(c) + 1}]]
         /\ UNCHANGED <<txStatus, settledLate>>
  BY DEF Handle, NextAttempt
<1>3. UnderWay(c) /\ Cardinality(timer') <= 1
  BY <1>1, TimerType DEF UnderWay
<1>4. \A d \in Chains \ {c} : ~twoAtOnce => ~UnderWay(d)
  BY <1>3 DEF RetryInv, OneUnderWay
<1>5. CASE txStatus' = "SUCCESS" /\ Moves(c, "done") /\ DecidedNow
  <2>1. /\ chain' \in [Chains -> ChainRows] /\ OneAttempt' /\ chain'[c].at = "done"
        /\ \A d \in Chains \ {c} : chain'[d] = chain[d]
    BY <1>5, MovesOn
  <2>2. settledLate' = (settledLate \/ \E d \in Chains : chain[d].at = "giveUp")
    BY <1>5 DEF DecidedNow
  <2>3. RetryTypeOK'
    BY <1>1, <1>3, <1>5, <2>1, <2>2 DEF RetryInv, RetryTypeOK, ChainRows
  <2>4. Counted'
    BY <1>1, <2>1 DEF RetryInv, Counted
  <2>5. NotGivenUp'
    BY <2>1, <2>2 DEF NotGivenUp
  <2>6. OneUnderWay'
    BY <1>1, <1>3, <2>1, Apart
  <2>7. TimersAreKnown'
    BY <1>1, <1>4, <2>1 DEF TimersAreKnown, UnderWay
  <2> QED BY <2>1, <2>3, <2>4, <2>5, <2>6, <2>7 DEF RetryInv
<1>6. CASE /\ chain' = [chain EXCEPT ![c] = [at |-> "reading", attempt |-> {AttemptOf(c) + 1}]]
           /\ UNCHANGED <<txStatus, settledLate>>
  <2>1. PICK a \in Nat : /\ chain[c].attempt = {a} /\ a < MaxRetries
                         /\ called[c] <= a + 1 /\ AttemptOf(c) = a
    <3>1. PICK a \in Nat : chain[c].attempt = {a} /\ a < MaxRetries /\ called[c] <= a + 1
      BY <1>1 DEF RetryInv, Counted
    <3> QED BY <3>1, AttemptType
  <2> DEFINE new == [at |-> "reading", attempt |-> {a + 1}]
  <2>2. new \in ChainRows /\ new.at = "reading" /\ new.attempt = {a + 1} /\ a + 1 \in 0..MaxRetries
    BY <2>1, RetryAssumption DEF ChainRows
  <2> HIDE DEF new
  <2>3. chain' = [chain EXCEPT ![c] = new]
    BY <1>6, <2>1 DEF new
  <2>4. /\ chain' \in [Chains -> ChainRows] /\ chain'[c] = new /\ OneAttempt'
        /\ \A d \in Chains \ {c} : chain'[d] = chain[d]
    BY <2>2, <2>3, ChainMoves
  <2>5. RetryTypeOK'
    BY <1>1, <1>3, <1>6, <2>4 DEF RetryInv, RetryTypeOK, ChainRows
  <2>6. Counted'
    BY <1>1, <2>1, <2>2, <2>4 DEF RetryInv, Counted
  <2>7. NotGivenUp'
    BY <1>6, <2>2, <2>4 DEF RetryInv, NotGivenUp, Decided
  <2>8. OneUnderWay'
    BY <1>1, <1>3, <2>4, Apart
  <2>9. TimersAreKnown'
    BY <1>1, <1>4, <2>2, <2>4 DEF TimersAreKnown, UnderWay
  <2> QED BY <2>4, <2>5, <2>6, <2>7, <2>8, <2>9 DEF RetryInv
<1> QED BY <1>2, <1>5, <1>6

\* Timers are taken away, by cancel or with the process: some chains end
LEMMA EndsStep ==
  ASSUME RetryInv, timer' = {}, UNCHANGED <<txStatus, attempts, called, settledLate, twoAtOnce>>,
         restarts' \in 0..Restarts, chain' \in [Chains -> ChainRows],
         \A c \in Chains :
           \/ chain'[c] = chain[c] /\ (~twoAtOnce => chain[c].at # "armed")
           \/ chain[c].at # "none" /\ chain'[c].at = "done" /\ chain'[c].attempt = chain[c].attempt
  PROVE  RetryInv'
<1>1. RetryTypeOK'
  BY TimerType DEF RetryInv, RetryTypeOK, ChainRows
<1>2. Counted'
  BY DEF RetryInv, Counted
<1>3. OneAttempt'
  BY DEF RetryInv, OneAttempt
<1>4. NotGivenUp'
  BY DEF RetryInv, NotGivenUp, Decided
<1>5. OneUnderWay'
  BY DEF RetryInv, OneUnderWay, UnderWay
<1>6. TimersAreKnown'
  BY DEF TimersAreKnown
<1> QED BY <1>1, <1>2, <1>3, <1>4, <1>5, <1>6 DEF RetryInv

LEMMA CancelStep == ASSUME RetryInv, CancelRetry PROVE RetryInv'
<1>1. /\ timer' = {}
      /\ UNCHANGED <<txStatus, attempts, restarts, called, settledLate, twoAtOnce>>
      /\ chain' = [c \in Chains |-> IF c \in timer /\ chain[c].at = "armed"
                                    THEN [chain[c] EXCEPT !.at = "done"] ELSE chain[c]]
  BY DEF CancelRetry
<1>2. chain \in [Chains -> ChainRows] /\ restarts \in 0..Restarts
  BY DEF RetryInv, RetryTypeOK, ChainRows
<1>3. \A c \in Chains : chain'[c] \in ChainRows
  BY <1>1, <1>2 DEF ChainRows
<1>4. chain' \in [Chains -> ChainRows]
  BY <1>1, <1>3
<1>5. \A c \in Chains : ~twoAtOnce /\ chain[c].at = "armed" => c \in timer
  BY DEF RetryInv, TimersAreKnown
<1>6. \A c \in Chains :
        \/ chain'[c] = chain[c] /\ (~twoAtOnce => chain[c].at # "armed")
        \/ chain[c].at # "none" /\ chain'[c].at = "done" /\ chain'[c].attempt = chain[c].attempt
  BY <1>1, <1>2, <1>5 DEF ChainRows
<1> QED BY <1>1, <1>2, <1>4, <1>6, EndsStep

LEMMA RestartStep == ASSUME RetryInv, RestartQueue PROVE RetryInv'
<1>1. /\ timer' = {} /\ restarts < Restarts /\ restarts' = restarts + 1
      /\ UNCHANGED <<txStatus, attempts, called, settledLate, twoAtOnce>>
      /\ chain' = [c \in Chains |-> IF chain[c].at = "none" THEN NoChain
                                    ELSE [chain[c] EXCEPT !.at = "done"]]
  BY DEF RestartQueue
<1>2. chain \in [Chains -> ChainRows] /\ restarts' \in 0..Restarts
  BY <1>1, RetryAssumption DEF RetryInv, RetryTypeOK, ChainRows
<1>3. NoChain \in ChainRows /\ NoChain.at = "none" /\ NoChain.attempt = {}
  BY DEF NoChain, ChainRows
<1>4. \A c \in Chains : chain'[c] \in ChainRows
  BY <1>1, <1>2, <1>3 DEF ChainRows
<1>5. chain' \in [Chains -> ChainRows]
  BY <1>1, <1>4
<1>6. ASSUME NEW c \in Chains, chain[c].at # "none"
      PROVE  chain'[c].at = "done" /\ chain'[c].attempt = chain[c].attempt
  BY <1>1, <1>2, <1>6 DEF ChainRows
<1>7. \A c \in Chains : chain[c].at = "none" => chain'[c] = NoChain
  BY <1>1
<1>8. RetryTypeOK'
  BY <1>1, <1>2, <1>5, TimerType DEF RetryInv, RetryTypeOK, ChainRows
<1>9. Counted' /\ OneAttempt'
  BY <1>1, <1>3, <1>6, <1>7 DEF RetryInv, Counted, OneAttempt
<1>10. NotGivenUp' /\ OneUnderWay' /\ TimersAreKnown'
  BY <1>1, <1>3, <1>6, <1>7 DEF NotGivenUp, OneUnderWay, UnderWay, TimersAreKnown
<1> QED BY <1>8, <1>9, <1>10 DEF RetryInv

\* The transaction is settled by the provider's answer
LEMMA SettledStep == ASSUME RetryInv, SettledElsewhere PROVE RetryInv'
<1>1. /\ txStatus' = "ESCROW"
      /\ settledLate' = (settledLate \/ \E c \in Chains : chain[c].at = "giveUp")
      /\ UNCHANGED <<attempts, chain, timer, restarts, called, twoAtOnce>>
  BY DEF SettledElsewhere, DecidedNow
<1>2. RetryTypeOK'
  BY <1>1 DEF RetryInv, RetryTypeOK
<1>3. Counted' /\ OneAttempt'
  BY <1>1 DEF RetryInv, Counted, OneAttempt
<1>4. NotGivenUp'
  BY <1>1 DEF NotGivenUp
<1>5. OneUnderWay' /\ TimersAreKnown'
  BY <1>1 DEF RetryInv, OneUnderWay, UnderWay, TimersAreKnown
<1> QED BY <1>2, <1>3, <1>4, <1>5 DEF RetryInv

-----------------------------------------------------------------------------
(* The invariant                                                           *)

LEMMA RetryInitInv == RetryInit => RetryInv
<1> SUFFICES ASSUME RetryInit PROVE RetryInv
  OBVIOUS
<1>1. \A c \in Chains : chain[c] = NoChain /\ called[c] = 0
  BY DEF RetryInit
<1>2. NoChain \in ChainRows /\ NoChain.at = "none" /\ NoChain.attempt = {}
  BY DEF NoChain, ChainRows
<1>3. RetryTypeOK
  <2>1. chain \in [Chains -> ChainRows] /\ called \in [Chains -> Nat]
    BY <1>2 DEF RetryInit
  <2>2. timer = {} /\ Cardinality(timer) <= 1
    BY TimerType DEF RetryInit
  <2>3. attempts \in Nat /\ restarts \in 0..Restarts
    BY RetryAssumption DEF RetryInit
  <2>4. txStatus \in {"PENDING", "SUCCESS", "ESCROW", "FAILED"}
    BY DEF RetryInit
  <2>5. settledLate \in BOOLEAN /\ twoAtOnce \in BOOLEAN
    BY DEF RetryInit
  <2> QED BY <2>1, <2>2, <2>3, <2>4, <2>5 DEF RetryTypeOK, ChainRows
<1>4. Counted /\ OneAttempt
  BY <1>1, <1>2, RetryAssumption DEF Counted, OneAttempt
<1>5. NotGivenUp /\ OneUnderWay /\ TimersAreKnown
  BY <1>1, <1>2 DEF RetryInit, NotGivenUp, OneUnderWay, UnderWay, TimersAreKnown
<1> QED BY <1>3, <1>4, <1>5 DEF RetryInv

\* What a step may never do to a settled transaction
LEMMA RetryNextInv ==
  ASSUME RetryInv, [RetryNext]_retryVars
  PROVE  RetryInv' /\ (Decided /\ ~settledLate => txStatus' # "FAILED")
<1>1. ASSUME NEW c \in Chains, Schedule(c) PROVE RetryInv' /\ UNCHANGED txStatus
  BY <1>1, ScheduleStep DEF Schedule
<1>2. ASSUME NEW c \in Chains, ReadRow(c) PROVE RetryInv' /\ UNCHANGED txStatus
  BY <1>2, ReadStep DEF ReadRow
<1>3. ASSUME NEW c \in Chains, GiveUp(c) PROVE RetryInv' /\ (Decided => settledLate)
  BY <1>3, GiveUpStep
<1>4. ASSUME NEW c \in Chains, Fire(c) PROVE RetryInv' /\ UNCHANGED txStatus
  BY <1>4, FireStep DEF Fire
<1>5. ASSUME NEW c \in Chains, Handle(c)
      PROVE  RetryInv' /\ (txStatus' = "SUCCESS" \/ UNCHANGED txStatus)
  BY <1>5, HandleStep DEF Handle
<1>6. ASSUME CancelRetry PROVE RetryInv' /\ UNCHANGED txStatus
  BY <1>6, CancelStep DEF CancelRetry
<1>7. ASSUME RestartQueue PROVE RetryInv' /\ UNCHANGED txStatus
  BY <1>7, RestartStep DEF RestartQueue
<1>8. ASSUME SettledElsewhere PROVE RetryInv' /\ txStatus' = "ESCROW"
  BY <1>8, SettledStep DEF SettledElsewhere
<1>9. CASE UNCHANGED retryVars
  <2>1. UNCHANGED <<txStatus, attempts, chain, timer, restarts, called, settledLate, twoAtOnce>>
    BY <1>9 DEF retryVars
  <2>2. RetryTypeOK' /\ Counted' /\ OneAttempt'
    BY <2>1 DEF RetryInv, RetryTypeOK, Counted, OneAttempt
  <2>3. NotGivenUp' /\ OneUnderWay' /\ TimersAreKnown'
    BY <2>1 DEF RetryInv, NotGivenUp, Decided, OneUnderWay, UnderWay, TimersAreKnown
  <2> QED BY <2>1, <2>2, <2>3 DEF RetryInv, Decided
<1> QED BY <1>1, <1>2, <1>3, <1>4, <1>5, <1>6, <1>7, <1>8, <1>9 DEF RetryNext, Decided

LEMMA RetryInvariance == RetrySpec => []RetryInv
<1>1. RetryInv /\ [RetryNext]_retryVars => RetryInv'
  BY RetryNextInv
<1> QED BY <1>1, RetryInitInv, PTL DEF RetrySpec

-----------------------------------------------------------------------------
(* The theorems                                                            *)

\* Rows, chains and timers keep their shape, and the map holds one timer step most
THEOREM RetryTypeCorrect == RetrySpec => []RetryTypeOK
<1>1. RetryInv => RetryTypeOK
  BY DEF RetryInv
<1> QED BY <1>1, RetryInvariance, PTL

\* A call of schedule calls the handler as often as there are backoffs step most,
\* whatever cancels and restarts come between
THEOREM RetriesAreBounded == RetrySpec => []AttemptsBounded
<1>1. RetryInv => AttemptsBounded
  BY DEF RetryInv, Counted, AttemptsBounded
<1> QED BY <1>1, RetryInvariance, PTL

\* Unless chains overlapped, every timer that is set is in the map and the map holds
\* no timer whose callback has ended
THEOREM EveryTimerIsKnown == RetrySpec => []TimersAreKnown
<1>1. RetryInv => TimersAreKnown
  BY DEF RetryInv
<1> QED BY <1>1, RetryInvariance, PTL

\* A settled transaction is not marked FAILED, unless it was settled between the reading
\* of a last attempt and its write
THEOREM SettledStays == RetrySpec => SettledIsNotFailed
<1>1. RetryInv /\ [RetryNext]_retryVars =>
        [Decided /\ ~settledLate => txStatus' # "FAILED"]_retryVars
  BY RetryNextInv
<1> QED BY <1>1, RetryInvariance, PTL DEF RetrySpec, SettledIsNotFailed

\* The three together, as the runs check them
THEOREM RetryIsSafe == RetrySpec => []RetrySafety
<1>1. RetryTypeOK /\ AttemptsBounded /\ TimersAreKnown => RetrySafety
  BY DEF RetrySafety
<1> QED BY <1>1, RetryTypeCorrect, RetriesAreBounded, EveryTimerIsKnown, PTL

-----------------------------------------------------------------------------

-----------------------------------------------------------------------------
(* Wallet locks                                                            *)

\* The methods that take their locks by lockWallet once or by lockTwoWallets
OrderedMethods == Methods \subseteq {"one", "pair"}

\* What a transaction has still to lock ascends
Sorted(s) == \A i, j \in 1..Len(s) : i <= j => s[i] <= s[j]

LocksInv == LocksTypeOK /\ Ascending /\ \A t \in Txs : Sorted(todo[t])

\* User ids are compared as numbers
LEMMA UsersAreNumbers == \A u \in Owners : u \in Int
<1>1. Owners \subseteq Nat
  BY LocksAssumption, Zenon
<1> QED BY <1>1

\* One wallet, or a pair in order, is a sorted sequence of users
LEMMA PlansSorted ==
  ASSUME OrderedMethods, NEW m \in Methods, NEW plan \in Plans[m]
  PROVE  plan \in Seq(Owners) /\ Sorted(plan)
<1>1. CASE m = "one"
  <2>1. PICK u \in Owners : plan = <<u>>
    BY <1>1 DEF Plans
  <2>2. u \in Int
    BY LocksAssumption
  <2> QED BY <2>1, <2>2 DEF Sorted
<1>2. CASE m = "pair"
  <2>1. PICK a \in Owners, b \in Owners : plan = Ordered(a, b)
    BY <1>2 DEF Plans
  <2>2. a \in Int /\ b \in Int
    BY LocksAssumption
  <2>3. PICK c \in Owners, d \in Owners : plan = <<c, d>> /\ c <= d /\ c \in Int /\ d \in Int
    BY <2>1, <2>2 DEF Ordered
  <2> QED BY <2>3 DEF Sorted
<1> QED BY <1>1, <1>2 DEF OrderedMethods

\* The locks after the first are not below it
LEMMA TailSorted ==
  ASSUME NEW s \in Seq(Owners), s # <<>>, Sorted(s)
  PROVE  /\ Head(s) \in Owners /\ Tail(s) \in Seq(Owners) /\ Sorted(Tail(s))
         /\ Tail(s) # <<>> => Head(s) <= Head(Tail(s))
<1>1. Head(s) = s[1] /\ Len(s) \in Nat \ {0} /\ Len(Tail(s)) = Len(s) - 1
  OBVIOUS
<1>2. Tail(s) \in Seq(Owners) /\ \A i \in 1..Len(Tail(s)) : Tail(s)[i] = s[i + 1]
  OBVIOUS
<1>3. Sorted(Tail(s))
  BY <1>1, <1>2 DEF Sorted
<1>4. ASSUME Tail(s) # <<>> PROVE Head(s) <= Head(Tail(s))
  <2>1. Len(s) >= 2 /\ Head(Tail(s)) = s[2]
    BY <1>1, <1>2, <1>4
  <2> QED BY <1>1, <2>1 DEF Sorted
<1> QED BY <1>1, <1>2, <1>3, <1>4

\* Nothing is locked at first
LEMMA LocksInitInv == LocksInit => LocksInv
  BY LocksAssumption DEF LocksInit, LocksInv, LocksTypeOK, Ascending, Sorted

\* Every step keeps the order
LEMMA LocksNextInv == OrderedMethods /\ LocksInv /\ [LocksNext]_locksVars => LocksInv'
<1> SUFFICES ASSUME OrderedMethods, LocksInv, [LocksNext]_locksVars PROVE LocksInv'
  OBVIOUS
<1> USE DEF LocksInv
<1>1. ASSUME NEW t \in Txs, Begin(t) PROVE LocksInv'
  <2>1. PICK m \in Methods : \E plan \in Plans[m] : todo' = [todo EXCEPT ![t] = plan]
    BY <1>1 DEF Begin
  <2>2. PICK plan \in Plans[m] : todo' = [todo EXCEPT ![t] = plan]
    BY <2>1
  <2>3. plan \in Seq(Owners) /\ Sorted(plan)
    BY <2>2, PlansSorted
  <2>4. UNCHANGED owner /\ Held(t) = {}
    BY <1>1 DEF Begin
  <2> QED BY <2>2, <2>3, <2>4 DEF LocksTypeOK, Ascending, Held
<1>2. ASSUME NEW t \in Txs, Lock(t) PROVE LocksInv'
  <2> DEFINE u == Head(todo[t])
  <2>1. todo[t] \in Seq(Owners) /\ todo[t] # <<>> /\ Sorted(todo[t])
    BY <1>2 DEF Lock, LocksTypeOK
  <2>2. /\ u \in Owners /\ Tail(todo[t]) \in Seq(Owners) /\ Sorted(Tail(todo[t]))
        /\ Tail(todo[t]) # <<>> => u <= Head(Tail(todo[t]))
    BY <2>1, TailSorted
  <2>3. /\ owner' = [owner EXCEPT ![u] = t]
        /\ todo' = [todo EXCEPT ![t] = Tail(todo[t])]
        /\ owner[u] \in {Nobody, t}
    BY <1>2 DEF Lock
  <2>4. LocksTypeOK' /\ \A x \in Txs : Sorted(todo'[x])
    BY <2>2, <2>3 DEF LocksTypeOK
  <2>5. ASSUME NEW x \in Txs, todo'[x] # <<>>, NEW v \in Held(x)'
        PROVE  v <= Head(todo'[x])
    <3>1. CASE x = t
      <4>1. Tail(todo[t]) # <<>> /\ todo'[x] = Tail(todo[t])
        BY <2>3, <2>5, <3>1 DEF LocksTypeOK
      <4>2. v = u \/ v \in Held(t)
        BY <2>3, <2>5, <3>1 DEF Held, LocksTypeOK
      <4>3. v <= u
        <5>1. CASE v = u
          <6>1. u \in Int BY <2>2, UsersAreNumbers, Zenon
          <6>2. \A n \in Int : n <= n OBVIOUS
          <6> QED BY <5>1, <6>1, <6>2, Zenon
        <5>2. CASE v \in Held(t) BY <2>1, <5>2 DEF Ascending
        <5> QED BY <4>2, <5>1, <5>2
      <4>4. v \in Nat /\ u \in Nat /\ Head(Tail(todo[t])) \in Nat
        <5>1. Head(Tail(todo[t])) \in Owners BY <2>2, <4>1
        <5> QED BY <2>2, <5>1, LocksAssumption DEF Held
      <4> QED BY <2>2, <4>1, <4>3, <4>4
    <3>2. CASE x # t
      BY <2>3, <2>5, <3>2 DEF Held, LocksTypeOK, Ascending
    <3> QED BY <3>1, <3>2
  <2> QED BY <2>4, <2>5 DEF Ascending
<1>3. ASSUME NEW t \in Txs, End(t) PROVE LocksInv'
  <2>1. /\ owner' = [u \in Owners |-> IF owner[u] = t THEN Nobody ELSE owner[u]]
        /\ todo' = [todo EXCEPT ![t] = <<>>]
    BY <1>3 DEF End
  <2>2. \A x \in Txs : Held(x)' \subseteq Held(x)
    BY <2>1, LocksAssumption DEF Held, LocksTypeOK
  <2>3. LocksTypeOK'
    BY <2>1 DEF LocksTypeOK
  <2>4. \A x \in Txs : x # t => todo'[x] = todo[x]
    BY <2>1 DEF LocksTypeOK
  <2>5. todo'[t] = <<>> /\ Sorted(<<>>)
    BY <2>1 DEF LocksTypeOK, Sorted
  <2> QED BY <2>2, <2>3, <2>4, <2>5 DEF Ascending
<1>4. CASE UNCHANGED locksVars
  BY <1>4 DEF locksVars, LocksTypeOK, Ascending, Held
<1> QED BY <1>1, <1>2, <1>3, <1>4 DEF LocksNext, Commit, Rollback

\* Two transactions that wait for each other would each hold a wallet above
\* the one it asks for
LEMMA AscendingPreventsDeadlock == LocksInv => NoDeadlock
<1> SUFFICES ASSUME LocksInv, NEW s \in Txs, NEW t \in Txs, WaitsFor(s, t), WaitsFor(t, s)
             PROVE  FALSE
  BY DEF NoDeadlock
<1> DEFINE a == Head(todo[s])
           b == Head(todo[t])
<1>1. a \in Owners /\ b \in Owners /\ s # t
  BY DEF LocksInv, LocksTypeOK, WaitsFor
<1>2. a \in Held(t) /\ b \in Held(s)
  BY <1>1 DEF WaitsFor, Held
<1>3. a <= b /\ b <= a
  BY <1>2 DEF LocksInv, Ascending, WaitsFor
<1>4. a \in Int /\ b \in Int
  BY <1>1, UsersAreNumbers, Zenon
<1>5. a = b
  BY <1>3, <1>4
<1> QED BY <1>1, <1>5 DEF WaitsFor

\* lockTwoWallets: a lock is only asked for above those already held
THEOREM LocksAscend ==
  ASSUME OrderedMethods
  PROVE  LocksSpec => []Ascending
<1>1. LocksInv /\ [LocksNext]_locksVars => LocksInv'
  BY LocksNextInv
<1> QED BY <1>1, LocksInitInv, PTL DEF LocksSpec, LocksInv

\* lockTwoWallets: "pour eviter les deadlocks" holds for every number of
\* transactions, as long as no method takes two locks in any other way
THEOREM PairsDoNotDeadlock ==
  ASSUME OrderedMethods
  PROVE  LocksSpec => []NoDeadlock
<1>1. LocksInv /\ [LocksNext]_locksVars => LocksInv'
  BY LocksNextInv
<1> QED BY <1>1, LocksInitInv, AscendingPreventsDeadlock, PTL DEF LocksSpec

\* The types and both, as the runs check them
THEOREM LocksAreSafe ==
  ASSUME OrderedMethods
  PROVE  LocksSpec => []LocksSafety
<1>1. LocksInv /\ [LocksNext]_locksVars => LocksInv'
  BY LocksNextInv
<1>2. LocksInv => LocksSafety
  BY AscendingPreventsDeadlock DEF LocksInv, LocksSafety
<1> QED BY <1>1, <1>2, LocksInitInv, PTL DEF LocksSpec

-----------------------------------------------------------------------------
(* The circuit breaker                                                     *)

BreakerInv == BreakerTypeOK /\ TripIsWritten

\* The count is below the threshold at first
LEMMA BreakerInitInv == BreakerInit => BreakerInv
<1> SUFFICES ASSUME BreakerInit PROVE BreakerInv
  OBVIOUS
<1>1. cooled \in BOOLEAN /\ cut \in BOOLEAN
  BY Zenon DEF BreakerInit
<1>2. BreakerTypeOK
  BY <1>1 DEF BreakerInit, BreakerTypeOK
<1>3. ~(failures >= Threshold)
  BY BreakerAssumption DEF BreakerInit
<1> QED BY <1>2, <1>3 DEF BreakerInv, TripIsWritten

\* Who counts the failure that reaches the threshold goes on to trip
LEMMA BreakerNextInv == BreakerInv /\ [BreakerNext]_breakerVars => BreakerInv'
<1> SUFFICES ASSUME BreakerInv, [BreakerNext]_breakerVars PROVE BreakerInv'
  OBVIOUS
<1> USE DEF BreakerInv
<1>1. ASSUME NEW c \in Callers, Ask(c) PROVE BreakerInv'
  BY <1>1 DEF Ask, Puts, BreakerTypeOK, TripIsWritten
<1>2. ASSUME NEW c \in Callers, HalfOpen(c) PROVE BreakerInv'
  BY <1>2 DEF HalfOpen, Puts, BreakerTypeOK, TripIsWritten
<1>3. ASSUME NEW c \in Callers, RecordSuccess(c) PROVE BreakerInv'
  <2>1. cooled' \in BOOLEAN /\ cut' \in BOOLEAN
    BY <1>3, Zenon DEF RecordSuccess
  <2>2. BreakerTypeOK'
    BY <1>3, <2>1 DEF RecordSuccess, Puts, BreakerTypeOK
  <2>3. failures' = 0
    BY <1>3, Zenon DEF RecordSuccess
  <2>4. ~(failures' >= Threshold)
    BY <2>3, BreakerAssumption
  <2> QED BY <2>2, <2>4 DEF TripIsWritten
<1>4. ASSUME NEW c \in Callers, RecordFailure(c) PROVE BreakerInv'
  <2>1. failures' = failures + 1 /\ UNCHANGED <<state, cooled, cut>>
    BY <1>4 DEF RecordFailure
  <2>2. at' = [at EXCEPT ![c] = IF failures' >= Threshold /\ state # "OPEN"
                                THEN "trip" ELSE "idle"]
    BY <1>4 DEF RecordFailure, Puts
  <2>3. BreakerTypeOK' BY <2>1, <2>2 DEF BreakerTypeOK
  <2>4. TripIsWritten' BY <2>1, <2>2 DEF BreakerTypeOK, TripIsWritten
  <2> QED BY <2>3, <2>4
<1>5. ASSUME NEW c \in Callers, Trip(c) PROVE BreakerInv'
  BY <1>5 DEF Trip, Puts, BreakerTypeOK, TripIsWritten
<1>6. CASE Cooldown
  BY <1>6 DEF Cooldown, BreakerTypeOK, TripIsWritten
<1>7. ASSUME NEW c \in Callers, CallerDies(c) PROVE BreakerInv'
  <2>1. /\ at' = [at EXCEPT ![c] = "idle"] /\ UNCHANGED <<state, failures, cooled>>
        /\ cut' = (cut \/ at[c] = "trip")
    BY <1>7 DEF CallerDies, Puts
  <2>2. cut' \in BOOLEAN
    BY <2>1, Zenon
  <2>3. BreakerTypeOK'
    BY <2>1, <2>2 DEF BreakerTypeOK
  <2>4. ASSUME state' = "CLOSED", failures' >= Threshold, ~cut'
        PROVE  \E d \in Callers : at'[d] = "trip"
    <3>1. ~cut /\ at[c] # "trip"
      BY <2>1, <2>4
    <3>2. PICK d \in Callers : at[d] = "trip"
      BY <2>1, <2>4, <3>1 DEF TripIsWritten
    <3> QED BY <2>1, <3>1, <3>2 DEF BreakerTypeOK
  <2> QED BY <2>3, <2>4 DEF TripIsWritten
<1>8. CASE UNCHANGED breakerVars
  BY <1>8 DEF breakerVars, BreakerTypeOK, TripIsWritten
<1> QED BY <1>1, <1>2, <1>3, <1>4, <1>5, <1>6, <1>7, <1>8 DEF BreakerNext, CallerStep

\* recordFailure: the count and the OPEN write are two database calls, and
\* still no overlap of other calls leaves a failing circuit CLOSED for good
THEOREM FailuresOpenTheCircuit == BreakerSpec => []TripIsWritten
<1>1. BreakerInv /\ [BreakerNext]_breakerVars => BreakerInv'
  BY BreakerNextInv
<1> QED BY <1>1, BreakerInitInv, PTL DEF BreakerSpec, BreakerInv

\* ... which is what the runs check of the circuit
THEOREM BreakerIsSafe == BreakerSpec => []BreakerSafety
<1>1. BreakerInv /\ [BreakerNext]_breakerVars => BreakerInv'
  BY BreakerNextInv
<1>2. BreakerInv => BreakerSafety
  BY DEF BreakerInv, BreakerSafety
<1> QED BY <1>1, <1>2, BreakerInitInv, PTL DEF BreakerSpec

=============================================================================
