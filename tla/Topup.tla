------------------------------- MODULE Topup -------------------------------
(***************************************************************************)
(* Recharging a wallet: topupWallet, confirmTopup and the provider's       *)
(* webhook, with the Mobile Money provider as an environment.              *)
(*                                                                         *)
(* A transaction of type TOPUP is identified by its idempotency_key, which *)
(* is unique in the database.  confirmTopup reads the transaction's status *)
(* BEFORE it locks the wallet row and tests it only then; the webhook      *)
(* reads the transaction, and later overwrites its status.  Each of these  *)
(* is therefore two steps.  Webhooks are delivered any number of times,    *)
(* late and in any order.                                                  *)
(***************************************************************************)
EXTENDS Integers

CONSTANTS
  Users,
  Keys,        \* idempotency keys, chosen by the clients
  Procs,       \* requests in flight
  MaxCredits,  \* bound on the credits of one transaction
  LateTimeout, \* whether the provider may announce TIMEOUT before its verdict
  MayCrash, MayFreeze

ASSUME TopupAssumption ==
  /\ MaxCredits \in Nat
  /\ {LateTimeout, MayCrash, MayFreeze} \subseteq BOOLEAN

VARIABLES
  tx,       \* transactions by key: their user and status
  credits,  \* how many times the amount was added to the user's balance
  frozen,   \* wallets.is_frozen
  verdict,  \* what the provider decided: was the customer debited?
  sent,     \* the webhook calls the provider makes, each any number of times
  call

topupVars == <<tx, credits, frozen, verdict, sent, call>>

Answers == {"ACCEPTED", "PENDING", "TIMEOUT", "FAILED", "REJECTED"}
Refusals == {"FAILED", "REJECTED", "TIMEOUT"}
Verdicts == {"NONE", "ASKED", "ACCEPTED", "FAILED", "REJECTED"}
Steps == {"idle", "insert", "provider", "refused", "confirm", "credit", "overwrite"}

At(p, step) == call[p].at = step
Go(p, step) == call' = [call EXCEPT ![p].at = step]
Start(p, step, u, k) == call' = [call EXCEPT ![p] = [at |-> step, user |-> u, key |-> k]]

-----------------------------------------------------------------------------
(* topupWallet                                                             *)

\* No transaction has the key and the wallet is not frozen; with a known key
\* the request answers what is stored, which changes nothing.
AskTopup(p, u, k) ==
  /\ At(p, "idle")
  /\ tx[k].status = "NONE" /\ ~frozen[u]
  /\ Start(p, "insert", u, k)
  /\ UNCHANGED <<tx, credits, frozen, verdict, sent>>

\* The INSERT; the unique index rejects it if the key was taken meanwhile
InsertTopup(p) ==
  LET k == call[p].key IN
  /\ At(p, "insert")
  /\ IF tx[k].status = "NONE"
     THEN tx' = [tx EXCEPT ![k] = [user |-> call[p].user, status |-> "PENDING"]]
          /\ Go(p, "provider")
     ELSE UNCHANGED tx /\ Go(p, "idle")
  /\ UNCHANGED <<credits, frozen, verdict, sent>>

\* Mutant: an answer PENDING is taken for ACCEPTED
CallProviderHasty(p) ==
  LET k == call[p].key IN
  /\ At(p, "provider")
  /\ \E answer \in Answers :
       /\ verdict' = [verdict EXCEPT ![k] =
            IF answer \in {"PENDING", "TIMEOUT"} THEN "ASKED" ELSE answer]
       /\ Go(p, IF answer \in {"ACCEPTED", "PENDING"} THEN "confirm" ELSE "refused")
  /\ UNCHANGED <<tx, credits, frozen, sent>>

\* initiateTopup: the provider accepts or refuses at once, or answers later
CallProvider(p) ==
  LET k == call[p].key IN
  /\ At(p, "provider")
  /\ \E answer \in Answers :
       /\ verdict' = [verdict EXCEPT ![k] =
            IF answer \in {"PENDING", "TIMEOUT"} THEN "ASKED" ELSE answer]
       /\ Go(p, CASE answer = "ACCEPTED" -> "confirm"
                  [] answer \in {"FAILED", "REJECTED"} -> "refused"
                  [] OTHER -> "idle")
  /\ UNCHANGED <<tx, credits, frozen, sent>>

\* Mutant: the provider's status is written instead of ours
RecordRefusalRaw(p) ==
  /\ At(p, "refused")
  /\ tx' = [tx EXCEPT ![call[p].key].status = verdict[call[p].key]]
  /\ Go(p, "idle")
  /\ UNCHANGED <<credits, frozen, verdict, sent>>

\* The immediate refusal is written
RecordRefusal(p) ==
  /\ At(p, "refused")
  /\ tx' = [tx EXCEPT ![call[p].key].status = "FAILED"]
  /\ Go(p, "idle")
  /\ UNCHANGED <<credits, frozen, verdict, sent>>

-----------------------------------------------------------------------------
(* confirmTopup                                                            *)

\* The status is read without a lock: SUCCESS returns, FAILED throws
ReadStatus(p) ==
  /\ At(p, "confirm")
  /\ Go(p, IF tx[call[p].key].status = "PENDING" THEN "credit" ELSE "idle")
  /\ UNCHANGED <<tx, credits, frozen, verdict, sent>>

\* Mutant: SUCCESS is written although the wallet is frozen
CreditFrozen(p) ==
  LET k == call[p].key IN
  /\ At(p, "credit") /\ credits[k] < MaxCredits
  /\ credits' = [credits EXCEPT ![k] = IF frozen[tx[k].user] THEN @ ELSE @ + 1]
  /\ tx' = [tx EXCEPT ![k].status = "SUCCESS"]
  /\ Go(p, "idle")
  /\ UNCHANGED <<frozen, verdict, sent>>

\* The wallet row is locked and credited; a frozen wallet rolls back
Credit(p) ==
  LET k == call[p].key IN
  /\ At(p, "credit")
  /\ IF frozen[tx[k].user]
     THEN UNCHANGED <<tx, credits>>
     ELSE /\ credits[k] < MaxCredits
          /\ credits' = [credits EXCEPT ![k] = @ + 1]
          /\ tx' = [tx EXCEPT ![k].status = "SUCCESS"]
  /\ Go(p, "idle")
  /\ UNCHANGED <<frozen, verdict, sent>>

-----------------------------------------------------------------------------
(* handleProviderWebhook                                                   *)

\* Mutant: the provider's ACCEPTED is not recognised
WebhookDeaf(p, k) ==
  /\ At(p, "idle")
  /\ tx[k].status \notin {"NONE", "SUCCESS"}
  /\ sent[k] \cap Refusals # {} /\ Start(p, "overwrite", tx[k].user, k)
  /\ UNCHANGED <<tx, credits, frozen, verdict, sent>>

\* The transaction is read; SUCCESS is left alone
Webhook(p, k) ==
  /\ At(p, "idle")
  /\ tx[k].status \notin {"NONE", "SUCCESS"}
  /\ \/ "ACCEPTED" \in sent[k] /\ Start(p, "confirm", tx[k].user, k)
     \/ sent[k] \cap Refusals # {} /\ Start(p, "overwrite", tx[k].user, k)
  /\ UNCHANGED <<tx, credits, frozen, verdict, sent>>

\* The refusal is written over whatever the status is by now
Overwrite(p) ==
  /\ At(p, "overwrite")
  /\ tx' = [tx EXCEPT ![call[p].key].status = "FAILED"]
  /\ Go(p, "idle")
  /\ UNCHANGED <<credits, frozen, verdict, sent>>

-----------------------------------------------------------------------------
(* The provider, the administrator, the process                            *)

\* The provider decides a pending recharge; its verdict is final
Decide(k) ==
  /\ verdict[k] = "ASKED"
  /\ \E v \in {"ACCEPTED", "FAILED"} : verdict' = [verdict EXCEPT ![k] = v]
  /\ UNCHANGED <<tx, credits, frozen, sent, call>>

\* It announces a verdict, or that it has none yet
Announce(k) ==
  /\ \/ /\ verdict[k] \in {"ACCEPTED", "FAILED", "REJECTED"}
        /\ sent' = [sent EXCEPT ![k] = @ \cup {verdict[k]}]
     \/ /\ LateTimeout /\ verdict[k] = "ASKED"
        /\ sent' = [sent EXCEPT ![k] = @ \cup {"TIMEOUT"}]
  /\ UNCHANGED <<tx, credits, frozen, verdict, call>>

\* The administrator freezes or unfreezes a wallet
SetFrozen(u) ==
  /\ MayFreeze
  /\ frozen' = [frozen EXCEPT ![u] = ~@]
  /\ UNCHANGED <<tx, credits, verdict, sent, call>>

Crash(p) ==
  /\ MayCrash /\ ~At(p, "idle")
  /\ Go(p, "idle")
  /\ UNCHANGED <<tx, credits, frozen, verdict, sent>>

TopupInit ==
  /\ tx \in [Keys -> [user : Users, status : {"NONE"}]]
  /\ credits = [k \in Keys |-> 0]
  /\ frozen = [u \in Users |-> FALSE]
  /\ verdict = [k \in Keys |-> "NONE"]
  /\ sent = [k \in Keys |-> {}]
  /\ call \in [Procs -> [at : {"idle"}, user : Users, key : Keys]]

Step(p) ==
  InsertTopup(p) \/ CallProvider(p) \/ RecordRefusal(p) \/ ReadStatus(p)
    \/ Credit(p) \/ Overwrite(p)

TopupNext ==
  \/ \E p \in Procs : Step(p) \/ Crash(p)
  \/ \E p \in Procs, u \in Users, k \in Keys : AskTopup(p, u, k)
  \/ \E p \in Procs, k \in Keys : Webhook(p, k)
  \/ \E k \in Keys : Decide(k) \/ Announce(k)
  \/ \E u \in Users : SetFrozen(u)

TopupSpec == TopupInit /\ [][TopupNext]_topupVars

\* A request goes on to its end unless the process dies, which it does not do
\* each time at the same step; the provider decides, announces its verdict
\* and repeats the announcement until it is acted upon.
TopupFairness ==
  /\ \A p \in Procs : WF_topupVars(Step(p))
  /\ SF_topupVars(\E p \in Procs : ReadStatus(p))
  /\ SF_topupVars(\E p \in Procs : Credit(p))
  /\ \A k \in Keys :
       /\ WF_topupVars(Decide(k)) /\ WF_topupVars(Announce(k))
       /\ SF_topupVars(\E p \in Procs : Webhook(p, k))

TopupLiveSpec == TopupSpec /\ TopupFairness

-----------------------------------------------------------------------------
(* Properties                                                              *)

\* Types
TopupTypeOK ==
  /\ tx \in [Keys -> [user : Users, status : {"NONE", "PENDING", "SUCCESS", "FAILED"}]]
  /\ credits \in [Keys -> Nat]
  /\ frozen \in [Users -> BOOLEAN]
  /\ verdict \in [Keys -> Verdicts]
  /\ sent \in [Keys -> SUBSET Answers]
  /\ call \in [Procs -> [at : Steps, user : Users, key : Keys]]

\* The wallet is credited only if the provider took the customer's money,
\* although confirmTopup acts on what some earlier call announced.
CreditNeedsDebit == \A k \in Keys : credits[k] > 0 => verdict[k] = "ACCEPTED"

\* A transaction that is marked SUCCESS did credit the wallet
SuccessIsCredited == \A k \in Keys : tx[k].status = "SUCCESS" => credits[k] > 0

\* A transaction is credited once ("jamais 2 credits")
CreditedOnce == \A k \in Keys : credits[k] <= 1

\* Money the provider took reaches the wallet, whatever overlaps, crashes or
\* is repeated, unless the provider announced a TIMEOUT before its verdict
\* (the webhook then stores FAILED) or the wallet is frozen.
DebitIsCredited ==
  \A k \in Keys : verdict[k] = "ACCEPTED"
    ~> credits[k] > 0 \/ "TIMEOUT" \in sent[k] \/ frozen[tx[k].user]

\* A wallet is credited only for money the provider took, and SUCCESS is never shown
\* without a credit, whatever calls overlap, repeat or die
TopupSafety == TopupTypeOK /\ CreditNeedsDebit /\ SuccessIsCredited

=============================================================================
