---------------------------- MODULE EscrowLedger ----------------------------
(***************************************************************************)
(* The escrow half of FinanceService: the wallets, the PAYIN transactions, *)
(* the escrow_conditions rows and the listing stock that a confirmed       *)
(* payment takes.                                                          *)
(*                                                                         *)
(* Every handler that moves escrowed money reads the rows it will settle   *)
(* OUTSIDE the database transaction that settles them, so each is two      *)
(* steps here: a read, which copies what it saw into call[p], and a        *)
(* commit, which is one database transaction (it locks the buyer's wallet  *)
(* first, so two commits on one buyer are serialised) and works on that    *)
(* copy.  A commit that would break CHECK (balance >= 0) or                *)
(* CHECK (balance_escrow >= 0) rolls back.                                 *)
(*                                                                         *)
(* A request p is in one of the Steps; when a finance method returns it    *)
(* resumes its caller at call[p].then, when it throws at call[p].catch.    *)
(* The callers (orders, logistics, the admin) are an environment here: the *)
(* action Caller may start any method on any order at any time and write   *)
(* any order status, which OrderFlow narrows to what the code does.        *)
(*                                                                         *)
(* Money is in hundredths of a franc, as Decimal(.., 2) keeps it.          *)
(***************************************************************************)
EXTENDS Integers, FiniteSets, Functions

CONSTANTS
  Users,        \* wallet owners
  Treasury,     \* TREASURY_USER_ID, the platform's own wallet
  NoUser,       \* beneficiary_id = null
  Transporters, \* the users with the transporter role
  Orders,       \* commandes_vente
  NoOrder,
  Payins,       \* PAYIN transactions; their number bounds the payments
  NoPayin,
  Listings,     \* annonces_vente and publications_stock_coop
  Procs,        \* requests in flight
  CallerSteps,  \* where a caller resumes; "idle" is one of them
  Args, NoArg,  \* what a caller's own step works on (a user, a dispute)
  Buyer, Seller, Listing, Quantity, Goods, Carriage,  \* by order
  InitialKg,    \* by listing
  FeePct,       \* SERVICE_FEE_PRODUCT and SERVICE_FEE_TRANSPORT, in percent
  Splits,       \* the buyer_pct a dispute may be resolved with, in percent
  Amounts,      \* the sums a user may withdraw
  Cashers,      \* the users who withdraw or send a batch
  StatusWrites, \* the statuses the callers of a run write
  MaxKg         \* bound on the stock a caller may put back

Kinds == {"PRODUCT", "TRANSPORT"}
OrderStatus == {"SENT", "ACCEPTED", "REJECTED", "IN_PROGRESS", "DELIVERED",
                "COMPLETED", "CANCELLED", "DISPUTED"}
RowStatus == {"NONE", "LOCKED", "RELEASED", "REFUNDED"}
FinanceSteps == {"payin", "confirm", "release", "releaseCommit",
                 "refund", "refundCommit", "split", "splitCommit"}
Steps == FinanceSteps \cup CallerSteps
Rows == Payins \X Kinds

\* A database holds finitely many rows, so the sets that index the sums are finite
ASSUME LedgerAssumption ==
  /\ IsFiniteSet(Users) /\ IsFiniteSet(Orders) /\ IsFiniteSet(Payins)
  /\ Treasury \in Users /\ NoUser \notin Users
  /\ Transporters \subseteq Users \ {Treasury}
  /\ NoOrder \notin Orders /\ NoPayin \notin Payins
  /\ "idle" \in CallerSteps /\ CallerSteps \cap FinanceSteps = {}
  /\ Buyer \in [Orders -> Users \ {Treasury}]
  /\ Seller \in [Orders -> Users \ {Treasury}]
  /\ \A o \in Orders : Buyer[o] # Seller[o]
  /\ Listing \in [Orders -> Listings]
  /\ Quantity \in [Orders -> Nat \ {0}]
  /\ Goods \in [Orders -> Nat] /\ Carriage \in [Orders -> Nat]
  /\ InitialKg \in [Listings -> Nat]
  /\ FeePct \in 0..100 /\ Splits \subseteq 0..100
  /\ Amounts \subseteq Nat \ {0}
  /\ Cashers \subseteq Users /\ StatusWrites \subseteq OrderStatus
  /\ MaxKg \in Nat

VARIABLES
  wallet,      \* [Users -> [balance, escrow]]: wallets.balance, .balance_escrow
  order,       \* commandes_vente.status
  payin,       \* transactions of type PAYIN: which order, which status
  escrow,      \* escrow_conditions, at most one row per payin and kind
  listing,     \* quantite_kg, and whether the listing is offered for sale
  withdrawn,   \* sum of the PAYOUT transactions with a provider_ref
  call         \* the requests in flight

ledgerVars == <<wallet, order, payin, escrow, listing, withdrawn, call>>

-----------------------------------------------------------------------------
(* What the rows hold and how a sum is shared                              *)

\* x.times(pct).toDecimalPlaces(2): Decimal rounds half up
Pct(x, pct) == (x * pct + 50) \div 100

RowAmount(r) ==
  LET o == payin[r[1]].order
  IN  IF r[2] = "PRODUCT" THEN Goods[o] ELSE Carriage[o]

RowFee(r) == Pct(RowAmount(r), FeePct)

Total(rows) == SumFunction([r \in rows |-> RowAmount(r)])

RowsOf(o) == {r \in Rows : payin[r[1]].order = o}
LockedRows(o) == {r \in RowsOf(o) : escrow[r].status = "LOCKED"}

Payable(i) == Goods[payin[i].order] + Carriage[payin[i].order]

-----------------------------------------------------------------------------
(* The control of a request                                                *)

Idle == [at |-> "idle", order |-> NoOrder, payin |-> NoPayin, kinds |-> {},
         rows |-> {}, seen |-> "SENT", pct |-> 0, arg |-> NoArg,
         then |-> "idle", catch |-> "idle"]

\* What a caller passes to a finance method
Request(step, o, kinds, pct, then, catch) ==
  [Idle EXCEPT !.at = step, !.order = o, !.kinds = kinds, !.pct = pct,
               !.then = then, !.catch = catch]

\* The request goes on at step, in the same handler; at "idle" it is over
Resume(p, step) ==
  call' = [call EXCEPT ![p] = IF step = "idle" THEN Idle
                              ELSE [Idle EXCEPT !.at = step, !.order = call[p].order]]
Return(p) == Resume(p, call[p].then)
Throw(p)  == Resume(p, call[p].catch)

\* Mutant: the query forgets status = 'LOCKED'
SnapshotOfAll(o, kinds) ==
  {[row |-> r, benef |-> escrow[r].benef] : r \in {x \in RowsOf(o) : x[2] \in kinds}}

\* A snapshot of the LOCKED rows of the wanted kinds, with their beneficiaries
Snapshot(o, kinds) ==
  {[row |-> r, benef |-> escrow[r].benef] :
     r \in {x \in LockedRows(o) : x[2] \in kinds}}

RowsIn(snapshot) == {s.row : s \in snapshot}

Settle(rows, status) ==
  escrow' = [r \in Rows |->
               IF r \in rows THEN [escrow[r] EXCEPT !.status = status]
               ELSE escrow[r]]

\* The wallets after the buyer's escrow is debited and each user credited
Pay(buyer, debit, Credit(_)) ==
  wallet' = [u \in Users |->
    [balance |-> wallet[u].balance + Credit(u),
     escrow  |-> wallet[u].escrow - (IF u = buyer THEN debit ELSE 0)]]

-----------------------------------------------------------------------------
(* Paying an order in                                                      *)

\* Mutant: a PENDING transaction of an earlier attempt is used again
ProcessPayinReusing(p) ==
  /\ call[p].at = "payin"
  /\ order[call[p].order] = "SENT"
  /\ \E i \in Payins :
       /\ payin[i].status # "ESCROW"
       /\ payin' = [payin EXCEPT ![i] = [order |-> call[p].order, status |-> "PENDING"]]
       /\ call' = [call EXCEPT ![p].at = "confirm", ![p].payin = i]
  /\ UNCHANGED <<wallet, order, escrow, listing, withdrawn>>

\* processPayin: the order must still be SENT; a PENDING transaction is
\* written, then confirmPayment is called with it.
ProcessPayin(p) ==
  /\ call[p].at = "payin"
  /\ order[call[p].order] = "SENT"
  /\ \E i \in Payins :
       /\ payin[i].status = "NONE"
       /\ payin' = [payin EXCEPT ![i] = [order |-> call[p].order, status |-> "PENDING"]]
       /\ call' = [call EXCEPT ![p].at = "confirm", ![p].payin = i]
  /\ UNCHANGED <<wallet, order, escrow, listing, withdrawn>>

\* The order is no longer SENT, the payment method is not the buyer's, or the
\* wallet is frozen: the method throws before it writes.
RefusePayin(p) ==
  /\ call[p].at = "payin"
  /\ Throw(p)
  /\ UNCHANGED <<wallet, order, payin, escrow, listing, withdrawn>>

\* Mutant: the rows are made but the transaction stays PENDING
ConfirmPaymentUnmarked(p) ==
  LET i == call[p].payin
      o == call[p].order
  IN
  /\ call[p].at = "confirm" /\ listing[Listing[o]].kg >= Quantity[o]
  /\ listing' = [listing EXCEPT ![Listing[o]].kg = @ - Quantity[o]]
  /\ wallet' = [wallet EXCEPT ![Buyer[o]].escrow = @ + Payable(i)]
  /\ escrow' = [r \in Rows |-> IF r[1] = i THEN [status |-> "LOCKED", benef |-> Seller[o]]
                               ELSE escrow[r]]
  /\ order' = [order EXCEPT ![o] = "ACCEPTED"]
  /\ Return(p)
  /\ UNCHANGED <<payin, withdrawn>>

\* confirmPayment: one database transaction takes the stock, credits the
\* buyer's escrow, creates the LOCKED rows and makes the order ACCEPTED,
\* whatever its status has become since processPayin read it.
ConfirmPayment(p) ==
  LET i == call[p].payin
      o == call[p].order
      l == Listing[o]
      left == listing[l].kg - Quantity[o]
  IN
  /\ call[p].at = "confirm"
  /\ payin[i].status = "PENDING"
  /\ left >= 0
  /\ listing' = [listing EXCEPT ![l] = [kg |-> left, open |-> @.open /\ left # 0]]
  /\ payin' = [payin EXCEPT ![i].status = "ESCROW"]
  /\ wallet' = [wallet EXCEPT ![Buyer[o]].escrow = @ + Payable(i)]
  /\ escrow' = [r \in Rows |->
       IF r[1] = i /\ (r[2] = "PRODUCT" \/ Carriage[o] > 0)
       THEN [status |-> "LOCKED",
             benef |-> IF r[2] = "PRODUCT" THEN Seller[o] ELSE NoUser]
       ELSE escrow[r]]
  /\ order' = [order EXCEPT ![o] = "ACCEPTED"]
  /\ Return(p)
  /\ UNCHANGED withdrawn

\* Mutant: the PAYIN is marked before the stock is tested, outside the transaction
StockGoneMarked(p) ==
  LET o == call[p].order IN
  /\ call[p].at = "confirm"
  /\ listing[Listing[o]].kg < Quantity[o]
  /\ payin' = [payin EXCEPT ![call[p].payin].status = "ESCROW"]
  /\ Throw(p)
  /\ UNCHANGED <<wallet, order, escrow, listing, withdrawn>>

\* The stock was sold meanwhile: the transaction rolls back and the PAYIN
\* stays PENDING.
StockGone(p) ==
  LET o == call[p].order IN
  /\ call[p].at = "confirm"
  /\ listing[Listing[o]].kg < Quantity[o]
  /\ Throw(p)
  /\ UNCHANGED <<wallet, order, payin, escrow, listing, withdrawn>>

-----------------------------------------------------------------------------
(* Releasing to the beneficiaries                                          *)

\* releaseEscrow, before its transaction: the order and its LOCKED rows
ReadRelease(p) ==
  LET found == Snapshot(call[p].order, call[p].kinds) IN
  /\ call[p].at = "release"
  /\ found # {}
  /\ call' = [call EXCEPT ![p].at = "releaseCommit", ![p].rows = found,
                          ![p].seen = order[call[p].order]]
  /\ UNCHANGED <<wallet, order, payin, escrow, listing, withdrawn>>

NothingToRelease(p) ==
  /\ call[p].at = "release"
  /\ Snapshot(call[p].order, call[p].kinds) = {}
  /\ Throw(p)
  /\ UNCHANGED <<wallet, order, payin, escrow, listing, withdrawn>>

\* Mutant: no CHECK (balance_escrow >= 0)
ReleasableUnchecked(p) == \A s \in call[p].rows : s.benef # NoUser

\* Mutant: a row without a beneficiary is not refused
ReleasableToNobody(p) == wallet[Buyer[call[p].order]].escrow >= Total(RowsIn(call[p].rows))

\* No beneficiary is missing and no CHECK constraint would fail
Releasable(p) ==
  /\ \A s \in call[p].rows : s.benef # NoUser
  /\ wallet[Buyer[call[p].order]].escrow >= Total(RowsIn(call[p].rows))

\* Mutant: an updateMany on the order releases its settled rows too
CommitReleaseOfAll(p) ==
  LET o == call[p].order
      Due(u) == SumFunction([s \in call[p].rows |->
                  (IF s.benef = u THEN RowAmount(s.row) - RowFee(s.row) ELSE 0)
                  + (IF u = Treasury THEN RowFee(s.row) ELSE 0)])
  IN
  /\ call[p].at = "releaseCommit" /\ Releasable(p)
  /\ Pay(Buyer[o], Total(RowsIn(call[p].rows)), Due)
  /\ Settle(RowsOf(o), "RELEASED")
  /\ order' = [order EXCEPT ![o] = "COMPLETED"]
  /\ Return(p)
  /\ UNCHANGED <<payin, listing, withdrawn>>

\* The transaction of releaseEscrow: each row of the copy pays its
\* beneficiary the amount less the fee and the treasury the fee; with no row
\* left LOCKED the order becomes COMPLETED.
CommitRelease(p) ==
  LET o == call[p].order
      rows == RowsIn(call[p].rows)
      Due(u) == SumFunction([s \in call[p].rows |->
                  (IF s.benef = u THEN RowAmount(s.row) - RowFee(s.row) ELSE 0)
                  + (IF u = Treasury THEN RowFee(s.row) ELSE 0)])
  IN
  /\ call[p].at = "releaseCommit"
  /\ Releasable(p)
  /\ Pay(Buyer[o], Total(rows), Due)
  /\ Settle(rows, "RELEASED")
  /\ order' = IF LockedRows(o) \subseteq rows /\ call[p].seen # "COMPLETED"
              THEN [order EXCEPT ![o] = "COMPLETED"] ELSE order
  /\ Return(p)
  /\ UNCHANGED <<payin, listing, withdrawn>>

\* A row has no beneficiary, or the escrow column would become negative
AbortRelease(p) ==
  /\ call[p].at = "releaseCommit"
  /\ ~Releasable(p)
  /\ Throw(p)
  /\ UNCHANGED <<wallet, order, payin, escrow, listing, withdrawn>>

-----------------------------------------------------------------------------
(* Refunding the buyer, wholly or in part                                  *)

\* refundBuyer and partialRefund, before their transactions; with nothing
\* LOCKED they return at once.
ReadRefund(p) ==
  LET found == Snapshot(call[p].order, Kinds) IN
  /\ call[p].at \in {"refund", "split"}
  /\ IF found = {} THEN Return(p)
     ELSE call' = [call EXCEPT
            ![p].at = IF @ = "refund" THEN "refundCommit" ELSE "splitCommit",
            ![p].rows = found]
  /\ UNCHANGED <<wallet, order, payin, escrow, listing, withdrawn>>

\* Mutant: the balance is credited, balance_escrow is not debited
CommitRefundKeeping(p) ==
  LET o == call[p].order
      rows == RowsIn(call[p].rows)
      Back(u) == IF u = Buyer[o] THEN Total(rows) ELSE 0
  IN
  /\ call[p].at = "refundCommit" /\ wallet[Buyer[o]].escrow >= Total(rows)
  /\ Pay(Buyer[o], 0, Back)
  /\ Settle(rows, "REFUNDED")
  /\ Return(p)
  /\ UNCHANGED <<order, payin, listing, withdrawn>>

\* Mutant: the money moves, the rows stay LOCKED
CommitRefundUnmarked(p) ==
  LET o == call[p].order
      rows == RowsIn(call[p].rows)
      Back(u) == IF u = Buyer[o] THEN Total(rows) ELSE 0
  IN
  /\ call[p].at = "refundCommit" /\ wallet[Buyer[o]].escrow >= Total(rows)
  /\ Pay(Buyer[o], Total(rows), Back)
  /\ Return(p)
  /\ UNCHANGED <<order, payin, escrow, listing, withdrawn>>

\* The transaction of refundBuyer: the escrowed sum becomes balance again
CommitRefund(p) ==
  LET o == call[p].order
      rows == RowsIn(call[p].rows)
      Back(u) == IF u = Buyer[o] THEN Total(rows) ELSE 0
  IN
  /\ call[p].at = "refundCommit"
  /\ wallet[Buyer[o]].escrow >= Total(rows)
  /\ Pay(Buyer[o], Total(rows), Back)
  /\ Settle(rows, "REFUNDED")
  /\ Return(p)
  /\ UNCHANGED <<order, payin, listing, withdrawn>>

\* The rows partialRefund splits: those with a beneficiary, the others are
\* skipped and stay LOCKED.
Splittable(p) == {s \in call[p].rows : s.benef # NoUser}

\* Mutant: the skipped rows are marked RELEASED like the others
CommitSplitOfAll(p) ==
  LET o == call[p].order
      rows == RowsIn(Splittable(p))
      Refunded(s) == Pct(RowAmount(s.row), call[p].pct)
      Gross(s) == RowAmount(s.row) - Refunded(s)
      Share(u) == SumFunction([s \in Splittable(p) |->
                    (IF u = Buyer[o] THEN Refunded(s) ELSE 0)
                    + (IF u = s.benef THEN Gross(s) ELSE 0)])
  IN
  /\ call[p].at = "splitCommit" /\ wallet[Buyer[o]].escrow >= Total(rows)
  /\ Pay(Buyer[o], Total(rows), Share)
  /\ Settle(RowsIn(call[p].rows), "RELEASED")
  /\ Return(p)
  /\ UNCHANGED <<order, payin, listing, withdrawn>>

\* The transaction of partialRefund: buyer_pct of each row returns to the
\* buyer, the rest goes to the beneficiary less the product fee.
CommitSplit(p) ==
  LET o == call[p].order
      rows == RowsIn(Splittable(p))
      Refunded(s) == Pct(RowAmount(s.row), call[p].pct)
      Gross(s) == RowAmount(s.row) - Refunded(s)
      Fee(s) == Pct(Gross(s), FeePct)
      Share(u) == SumFunction([s \in Splittable(p) |->
                    (IF u = Buyer[o] THEN Refunded(s) ELSE 0)
                    + (IF u = s.benef THEN Gross(s) - Fee(s) ELSE 0)
                    + (IF u = Treasury THEN Fee(s) ELSE 0)])
  IN
  /\ call[p].at = "splitCommit"
  /\ wallet[Buyer[o]].escrow >= Total(rows)
  /\ Pay(Buyer[o], Total(rows), Share)
  /\ Settle(rows, "RELEASED")
  /\ Return(p)
  /\ UNCHANGED <<order, payin, listing, withdrawn>>

\* Mutant: what failed is put back by hand, over what others settled meanwhile
AbortRefundReopening(p) ==
  /\ call[p].at = "refundCommit"
  /\ wallet[Buyer[call[p].order]].escrow < Total(RowsIn(call[p].rows))
  /\ Settle(RowsIn(call[p].rows), "LOCKED")
  /\ Throw(p)
  /\ UNCHANGED <<wallet, order, payin, listing, withdrawn>>

\* CHECK (balance_escrow >= 0) fails and the transaction rolls back
AbortRefund(p) ==
  /\ \/ /\ call[p].at = "refundCommit"
        /\ wallet[Buyer[call[p].order]].escrow < Total(RowsIn(call[p].rows))
     \/ /\ call[p].at = "splitCommit"
        /\ wallet[Buyer[call[p].order]].escrow < Total(RowsIn(Splittable(p)))
  /\ Throw(p)
  /\ UNCHANGED <<wallet, order, payin, escrow, listing, withdrawn>>

-----------------------------------------------------------------------------
(* One-transaction methods                                                 *)

\* assignTransportEscrowBeneficiary: an updateMany on the LOCKED TRANSPORT
\* rows without a beneficiary; it may find none.
Assigned(o, t) ==
  [r \in Rows |->
     IF r \in LockedRows(o) /\ r[2] = "TRANSPORT" /\ escrow[r].benef = NoUser
     THEN [escrow[r] EXCEPT !.benef = t] ELSE escrow[r]]

\* cancelShipment's updateMany: transporter t is taken off the LOCKED row
Unassigned(o, t) ==
  [r \in Rows |->
     IF r \in LockedRows(o) /\ r[2] = "TRANSPORT" /\ escrow[r].benef = t
     THEN [escrow[r] EXCEPT !.benef = NoUser] ELSE escrow[r]]

\* processPayout: the balance is checked again under the row lock
ProcessPayout(u, amount) ==
  /\ wallet[u].balance >= amount
  /\ wallet' = [wallet EXCEPT ![u].balance = @ - amount]
  /\ withdrawn' = withdrawn + amount
  /\ UNCHANGED <<order, payin, escrow, listing, call>>

\* Mutant: an item for the initiator is added to the balance read before the debit
CreatePayoutBatchStale(u, share) ==
  LET total == SumFunction(share)
      debited == [wallet EXCEPT ![u].balance = @ - total]
  IN
  /\ total > 0 /\ wallet[u].balance >= total
  /\ wallet' = [v \in Users |->
                  IF share[v] > 0 THEN [wallet[v] EXCEPT !.balance = @ + share[v]]
                  ELSE debited[v]]
  /\ UNCHANGED <<order, payin, escrow, listing, withdrawn, call>>

\* createPayoutBatch: the initiator is debited the sum of the items, then
\* every item is credited; share[v] is the sum of v's items.
CreatePayoutBatch(u, share) ==
  LET total == SumFunction(share)
      debited == [wallet EXCEPT ![u].balance = @ - total]
  IN
  /\ total > 0 /\ wallet[u].balance >= total
  /\ wallet' = [v \in Users |->
                  [debited[v] EXCEPT !.balance = @ + share[v]]]
  /\ UNCHANGED <<order, payin, escrow, listing, withdrawn, call>>

-----------------------------------------------------------------------------
(* The callers, and the specification                                      *)

\* A method is started with what the callers pass: all rows, or one kind
\* (scanPickup, the admin), and where the request goes on after it.
Start(p, steps) ==
  \E o \in Orders, t \in steps, c \in steps :
    \/ call' = [call EXCEPT ![p] = Request("payin", o, {}, 0, t, c)]
    \/ \E kinds \in {Kinds, {"PRODUCT"}, {"TRANSPORT"}} :
         call' = [call EXCEPT ![p] = Request("release", o, kinds, 0, t, c)]
    \/ call' = [call EXCEPT ![p] = Request("refund", o, {}, 0, t, c)]
    \/ \E pct \in Splits :
         call' = [call EXCEPT ![p] = Request("split", o, {}, pct, t, c)]

\* The caller goes on by itself, with or without an order
GoOnAlone(p, steps) ==
  \E t \in steps, o \in Orders \cup {NoOrder} :
    call' = [call EXCEPT ![p] = [Idle EXCEPT !.at = t, !.order = o]]

\* A listing that got an order's quantity back (restoreStockInTx)
Restocked(o) ==
  [listing EXCEPT ![Listing[o]] = [kg |-> @.kg + Quantity[o], open |-> TRUE]]

\* Any caller: it writes any order status, may put stock back, and starts a
\* method of this module or goes on by itself.
Caller(p) ==
  /\ call[p].at \in CallerSteps
  /\ \E o \in Orders, s \in StatusWrites :
       /\ order' = [order EXCEPT ![o] = s]
       /\ \/ listing' = listing
          \/ /\ listing[Listing[o]].kg + Quantity[o] <= MaxKg
             /\ listing' = Restocked(o)
  /\ Start(p, CallerSteps) \/ GoOnAlone(p, CallerSteps)
  /\ UNCHANGED <<wallet, payin, escrow, withdrawn>>

Assign(o, t) ==
  /\ escrow' = Assigned(o, t)
  /\ UNCHANGED <<wallet, order, payin, listing, withdrawn, call>>

Unassign(o, t) ==
  /\ escrow' = Unassigned(o, t)
  /\ UNCHANGED <<wallet, order, payin, listing, withdrawn, call>>

\* The Node process dies: the request is gone, committed writes stay
Crash(p) ==
  /\ call[p].at # "idle"
  /\ Resume(p, "idle")
  /\ UNCHANGED <<wallet, order, payin, escrow, listing, withdrawn>>

LedgerInit ==
  /\ wallet = [u \in Users |-> [balance |-> 0, escrow |-> 0]]
  /\ order = [o \in Orders |-> "SENT"]
  /\ payin = [i \in Payins |-> [order |-> NoOrder, status |-> "NONE"]]
  /\ escrow = [r \in Rows |-> [status |-> "NONE", benef |-> NoUser]]
  /\ listing = [l \in Listings |-> [kg |-> InitialKg[l], open |-> TRUE]]
  /\ withdrawn = 0
  /\ call = [p \in Procs |-> Idle]

\* The steps of the finance methods themselves
Finance(p) ==
  \/ ProcessPayin(p) \/ RefusePayin(p) \/ ConfirmPayment(p) \/ StockGone(p)
  \/ ReadRelease(p) \/ NothingToRelease(p) \/ CommitRelease(p) \/ AbortRelease(p)
  \/ ReadRefund(p) \/ CommitRefund(p) \/ CommitSplit(p) \/ AbortRefund(p)

Cash ==
  \/ \E u \in Cashers, a \in Amounts : ProcessPayout(u, a)
  \/ \E u \in Cashers, v \in Users, a \in Amounts :
       CreatePayoutBatch(u, [w \in Users |-> IF w = v THEN a ELSE 0])

LedgerNext ==
  \/ \E p \in Procs : Finance(p) \/ Caller(p) \/ Crash(p)
  \/ \E o \in Orders, t \in Transporters : Assign(o, t) \/ Unassign(o, t)
  \/ Cash

LedgerSpec == LedgerInit /\ [][LedgerNext]_ledgerVars

-----------------------------------------------------------------------------
(* Properties                                                              *)

Snapshots == [row : Rows, benef : Users \cup {NoUser}]

\* Types.  That the wallet columns are naturals is the CHECK constraints'
\* promise: no interleaving of reads and commits overdraws a wallet.
TypeOK ==
  /\ wallet \in [Users -> [balance : Nat, escrow : Nat]]
  /\ order \in [Orders -> OrderStatus]
  /\ payin \in [Payins -> [order : Orders \cup {NoOrder},
                           status : {"NONE", "PENDING", "ESCROW"}]]
  /\ escrow \in [Rows -> [status : RowStatus, benef : Users \cup {NoUser}]]
  /\ listing \in [Listings -> [kg : Nat, open : BOOLEAN]]
  /\ withdrawn \in Nat
  /\ call \in [Procs -> [at : Steps, order : Orders \cup {NoOrder},
                         payin : Payins \cup {NoPayin}, kinds : SUBSET Kinds,
                         rows : SUBSET Snapshots, seen : OrderStatus,
                         pct : 0..100, arg : Args \cup {NoArg},
                         then : CallerSteps, catch : CallerSteps]]

\* reconcile(): the sum of the wallets less what came in by PAYIN and went
\* out by PAYOUT
Drift ==
  SumFunction([u \in Users |-> wallet[u].balance + wallet[u].escrow])
  - (SumFunction([i \in {j \in Payins : payin[j].status = "ESCROW"} |-> Payable(i)])
     - withdrawn)

\* Conservation: with payins and payouts only, reconcile() never reports a
\* drift, whatever requests interleave, roll back or die half-way.
NoDrift == Drift = 0

\* No money is stranded in escrow: every franc of a balance_escrow is claimed
\* by a LOCKED row of one of that user's orders, so some settlement can free
\* it.  (The converse fails when two settlements race: see SettledOnce.)
EscrowBacked ==
  \A u \in Users :
    wallet[u].escrow <=
      SumFunction([o \in Orders |-> IF Buyer[o] = u THEN Total(LockedRows(o)) ELSE 0])

\* Every LOCKED row is covered by the buyer's balance_escrow
EscrowCovered ==
  \A u \in Users :
    wallet[u].escrow >=
      SumFunction([o \in Orders |-> IF Buyer[o] = u THEN Total(LockedRows(o)) ELSE 0])

\* A PAYIN is confirmed by the request that created it and by no other, so it
\* credits the escrow once: confirmPayment tests PENDING outside its
\* transaction and relies on this.
OneConfirmer ==
  /\ \A p, q \in Procs :
       call[p].at = "confirm" /\ call[q].at = "confirm" /\ p # q
         => call[p].payin # call[q].payin
  /\ \A p \in Procs : call[p].at = "confirm" =>
       /\ call[p].payin \in Payins
       /\ payin[call[p].payin] = [order |-> call[p].order, status |-> "PENDING"]

\* Escrow rows exist exactly for the confirmed payins: no row without money
\* taken, no money taken without its PRODUCT row.
RowsFollowPayin ==
  \A r \in Rows :
    /\ escrow[r].status # "NONE" => payin[r[1]].status = "ESCROW"
    /\ payin[r[1]].status = "ESCROW" /\ r[2] = "PRODUCT" => escrow[r].status # "NONE"

\* Whatever a request carries to its commit are rows of its own order that
\* were created: a settlement never touches the rows of another order.
OwnRows ==
  \A p \in Procs : \A s \in call[p].rows :
    payin[s.row[1]].order = call[p].order /\ escrow[s.row].status # "NONE"

\* A settled row is final: released or refunded once, it is never settled
\* again nor locked again.
SettledOnce ==
  [][\A r \in Rows : escrow[r].status \in {"RELEASED", "REFUNDED"}
       => escrow'[r].status = escrow[r].status]_ledgerVars

\* A row as the claim it is in Settlement
ClaimOf(r) ==
  CASE escrow[r].status = "NONE" -> "none"
    [] escrow[r].status = "LOCKED" -> "open"
    [] OTHER -> "closed"

Settled == INSTANCE Settlement WITH
  Payments <- Payins,
  owner <- [i \in Payins |-> payin[i].order],
  taken <- {i \in Payins : payin[i].status = "ESCROW"},
  claim <- [r \in Rows |-> ClaimOf(r)]

\* The methods that read first and commit later, interleaved, rolled back or dead half-way,
\* do to a payment what Settlement says: one order, taken once, claims opened then and
\* closed by settlements of that order, none of them opened again.
Implements == Settled!Spec

\* No wallet is overdrawn, no money appears or vanishes, and none is stranded in escrow,
\* whatever reads and commits of requests interleave, roll back or die half-way
LedgerSound == TypeOK /\ NoDrift /\ EscrowBacked

\* A payment has one confirmer and its rows exactly when its money was taken, and whoever
\* settles carries rows of its own order
LedgerKept == OneConfirmer /\ RowsFollowPayin /\ OwnRows

=============================================================================
