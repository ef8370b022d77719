-------------------------- MODULE OrderFlowProofs ---------------------------
(***************************************************************************)
(* What is proved of an order, its money and its mission: the ledger of    *)
(* the wallets and escrows, for any number of users, orders and amounts,   *)
(* then the requests that move them.                                       *)
(***************************************************************************)
EXTENDS OrderFlow, SumLemmas

-----------------------------------------------------------------------------
(***************************************************************************)
(* For any number of users, orders, payments and requests.                 *)
(*                                                                         *)
(* The control: a payment is confirmed by one request, its escrow rows     *)
(* exist exactly when it was confirmed, and a settlement works on rows of  *)
(* its own order.  None of these speaks of sums, so their inductive        *)
(* invariant Inv does not either: Shape is the part of TypeOK it needs,    *)
(* with nothing said about the wallets.  With it the ledger implements     *)
(* Settlement.                                                             *)
(*                                                                         *)
(* The money: no wallet is overdrawn, what the wallets hold is what was    *)
(* taken in less what was paid out (NoDrift), and no franc of a            *)
(* balance_escrow is without a LOCKED row that claims it (EscrowBacked). A *)
(* commit debits the total of the rows it copied and credits shares of     *)
(* each: that the shares add up to the total needs the copy to have one    *)
(* entry for a row (Copied).  That the buyer's escrow loses no less than   *)
(* the claims do needs the rows to be of one order (OwnRows): a row that   *)
(* another request settled meanwhile only makes the debit larger than the  *)
(* claims that end.                                                        *)
(***************************************************************************)

Call == [at : Steps, order : Orders \cup {NoOrder}, payin : Payins \cup {NoPayin},
         kinds : SUBSET Kinds, rows : SUBSET Snapshots, seen : OrderStatus,
         pct : 0..100, arg : Args \cup {NoArg},
         then : CallerSteps, catch : CallerSteps]

Shape ==
  /\ payin \in [Payins -> [order : Orders \cup {NoOrder},
                           status : {"NONE", "PENDING", "ESCROW"}]]
  /\ escrow \in [Rows -> [status : RowStatus, benef : Users \cup {NoUser}]]
  /\ order \in [Orders -> OrderStatus]
  /\ call \in [Procs -> Call]

\* A request that is confirming or settling is about an order
AboutAnOrder == \A p \in Procs : call[p].at \in FinanceSteps => call[p].order \in Orders

Inv == Shape /\ AboutAnOrder /\ OneConfirmer /\ RowsFollowPayin /\ OwnRows

\* A request about an order that is not confirming and carries no rows
Fresh(c) == c \in Call /\ c.rows = {} /\ c.at # "confirm" /\ c.order \in Orders

\* p's request changed to one that confirms nothing and carries no rows
Calmly(p) ==
  /\ call' \in [Procs -> Call]
  /\ call'[p].at # "confirm" /\ call'[p].rows = {}
  /\ call'[p].at \in FinanceSteps => call'[p].order \in Orders
  /\ \A q \in Procs \ {p} : call'[q] = call[q]

\* Whoever moved, if anybody did, moved so
AllCalm ==
  /\ call' \in [Procs -> Call]
  /\ \A q \in Procs :
       \/ call'[q] = call[q]
       \/ /\ call'[q].at # "confirm" /\ call'[q].rows = {}
          /\ call'[q].at \in FinanceSteps => call'[q].order \in Orders

-----------------------------------------------------------------------------
(* Lemmas about the operators                                              *)

\* A request at rest has the shape of a request
LEMMA IdleType == Idle \in Call
  BY LedgerAssumption DEF Idle, Call, Steps, OrderStatus

\* Resuming a caller, by return or by throw, is calm
LEMMA ResumeCalm ==
  ASSUME Shape, NEW p \in Procs, NEW step \in CallerSteps, Resume(p, step)
  PROVE  Calmly(p)
<1> DEFINE new == IF step = "idle" THEN Idle
                  ELSE [Idle EXCEPT !.at = step, !.order = call[p].order]
<1>1. call' = [call EXCEPT ![p] = new]
  BY DEF Resume
<1>2. step \in Steps /\ step \notin FinanceSteps /\ call[p].order \in Orders \cup {NoOrder}
  BY LedgerAssumption DEF Shape, Call, Steps
<1>3. new \in Call /\ new.rows = {} /\ new.at = step
  BY <1>2, IdleType DEF Idle, Call
<1>4. "confirm" \in FinanceSteps
  BY DEF FinanceSteps
<1> QED
  BY <1>1, <1>2, <1>3, <1>4 DEF Shape, Calmly

\* The request a caller makes is well-formed
LEMMA RequestType ==
  ASSUME NEW step \in {"payin", "release", "refund", "split"}, NEW o \in Orders,
         NEW kinds \in SUBSET Kinds, NEW pct \in 0..100,
         NEW t \in CallerSteps, NEW u \in CallerSteps
  PROVE  Fresh(Request(step, o, kinds, pct, t, u))
<1>1. step \in Steps
  BY DEF Steps, FinanceSteps
<1> QED
  BY <1>1, IdleType DEF Request, Idle, Call, Fresh

\* A caller starts a method with a request that is not yet confirming
LEMMA StartCalm ==
  ASSUME Shape, NEW p \in Procs, Start(p, CallerSteps)
  PROVE  Calmly(p)
<1>1. /\ Splits \subseteq 0..100 /\ 0 \in 0..100
      /\ {} \in SUBSET Kinds
      /\ {Kinds, {"PRODUCT"}, {"TRANSPORT"}} \subseteq SUBSET Kinds
  BY LedgerAssumption DEF Kinds
<1>2. ASSUME NEW c, Fresh(c), call' = [call EXCEPT ![p] = c]
      PROVE  Calmly(p)
  BY <1>2 DEF Shape, Fresh, Calmly
<1>3. PICK o \in Orders, t \in CallerSteps, c \in CallerSteps :
        \/ call' = [call EXCEPT ![p] = Request("payin", o, {}, 0, t, c)]
        \/ \E kinds \in {Kinds, {"PRODUCT"}, {"TRANSPORT"}} :
             call' = [call EXCEPT ![p] = Request("release", o, kinds, 0, t, c)]
        \/ call' = [call EXCEPT ![p] = Request("refund", o, {}, 0, t, c)]
        \/ \E pct \in Splits :
             call' = [call EXCEPT ![p] = Request("split", o, {}, pct, t, c)]
  BY DEF Start
<1>4. PICK step \in {"payin", "release", "refund", "split"},
           kinds \in SUBSET Kinds, pct \in 0..100 :
        call' = [call EXCEPT ![p] = Request(step, o, kinds, pct, t, c)]
  BY <1>1, <1>3
<1> QED BY <1>2, <1>4, RequestType

\* A caller that goes on by itself is at no step of a method
LEMMA AloneCalm ==
  ASSUME Shape, NEW p \in Procs, GoOnAlone(p, CallerSteps)
  PROVE  Calmly(p)
<1>1. PICK t \in CallerSteps, o \in Orders \cup {NoOrder} :
        call' = [call EXCEPT ![p] = [Idle EXCEPT !.at = t, !.order = o]]
  BY DEF GoOnAlone
<1> DEFINE c == [Idle EXCEPT !.at = t, !.order = o]
<1>2. c \in Call /\ c.at = t /\ c.rows = {}
  BY IdleType DEF Idle, Call, Steps
<1>3. t \notin FinanceSteps /\ "confirm" \in FinanceSteps
  BY LedgerAssumption DEF FinanceSteps
<1> QED BY <1>1, <1>2, <1>3 DEF Shape, Calmly

\* The rows of a snapshot are LOCKED rows of the order
LEMMA SnapshotRows ==
  ASSUME Shape, NEW o \in Orders, NEW kinds
  PROVE  /\ Snapshot(o, kinds) \subseteq Snapshots
         /\ \A s \in Snapshot(o, kinds) :
              payin[s.row[1]].order = o /\ escrow[s.row].status = "LOCKED"
  BY DEF Shape, Snapshot, Snapshots, LockedRows, RowsOf

\* The rows change their beneficiary at most
LEMMA BeneficiaryType ==
  ASSUME Shape, NEW o, NEW t \in Users
  PROVE  /\ Assigned(o, t) \in [Rows -> [status : RowStatus, benef : Users \cup {NoUser}]]
         /\ Unassigned(o, t) \in [Rows -> [status : RowStatus, benef : Users \cup {NoUser}]]
         /\ \A r \in Rows : /\ Assigned(o, t)[r].status = escrow[r].status
                            /\ Unassigned(o, t)[r].status = escrow[r].status
  BY DEF Assigned, Unassigned, Shape

-----------------------------------------------------------------------------
(* The kinds of step                                                       *)

\* A request moves on, or none does, and no row is created: rows may be settled and
\* change their beneficiary
LEMMA CalmStep ==
  ASSUME Inv, AllCalm, order' \in [Orders -> OrderStatus], UNCHANGED payin,
         escrow' \in [Rows -> [status : RowStatus, benef : Users \cup {NoUser}]],
         \A r \in Rows : escrow'[r].status = "NONE" <=> escrow[r].status = "NONE"
  PROVE  Inv'
<1>1. (Shape /\ AboutAnOrder)'
  BY DEF Inv, Shape, AboutAnOrder, AllCalm
<1>2. OneConfirmer'
  BY DEF Inv, OneConfirmer, AllCalm
<1>3. RowsFollowPayin'
  BY DEF Inv, RowsFollowPayin
<1>4. OwnRows'
  <2>1. ASSUME NEW q \in Procs, NEW s \in call[q].rows PROVE s.row \in Rows
    BY DEF Inv, Shape, Call, Snapshots
  <2> QED BY <2>1 DEF Inv, OwnRows, AllCalm
<1> QED BY <1>1, <1>2, <1>3, <1>4 DEF Inv

\* Which is so when one request moves calmly, or none moves
LEMMA WhoIsCalm ==
  ASSUME Shape, UNCHANGED call \/ \E p \in Procs : Calmly(p)
  PROVE  AllCalm
  BY DEF AllCalm, Shape, Calmly

\* Only a request moves on
LEMMA CallOnly ==
  ASSUME Inv, NEW p \in Procs, Calmly(p), order' \in [Orders -> OrderStatus],
         UNCHANGED <<payin, escrow>>
  PROVE  Inv'
  BY CalmStep, WhoIsCalm DEF Inv, Shape

\* Rows that exist are settled and the request moves on
LEMMA SettleStep ==
  ASSUME Inv, NEW p \in Procs, Calmly(p), order' \in [Orders -> OrderStatus],
         UNCHANGED payin, NEW status \in {"RELEASED", "REFUNDED"},
         NEW rows, \A r \in rows : escrow[r].status # "NONE", Settle(rows, status)
  PROVE  Inv'
<1>1. /\ escrow' \in [Rows -> [status : RowStatus, benef : Users \cup {NoUser}]]
      /\ \A r \in Rows : escrow'[r].status = "NONE" <=> escrow[r].status = "NONE"
  BY DEF Inv, Shape, Settle, RowStatus
<1> QED BY <1>1, CalmStep, WhoIsCalm DEF Inv

-----------------------------------------------------------------------------
(* The steps                                                               *)

\* Paying in: processPayin and confirmPayment
LEMMA PayinStep ==
  ASSUME Inv, NEW p \in Procs, ProcessPayin(p) \/ ConfirmPayment(p)
  PROVE  Inv'
<1>0. call[p] \in Call /\ call[p].order \in Orders
  BY DEF Inv, Shape, AboutAnOrder, ProcessPayin, ConfirmPayment, FinanceSteps
<1>1. CASE ProcessPayin(p)
  <2>1. PICK i \in Payins :
          /\ payin[i].status = "NONE"
          /\ payin' = [payin EXCEPT ![i] = [order |-> call[p].order, status |-> "PENDING"]]
          /\ call' = [call EXCEPT ![p].at = "confirm", ![p].payin = i]
    BY <1>1 DEF ProcessPayin
  <2>2. UNCHANGED <<order, escrow>>
    BY <1>1 DEF ProcessPayin
  <2>3. call' = [call EXCEPT ![p] = [call[p] EXCEPT !.at = "confirm", !.payin = i]]
    BY <2>1
  <2>4. [call[p] EXCEPT !.at = "confirm", !.payin = i] \in Call
    BY <1>0 DEF Call, Steps, FinanceSteps
  <2>5. Shape' BY <1>0, <2>1, <2>2, <2>3, <2>4 DEF Inv, Shape
  <2>6. AboutAnOrder' BY <1>0, <2>3, <2>4 DEF Inv, Shape, AboutAnOrder, Call
  <2>7. OneConfirmer'
    <3>1. ASSUME NEW q \in Procs, q # p, call[q].at = "confirm"
          PROVE  call[q].payin # i
      <4>1. payin[call[q].payin] = [order |-> call[q].order, status |-> "PENDING"]
        BY <3>1, Zenon DEF Inv, OneConfirmer
      <4> QED BY <2>1, <4>1
    <3>2. /\ \A q \in Procs \ {p} : call'[q] = call[q]
          /\ call'[p].payin = i /\ call'[p].order = call[p].order
      BY <1>0, <2>3 DEF Inv, Shape, Call
    <3> QED BY <1>0, <2>1, <3>1, <3>2 DEF Inv, Shape, OneConfirmer
  <2>8. RowsFollowPayin'
    BY <2>1, <2>2 DEF Inv, Shape, RowsFollowPayin, Rows
  <2>9. OwnRows'
    <3>1. \A q \in Procs : call'[q].rows = call[q].rows /\ call'[q].order = call[q].order
      BY <1>0, <2>3 DEF Inv, Shape, Call
    <3>2. ASSUME NEW q \in Procs, NEW s \in call[q].rows
          PROVE  s.row \in Rows /\ s.row[1] \in Payins /\ s.row[1] # i
      BY <2>1, <3>2 DEF Inv, Shape, Call, Snapshots, Rows, OwnRows, RowsFollowPayin
    <3> QED BY <2>1, <2>2, <3>1, <3>2 DEF Inv, Shape, OwnRows
  <2> QED BY <2>5, <2>6, <2>7, <2>8, <2>9 DEF Inv
<1>2. CASE ConfirmPayment(p)
  <2> DEFINE i == call[p].payin
             o == call[p].order
             made == {r \in Rows : r[1] = i /\ (r[2] = "PRODUCT" \/ Carriage[o] > 0)}
  <2>1. call[p].at = "confirm" /\ i \in Payins /\ payin[i] = [order |-> o, status |-> "PENDING"]
    BY <1>2 DEF ConfirmPayment, Inv, OneConfirmer
  <2>2. /\ payin' = [payin EXCEPT ![i].status = "ESCROW"]
        /\ order' = [order EXCEPT ![o] = "ACCEPTED"]
        /\ Return(p)
    BY <1>2 DEF ConfirmPayment
  <2>3. escrow' = [r \in Rows |->
          IF r \in made
          THEN [status |-> "LOCKED", benef |-> IF r[2] = "PRODUCT" THEN Seller[o] ELSE NoUser]
          ELSE escrow[r]]
    BY <1>2 DEF ConfirmPayment
  <2>4. Calmly(p)
    BY <1>0, <2>2, ResumeCalm DEF Return, Inv, Call
  <2>5. payin'[i] = [order |-> o, status |-> "ESCROW"]
        /\ \A j \in Payins \ {i} : payin'[j] = payin[j]
    BY <2>1, <2>2 DEF Inv, Shape
  <2>6. Seller[o] \in Users
    BY <1>0, LedgerAssumption
  <2>7. Shape'
    <3>1. escrow' \in [Rows -> [status : RowStatus, benef : Users \cup {NoUser}]]
      BY <2>3, <2>6 DEF Inv, Shape, RowStatus
    <3>2. payin' \in [Payins -> [order : Orders \cup {NoOrder},
                                status : {"NONE", "PENDING", "ESCROW"}]]
      BY <1>0, <2>1, <2>2 DEF Inv, Shape
    <3>3. order' \in [Orders -> OrderStatus]
      BY <2>2 DEF Inv, Shape, OrderStatus
    <3> QED BY <2>4, <3>1, <3>2, <3>3 DEF Shape, Calmly
  <2>8. (AboutAnOrder /\ OneConfirmer)'
    BY <2>1, <2>4, <2>5 DEF Inv, AboutAnOrder, OneConfirmer, Calmly
  <2>9. RowsFollowPayin'
    BY <2>1, <2>3, <2>5 DEF Inv, Shape, RowsFollowPayin, Rows, Kinds
  <2>10. OwnRows'
    <3>1. ASSUME NEW q \in Procs, NEW s \in call[q].rows
          PROVE  s.row \in Rows /\ s.row[1] \in Payins /\ s.row[1] # i
      BY <2>1, <3>1 DEF Inv, Shape, Call, Snapshots, Rows, OwnRows, RowsFollowPayin
    <3> QED BY <2>3, <2>4, <2>5, <3>1 DEF Inv, OwnRows, Calmly
  <2> QED BY <2>7, <2>8, <2>9, <2>10 DEF Inv
<1> QED BY <1>1, <1>2

\* The reads that begin a release, a refund or a split
LEMMA ReadStep ==
  ASSUME Inv, NEW p \in Procs, ReadRelease(p) \/ ReadRefund(p)
  PROVE  Inv'
<1>0. /\ call[p] \in Call /\ call[p].order \in Orders
      /\ order' \in [Orders -> OrderStatus] /\ UNCHANGED <<payin, escrow, order>>
  BY DEF Inv, Shape, AboutAnOrder, ReadRelease, ReadRefund, FinanceSteps
<1>1. CASE Return(p)
  BY <1>0, <1>1, ResumeCalm, CallOnly DEF Return, Inv, Call
<1>2. ASSUME NEW kinds, NEW step \in {"releaseCommit", "refundCommit", "splitCommit"},
             NEW seen \in OrderStatus,
             call' = [call EXCEPT ![p].at = step,
                                  ![p].rows = Snapshot(call[p].order, kinds),
                                  ![p].seen = seen]
      PROVE  Inv'
  <2> DEFINE new == [call[p] EXCEPT !.at = step,
                                    !.rows = Snapshot(call[p].order, kinds), !.seen = seen]
  <2>1. call' = [call EXCEPT ![p] = new]
    BY <1>2
  <2>2. /\ new \in Call /\ new.at = step /\ new.order = call[p].order
        /\ new.rows = Snapshot(call[p].order, kinds)
    BY <1>0, <1>2, SnapshotRows DEF Inv, Call, Steps, FinanceSteps
  <2>3. (Shape /\ AboutAnOrder)'
    BY <1>0, <2>1, <2>2 DEF Inv, Shape, AboutAnOrder
  <2>4. (OneConfirmer /\ RowsFollowPayin)'
    BY <1>0, <2>1, <2>2 DEF Inv, Shape, OneConfirmer, RowsFollowPayin
  <2>5. OwnRows'
    BY <1>0, <2>1, <2>2, SnapshotRows DEF Inv, Shape, OwnRows
  <2> QED BY <2>3, <2>4, <2>5 DEF Inv
<1>3. CASE ReadRelease(p)
  <2>1. order[call[p].order] \in OrderStatus BY <1>0 DEF Inv, Shape
  <2>2. call' = [call EXCEPT ![p].at = "releaseCommit",
                             ![p].rows = Snapshot(call[p].order, call[p].kinds),
                             ![p].seen = order[call[p].order]]
    BY <1>3 DEF ReadRelease
  <2> QED BY <1>2, <2>1, <2>2
<1>4. CASE ReadRefund(p) /\ ~Return(p)
  <2>1. PICK step \in {"refundCommit", "splitCommit"} :
          call' = [call EXCEPT ![p].at = step, ![p].rows = Snapshot(call[p].order, Kinds)]
    BY <1>4 DEF ReadRefund
  <2>2. call' = [call EXCEPT ![p].at = step, ![p].rows = Snapshot(call[p].order, Kinds),
                             ![p].seen = call[p].seen]
    BY <1>0, <2>1 DEF Inv, Shape, Call
  <2>3. call[p].seen \in OrderStatus BY <1>0 DEF Call
  <2> QED BY <1>2, <2>2, <2>3
<1> QED BY <1>1, <1>3, <1>4

\* The commits of a release, a refund and a split
LEMMA CommitStep ==
  ASSUME Inv, NEW p \in Procs, CommitRelease(p) \/ CommitRefund(p) \/ CommitSplit(p)
  PROVE  Inv'
<1>0. /\ call[p] \in Call /\ call[p].order \in Orders
      /\ order' \in [Orders -> OrderStatus] /\ Return(p) /\ UNCHANGED payin
  BY DEF Inv, Shape, AboutAnOrder, CommitRelease, CommitRefund, CommitSplit,
         FinanceSteps, OrderStatus
<1>1. Calmly(p)
  BY <1>0, ResumeCalm DEF Return, Inv, Call
<1>2. \A r \in RowsIn(call[p].rows) : escrow[r].status # "NONE"
  BY DEF Inv, OwnRows, RowsIn
<1>3. \A r \in RowsIn(Splittable(p)) : escrow[r].status # "NONE"
  BY <1>2 DEF RowsIn, Splittable
<1>4. CASE CommitRelease(p)
  BY <1>0, <1>1, <1>2, <1>4, SettleStep DEF CommitRelease
<1>5. CASE CommitRefund(p)
  BY <1>0, <1>1, <1>2, <1>5, SettleStep DEF CommitRefund
<1>6. CASE CommitSplit(p)
  BY <1>0, <1>1, <1>3, <1>6, SettleStep DEF CommitSplit
<1> QED BY <1>4, <1>5, <1>6

\* What throws, or dies, changes only the request
LEMMA GiveUpStep ==
  ASSUME Inv, NEW p \in Procs,
         \/ RefusePayin(p) \/ StockGone(p) \/ NothingToRelease(p)
         \/ AbortRelease(p) \/ AbortRefund(p) \/ Crash(p)
  PROVE  Inv'
<1>1. /\ Throw(p) \/ Resume(p, "idle")
      /\ UNCHANGED <<order, payin, escrow>>
  BY DEF RefusePayin, StockGone, NothingToRelease, AbortRelease, AbortRefund, Crash
<1>2. call[p] \in Call /\ "idle" \in CallerSteps
  BY LedgerAssumption DEF Inv, Shape
<1>3. Calmly(p)
  BY <1>1, <1>2, ResumeCalm DEF Throw, Inv, Call
<1> QED BY <1>1, <1>3, CallOnly DEF Inv, Shape

\* A caller writes an order's status and starts a request
LEMMA CallerStep ==
  ASSUME Inv, NEW p \in Procs, Caller(p)
  PROVE  Inv'
<1>1. UNCHANGED <<payin, escrow>> /\ order' \in [Orders -> OrderStatus]
  <2>1. PICK o \in Orders, s \in StatusWrites : order' = [order EXCEPT ![o] = s]
    BY Zenon DEF Caller
  <2>2. s \in OrderStatus
    BY LedgerAssumption
  <2>3. UNCHANGED <<payin, escrow>>
    BY Zenon DEF Caller
  <2> QED BY <2>1, <2>2, <2>3 DEF Inv, Shape
<1>2. CASE Start(p, CallerSteps)
  BY <1>1, <1>2, StartCalm, CallOnly DEF Inv
<1>3. CASE GoOnAlone(p, CallerSteps)
  BY <1>1, <1>3, AloneCalm, CallOnly DEF Inv
<1> QED BY <1>2, <1>3, Zenon DEF Caller

-----------------------------------------------------------------------------

\* The initial states satisfy the invariant
LEMMA InitInv == LedgerInit => Inv
<1> SUFFICES ASSUME LedgerInit PROVE Inv
  OBVIOUS
<1>1. Idle.at = "idle" /\ Idle.rows = {} /\ "idle" \notin FinanceSteps
  BY LedgerAssumption DEF Idle
<1>2. (\A p \in Procs : call[p] = Idle) /\ "confirm" # "idle"
  BY DEF LedgerInit
<1>3. Shape BY IdleType DEF LedgerInit, Shape, OrderStatus, RowStatus
<1>4. RowsFollowPayin BY DEF LedgerInit, RowsFollowPayin, Rows
<1>5. AboutAnOrder /\ OneConfirmer /\ OwnRows
  BY <1>1, <1>2 DEF AboutAnOrder, OneConfirmer, OwnRows
<1> QED BY <1>3, <1>4, <1>5 DEF Inv

\* Every step keeps the invariant
LEMMA NextInv == Inv /\ [LedgerNext]_ledgerVars => Inv'
<1> SUFFICES ASSUME Inv, [LedgerNext]_ledgerVars PROVE Inv'
  OBVIOUS
<1>1. ASSUME NEW p \in Procs, Finance(p) \/ Caller(p) \/ Crash(p) PROVE Inv'
  BY <1>1, PayinStep, ReadStep, CommitStep, GiveUpStep, CallerStep DEF Finance
<1>2. ASSUME NEW o \in Orders, NEW t \in Transporters, Assign(o, t) \/ Unassign(o, t)
      PROVE  Inv'
  <2>1. UNCHANGED <<order, payin, call>>
    BY <1>2 DEF Assign, Unassign
  <2>2. /\ escrow' \in [Rows -> [status : RowStatus, benef : Users \cup {NoUser}]]
        /\ \A r \in Rows : escrow'[r].status = escrow[r].status
    BY <1>2, BeneficiaryType, LedgerAssumption DEF Assign, Unassign, Inv
  <2> QED BY <2>1, <2>2, CalmStep, WhoIsCalm DEF Inv, Shape
<1>3. CASE Cash
  <2>1. UNCHANGED <<order, payin, escrow, call>>
    BY <1>3 DEF Cash, ProcessPayout, CreatePayoutBatch
  <2> QED BY <2>1 DEF Inv, Shape, AboutAnOrder, OneConfirmer, RowsFollowPayin, OwnRows
<1>4. CASE UNCHANGED ledgerVars
  BY <1>4 DEF ledgerVars, Inv, Shape, AboutAnOrder, OneConfirmer, RowsFollowPayin, OwnRows
<1> QED BY <1>1, <1>2, <1>3, <1>4 DEF LedgerNext

\* The invariant holds in every reachable state
LEMMA Invariance == LedgerSpec => []Inv
  BY InitInv, NextInv, PTL DEF LedgerSpec

\* processPayin and confirmPayment: a PAYIN is confirmed by one request only
THEOREM PayinHasOneConfirmer == LedgerSpec => []OneConfirmer
  BY Invariance, PTL DEF Inv

\* confirmPayment creates the escrow rows in the transaction that takes the
\* money: rows exist exactly for the confirmed payins.
THEOREM RowsExistForPayins == LedgerSpec => []RowsFollowPayin
  BY Invariance, PTL DEF Inv

\* releaseEscrow, refundBuyer and partialRefund settle rows of their order only
THEOREM SettlementsStayHome == LedgerSpec => []OwnRows
  BY Invariance, PTL DEF Inv

\* The three together, as the runs check them
THEOREM LedgerIsKept == LedgerSpec => []LedgerKept
<1>1. OneConfirmer /\ RowsFollowPayin /\ OwnRows => LedgerKept
  BY DEF LedgerKept
<1> QED BY <1>1, PayinHasOneConfirmer, RowsExistForPayins, SettlementsStayHome, PTL

-----------------------------------------------------------------------------
(* The ledger implements Settlement                                        *)

\* A PAYIN row that was not written yet is for no order
Unwritten == \A i \in Payins : payin[i].status = "NONE" => payin[i].order = NoOrder

\* Steps that leave what Settlement sees alone
Still == payin' = payin /\ \A r \in Rows : escrow'[r].status = escrow[r].status

\* What Settlement sees, as functions of the ledger
Owner == [i \in Payins |-> payin[i].order]
Taken == {i \in Payins : payin[i].status = "ESCROW"}
Claim == [r \in Rows |-> ClaimOf(r)]

\* A request that is at a step of its method is about an order and has its shape
LEMMA AtWork ==
  ASSUME Inv, NEW p \in Procs, call[p].at \in FinanceSteps
  PROVE  call[p] \in Call /\ call[p].order \in Orders
  BY DEF Inv, Shape, AboutAnOrder

\* Steps that leave the payments and the state of the rows alone are invisible
LEMMA StillStep ==
  ASSUME Inv, Still
  PROVE  UNCHANGED Settled!settlementVars
<1>1. \A r \in Rows : ClaimOf(r)' = ClaimOf(r)
  BY DEF Still, ClaimOf
<1> QED BY <1>1 DEF Still, Settled!settlementVars

\* Which steps those are
LEMMA WhoIsStill ==
  ASSUME Inv, [LedgerNext]_ledgerVars
  PROVE  \/ Still
         \/ \E p \in Procs : ProcessPayin(p) \/ ConfirmPayment(p) \/ CommitRelease(p)
                             \/ CommitRefund(p) \/ CommitSplit(p)
<1>1. ASSUME UNCHANGED <<payin, escrow>> PROVE Still
  BY <1>1 DEF Still
<1>2. ASSUME NEW p \in Procs,
             \/ RefusePayin(p) \/ StockGone(p) \/ ReadRelease(p) \/ NothingToRelease(p)
             \/ AbortRelease(p) \/ ReadRefund(p) \/ AbortRefund(p) \/ Caller(p) \/ Crash(p)
      PROVE  Still
  <2>1. UNCHANGED <<payin, escrow>>
    BY <1>2, Zenon DEF RefusePayin, StockGone, ReadRelease, NothingToRelease, AbortRelease,
                       ReadRefund, AbortRefund, Caller, Crash
  <2> QED BY <1>1, <2>1
<1>3. ASSUME NEW o \in Orders, NEW t \in Transporters, Assign(o, t) \/ Unassign(o, t)
      PROVE  Still
  BY <1>3 DEF Assign, Assigned, Unassign, Unassigned, Still, Inv, Shape
<1>4. CASE Cash
  BY <1>1, <1>4 DEF Cash, ProcessPayout, CreatePayoutBatch
<1>5. CASE UNCHANGED ledgerVars
  BY <1>1, <1>5 DEF ledgerVars
<1> QED BY <1>2, <1>3, <1>4, <1>5, Zenon DEF LedgerNext, Finance

\* A row not written yet stays for no order until processPayin writes it
LEMMA UnwrittenStep ==
  ASSUME Inv, Unwritten, [LedgerNext]_ledgerVars
  PROVE  Unwritten'
<1>1. CASE Still
  BY <1>1 DEF Still, Unwritten
<1>2. ASSUME NEW p \in Procs, ProcessPayin(p) PROVE Unwritten'
  BY <1>2 DEF ProcessPayin, Unwritten, Inv, Shape
<1>3. ASSUME NEW p \in Procs, ConfirmPayment(p) PROVE Unwritten'
  <2>1. payin' = [payin EXCEPT ![call[p].payin].status = "ESCROW"]
    BY <1>3 DEF ConfirmPayment
  <2> QED BY <2>1 DEF Unwritten, Inv, Shape
<1>4. ASSUME NEW p \in Procs, CommitRelease(p) \/ CommitRefund(p) \/ CommitSplit(p)
      PROVE  Unwritten'
  BY <1>4 DEF CommitRelease, CommitRefund, CommitSplit, Unwritten
<1> QED BY <1>1, <1>2, <1>3, <1>4, WhoIsStill

\* processPayin registers a payment, confirmPayment takes it
LEMMA PayinImplements ==
  ASSUME Inv, Unwritten, Inv', NEW p \in Procs, ProcessPayin(p) \/ ConfirmPayment(p)
  PROVE  Settled!Next
<1>0. call[p] \in Call /\ call[p].order \in Orders
  BY AtWork DEF ProcessPayin, ConfirmPayment, FinanceSteps
<1>1. CASE ProcessPayin(p)
  <2>1. PICK i \in Payins :
          /\ payin[i].status = "NONE"
          /\ payin' = [payin EXCEPT ![i] = [order |-> call[p].order, status |-> "PENDING"]]
    BY <1>1 DEF ProcessPayin
  <2>2. escrow' = escrow
    BY <1>1 DEF ProcessPayin
  <2>3. Owner[i] = NoOrder /\ Owner' = [Owner EXCEPT ![i] = call[p].order]
    BY <2>1 DEF Owner, Unwritten, Inv, Shape
  <2>4. Taken' = Taken
    BY <2>1 DEF Taken, Inv, Shape
  <2>5. Claim' = Claim
    BY <2>2 DEF Claim, ClaimOf
  <2>6. PICK o \in Orders : o = call[p].order
    BY <1>0
  <2>7. Settled!Register(i, o)
    BY <2>3, <2>4, <2>5, <2>6 DEF Settled!Register, Owner, Taken, Claim
  <2> QED BY <2>7 DEF Settled!Next
<1>2. CASE ConfirmPayment(p)
  <2> DEFINE i == call[p].payin
             o == call[p].order
             kinds == {k \in Kinds : k = "PRODUCT" \/ Carriage[o] > 0}
  <2>1. i \in Payins /\ payin[i] = [order |-> o, status |-> "PENDING"]
    BY <1>2 DEF ConfirmPayment, Inv, OneConfirmer
  <2>2. payin' = [payin EXCEPT ![i].status = "ESCROW"]
    BY <1>2 DEF ConfirmPayment
  <2>3. \A r \in Rows : escrow'[r].status =
          IF r[1] = i /\ r[2] \in kinds THEN "LOCKED" ELSE escrow[r].status
    BY <1>2 DEF ConfirmPayment, Rows
  <2>4. Owner' = Owner /\ Owner[i] # NoOrder
    BY <1>0, <2>1, <2>2, LedgerAssumption DEF Owner, Inv, Shape
  <2>5. i \notin Taken /\ Taken' = Taken \cup {i}
    BY <2>1, <2>2 DEF Taken, Inv, Shape
  <2>6. Claim' = [r \in Rows |-> IF r[1] = i /\ r[2] \in kinds THEN "open" ELSE Claim[r]]
    BY <2>3 DEF Claim, ClaimOf
  <2>7. "PRODUCT" \in kinds /\ kinds \in SUBSET Kinds
    BY DEF Kinds
  <2>8. PICK j \in Payins, K \in SUBSET Kinds : j = i /\ K = kinds
    BY <2>1, <2>7
  <2>9. Settled!Take(j, K)
    BY <2>4, <2>5, <2>6, <2>7, <2>8
       DEF Settled!Take, Settled!Claims, Rows, Owner, Taken, Claim
  <2> QED BY <2>9 DEF Settled!Next
<1> QED BY <1>1, <1>2

\* Settling rows of one order closes their claims
LEMMA SettleImplements ==
  ASSUME Inv, NEW o \in Orders, NEW rows \in SUBSET Rows, UNCHANGED payin,
         NEW status \in {"RELEASED", "REFUNDED"}, Settle(rows, status),
         \A r \in rows : payin[r[1]].order = o /\ escrow[r].status # "NONE"
  PROVE  Settled!Next
<1>1. Claim' = [r \in Rows |-> IF r \in rows THEN "closed" ELSE Claim[r]]
  BY DEF Settle, Claim, ClaimOf, Inv, Shape
<1>2. \A r \in rows : Claim[r] # "none" /\ Owner[r[1]] = o
  BY DEF Claim, ClaimOf, Owner, Rows
<1>3. Owner' = Owner /\ Taken' = Taken
  BY DEF Owner, Taken
<1>4. Settled!Close(o, rows)
  BY <1>1, <1>2, <1>3 DEF Settled!Close, Settled!Claims, Rows, Owner, Taken, Claim
<1> QED BY <1>4 DEF Settled!Next, Settled!Claims, Rows

\* The three commits settle rows of their order
LEMMA CommitImplements ==
  ASSUME Inv, NEW p \in Procs, CommitRelease(p) \/ CommitRefund(p) \/ CommitSplit(p)
  PROVE  Settled!Next
<1>0. call[p] \in Call /\ call[p].order \in Orders /\ UNCHANGED payin
  BY AtWork DEF CommitRelease, CommitRefund, CommitSplit, FinanceSteps
<1>1. /\ RowsIn(call[p].rows) \in SUBSET Rows
      /\ RowsIn(Splittable(p)) \in SUBSET RowsIn(call[p].rows)
      /\ \A r \in RowsIn(call[p].rows) :
           payin[r[1]].order = call[p].order /\ escrow[r].status # "NONE"
  BY <1>0 DEF RowsIn, Splittable, Call, Snapshots, Inv, OwnRows
<1>2. CASE CommitRelease(p)
  BY <1>0, <1>1, <1>2, SettleImplements DEF CommitRelease
<1>3. CASE CommitRefund(p)
  BY <1>0, <1>1, <1>3, SettleImplements DEF CommitRefund
<1>4. CASE CommitSplit(p)
  <2>1. Settle(RowsIn(Splittable(p)), "RELEASED")
    BY <1>4 DEF CommitSplit
  <2>2. /\ RowsIn(Splittable(p)) \in SUBSET Rows
        /\ \A r \in RowsIn(Splittable(p)) :
             payin[r[1]].order = call[p].order /\ escrow[r].status # "NONE"
    BY <1>1
  <2> QED BY <1>0, <2>1, <2>2, SettleImplements
<1> QED BY <1>2, <1>3, <1>4

\* The ledger with its reads, commits, rollbacks and crashes does to payments what
\* Settlement says
THEOREM LedgerImplementsSettlement == LedgerSpec => Implements
<1>1. LedgerInit => Settled!Init /\ Unwritten
  BY DEF LedgerInit, Settled!Init, Settled!Claims, Rows, ClaimOf, Unwritten
<1>2. Inv /\ Inv' /\ Unwritten /\ [LedgerNext]_ledgerVars
        => [Settled!Next]_(Settled!settlementVars) /\ Unwritten'
  <2> SUFFICES ASSUME Inv, Inv', Unwritten, [LedgerNext]_ledgerVars
               PROVE  [Settled!Next]_(Settled!settlementVars) /\ Unwritten'
    OBVIOUS
  <2>1. Unwritten'
    BY UnwrittenStep
  <2>2. CASE Still
    BY <2>1, <2>2, StillStep
  <2>3. ASSUME NEW p \in Procs, ProcessPayin(p) \/ ConfirmPayment(p) PROVE Settled!Next
    BY <2>3, PayinImplements
  <2>4. ASSUME NEW p \in Procs, CommitRelease(p) \/ CommitRefund(p) \/ CommitSplit(p)
        PROVE  Settled!Next
    BY <2>4, CommitImplements
  <2> QED BY <2>1, <2>2, <2>3, <2>4, WhoIsStill
<1> QED BY <1>1, <1>2, Invariance, PTL DEF LedgerSpec, Implements, Settled!Spec

-----------------------------------------------------------------------------
(* The money                                                               *)

Purse == [balance : Nat, escrow : Nat]
Shelf == [kg : Nat, open : BOOLEAN]

\* The copy a request carries has one entry for a row, and is finite
Copied ==
  \A p \in Procs : /\ IsFiniteSet(call[p].rows)
                   /\ \A s, t \in call[p].rows : s.row = t.row => s = t

Balanced == /\ wallet \in [Users -> Purse] /\ listing \in [Listings -> Shelf]
            /\ withdrawn \in Nat

\* What the users hold, what was taken, and what the LOCKED rows claim of u
WealthOf(w) == SumFunctionOnSet([u \in Users |-> w[u].balance + w[u].escrow], Users)
Confirmed == {i \in Payins : payin[i].status = "ESCROW"}
Intake == SumFunctionOnSet([i \in Confirmed |-> Payable(i)], Confirmed)
LockedTotal == [o \in Orders |-> Total(LockedRows(o))]
Claimed(u, total) ==
  SumFunctionOnSet([o \in Orders |-> IF Buyer[o] = u THEN total[o] ELSE 0], Orders)

\* What the rows of an order are worth
Worth(o) == [r \in Rows |-> IF r[2] = "PRODUCT" THEN Goods[o] ELSE Carriage[o]]

\* A percentage of a natural is between zero and it
LEMMA PctBounds ==
  ASSUME NEW x \in Nat, NEW pct \in 0..100
  PROVE  Pct(x, pct) \in 0..x
<1>1. x * pct \in Nat /\ x * pct <= 100 * x
  <2> DEFINE N == {n \in Nat : n * pct \in Nat /\ n * pct <= 100 * n}
  <2>1. 0 \in N
    OBVIOUS
  <2>2. ASSUME NEW n \in Nat, n \in N PROVE n + 1 \in N
    <3>1. (n + 1) * pct = n * pct + pct
      OBVIOUS
    <3> QED BY <2>2, <3>1
  <2>3. Nat \subseteq N
    <3> HIDE DEF N
    <3> QED BY <2>1, <2>2, NatSetInduction
  <2> QED BY <2>3
<1>2. ASSUME NEW y \in Nat, y <= 100 * x PROVE (y + 50) \div 100 \in 0..x
  BY <1>2
<1> QED BY <1>1, <1>2 DEF Pct

LEMMA FiniteRows == IsFiniteSet(Rows)
<1>1. IsFiniteSet(Kinds)
  <2>1. Kinds = {"PRODUCT"} \cup {"TRANSPORT"}
    BY DEF Kinds
  <2> QED BY <2>1, FS_Singleton, FS_AddElement
<1> QED BY <1>1, LedgerAssumption, FS_Product DEF Rows

\* What a row of an order is worth
LEMMA RowWorth ==
  ASSUME NEW o \in Orders, NEW r \in RowsOf(o)
  PROVE  /\ RowAmount(r) \in Nat
         /\ RowFee(r) \in 0..RowAmount(r)
<1>1. RowAmount(r) = IF r[2] = "PRODUCT" THEN Goods[o] ELSE Carriage[o]
  BY DEF RowsOf, RowAmount
<1>2. RowAmount(r) \in Nat
  BY <1>1, LedgerAssumption
<1>3. FeePct \in 0..100
  BY LedgerAssumption
<1>4. Pct(RowAmount(r), FeePct) \in 0..RowAmount(r)
  BY <1>2, <1>3, PctBounds
<1> QED BY <1>2, <1>4 DEF RowFee

\* Total as a sum on a set, whose terms are those of RowAmount
LEMMA TotalIs ==
  ASSUME NEW rows
  PROVE  Total(rows) = SumFunctionOnSet([r \in rows |-> RowAmount(r)], rows)
  BY DEF Total, SumFunction

\* A total is a natural
LEMMA TotalType ==
  ASSUME NEW o \in Orders, NEW rows \in SUBSET RowsOf(o)
  PROVE  IsFiniteSet(rows) /\ Total(rows) \in Nat
<1>1. IsFiniteSet(rows)
  <2>1. rows \in SUBSET Rows
    BY DEF RowsOf
  <2> QED BY <2>1, FiniteRows, FS_Subset
<1>2. \A r \in rows : [x \in rows |-> RowAmount(x)][r] \in Nat
  BY RowWorth
<1> QED BY <1>1, <1>2, TotalIs, SumNat

\* A set of rows of one order in two parts
LEMMA TotalSplit ==
  ASSUME NEW o \in Orders, NEW rows \in SUBSET RowsOf(o), NEW part \in SUBSET rows
  PROVE  Total(rows) = Total(part) + Total(rows \ part)
<1> DEFINE f == [r \in rows |-> RowAmount(r)]
           g == [r \in part |-> RowAmount(r)]
           h == [r \in rows \ part |-> RowAmount(r)]
<1>1. /\ Ints(f, rows) /\ Ints(f, part) /\ Ints(f, rows \ part)
      /\ \A r \in part : f[r] = g[r]
      /\ \A r \in rows \ part : f[r] = h[r]
  BY RowWorth DEF Ints
<1>2. IsFiniteSet(rows) /\ IsFiniteSet(part) /\ IsFiniteSet(rows \ part)
  BY TotalType
<1>3. /\ Total(rows) = SumFunctionOnSet(f, rows)
      /\ Total(part) = SumFunctionOnSet(g, part)
      /\ Total(rows \ part) = SumFunctionOnSet(h, rows \ part)
  BY TotalIs
<1> HIDE DEF f, g, h
<1>4. SumFunctionOnSet(f, rows) = SumFunctionOnSet(f, part) + SumFunctionOnSet(f, rows \ part)
  BY <1>1, <1>2, SumSplit
<1>5. SumFunctionOnSet(f, part) = SumFunctionOnSet(g, part)
  BY <1>1, <1>2, SumEqual
<1>6. SumFunctionOnSet(f, rows \ part) = SumFunctionOnSet(h, rows \ part)
  BY <1>1, <1>2, SumEqual
<1> QED BY <1>3, <1>4, <1>5, <1>6

\* Sums of which each is dealt out to three users
Deals(share, S, a, b, c, ra, rb, rc) ==
  /\ a \in [S -> Nat] /\ b \in [S -> Nat] /\ c \in [S -> Nat]
  /\ ra \in [S -> Users] /\ rb \in [S -> Users] /\ rc \in [S -> Users]
  /\ \A u \in Users : share[u] =
       SumFunctionOnSet([s \in S |-> (IF u = ra[s] THEN a[s] ELSE 0)
                                     + (IF u = rb[s] THEN b[s] ELSE 0)
                                     + (IF u = rc[s] THEN c[s] ELSE 0)], S)

\* When every term of S is dealt out to a, b and c, so is the sum
LEMMA SharedOut ==
  ASSUME NEW S, IsFiniteSet(S),
         NEW share, NEW a, NEW b, NEW c, NEW ra, NEW rb, NEW rc,
         Deals(share, S, a, b, c, ra, rb, rc),
         NEW total, \A s \in S : total[s] = a[s] + b[s] + c[s]
  PROVE  /\ \A u \in Users : share[u] \in Nat
         /\ SumFunctionOnSet(share, Users) = SumFunctionOnSet(total, S)
<1> DEFINE m == [e \in Users \X S |-> (IF e[1] = ra[e[2]] THEN a[e[2]] ELSE 0)
                                      + (IF e[1] = rb[e[2]] THEN b[e[2]] ELSE 0)
                                      + (IF e[1] = rc[e[2]] THEN c[e[2]] ELSE 0)]
           row == [u \in Users |-> [s \in S |-> m[<<u, s>>]]]
           col == [s \in S |-> [u \in Users |-> m[<<u, s>>]]]
<1>0. IsFiniteSet(Users)
  BY LedgerAssumption
<1>00. /\ a \in [S -> Nat] /\ b \in [S -> Nat] /\ c \in [S -> Nat]
       /\ ra \in [S -> Users] /\ rb \in [S -> Users] /\ rc \in [S -> Users]
  BY DEF Deals
<1>1. m \in [Users \X S -> Nat]
  BY <1>00
<1>2. ASSUME NEW u \in Users
      PROVE  /\ share[u] = SumFunctionOnSet(row[u], S)
             /\ share[u] \in Nat
  <2>1. row[u] = [s \in S |-> (IF u = ra[s] THEN a[s] ELSE 0)
                              + (IF u = rb[s] THEN b[s] ELSE 0)
                              + (IF u = rc[s] THEN c[s] ELSE 0)]
    OBVIOUS
  <2>2. \A s \in S : row[u][s] \in Nat
    BY <1>1
  <2>3. share[u] = SumFunctionOnSet(row[u], S)
    BY <2>1 DEF Deals
  <2> HIDE DEF row
  <2> QED BY <2>2, <2>3, SumNat
<1>3. ASSUME NEW s \in S
      PROVE  total[s] = SumFunctionOnSet(col[s], Users)
  <2> DEFINE one(r, x) == [u \in Users |-> IF u = r[s] THEN x[s] ELSE 0]
             two == [u \in Users |-> one(ra, a)[u] + one(rb, b)[u]]
  <2>1. ASSUME NEW r \in [S -> Users], NEW x \in [S -> Nat]
        PROVE  Ints(one(r, x), Users) /\ SumFunctionOnSet(one(r, x), Users) = x[s]
    <3>1. /\ Ints(one(r, x), Users) /\ r[s] \in Users
          /\ one(r, x)[r[s]] = x[s]
          /\ \A u \in Users \ {r[s]} : one(r, x)[u] = 0
      BY DEF Ints
    <3> HIDE DEF one
    <3> QED BY <1>0, <3>1, SumOnly
  <2>2. /\ Ints(one(ra, a), Users) /\ SumFunctionOnSet(one(ra, a), Users) = a[s]
        /\ Ints(one(rb, b), Users) /\ SumFunctionOnSet(one(rb, b), Users) = b[s]
        /\ Ints(one(rc, c), Users) /\ SumFunctionOnSet(one(rc, c), Users) = c[s]
    <3> HIDE DEF one
    <3> QED BY <1>00, <2>1
  <2>3. \A u \in Users : two[u] = one(ra, a)[u] + one(rb, b)[u]
    OBVIOUS
  <2>4. Ints(two, Users)
    BY <2>2 DEF Ints
  <2>5. \A u \in Users : col[s][u] = two[u] + one(rc, c)[u]
    OBVIOUS
  <2> HIDE DEF one, two, col
  <2>6. SumFunctionOnSet(two, Users) = a[s] + b[s]
    BY <1>0, <2>2, <2>3, SumPlus
  <2>7. SumFunctionOnSet(col[s], Users) = a[s] + b[s] + c[s]
    BY <1>0, <2>2, <2>4, <2>5, <2>6, SumPlus
  <2> QED BY <2>7
<1>4. Transposed(row, col, Users, S)
  BY <1>1 DEF Transposed
<1>5. RowSums(share, row, Users, S)
  BY <1>2 DEF RowSums
<1>6. RowSums(total, col, S, Users)
  BY <1>3 DEF RowSums
<1>7. SumFunctionOnSet(share, Users) = SumFunctionOnSet(total, S)
  <2> HIDE DEF row, col
  <2> QED BY <1>0, <1>4, <1>5, <1>6, SumSwap
<1> QED BY <1>2, <1>7

\* What one user gives and the users get makes no wealth
LEMMA WealthMoves ==
  ASSUME NEW w \in [Users -> Purse], NEW v \in [Users -> Purse],
         NEW giver \in Users, NEW d \in Int,
         NEW credit, \A u \in Users : credit[u] \in Nat,
         \A u \in Users : v[u].balance + v[u].escrow + (IF u = giver THEN d ELSE 0) =
                          w[u].balance + w[u].escrow + credit[u]
  PROVE  WealthOf(v) = WealthOf(w) + SumFunctionOnSet(credit, Users) - d
<1> DEFINE before == [u \in Users |-> w[u].balance + w[u].escrow]
           after == [u \in Users |-> v[u].balance + v[u].escrow]
           given == [u \in Users |-> IF u = giver THEN d ELSE 0]
           both == [u \in Users |-> before[u] + credit[u]]
<1>0. IsFiniteSet(Users)
  BY LedgerAssumption
<1>1. Ints(before, Users) /\ Ints(after, Users) /\ Ints(credit, Users)
  BY DEF Ints, Purse
<1>2. Ints(given, Users) /\ given[giver] = d /\ \A u \in Users \ {giver} : given[u] = 0
  BY DEF Ints
<1>3. /\ \A u \in Users : both[u] = before[u] + credit[u]
      /\ \A u \in Users : both[u] = after[u] + given[u]
  OBVIOUS
<1>4. /\ WealthOf(w) = SumFunctionOnSet(before, Users)
      /\ WealthOf(v) = SumFunctionOnSet(after, Users)
  BY DEF WealthOf
<1> HIDE DEF before, after, given, both
<1>5. SumFunctionOnSet(given, Users) = d
  BY <1>0, <1>2, SumOnly
<1>6. SumFunctionOnSet(both, Users) =
        SumFunctionOnSet(before, Users) + SumFunctionOnSet(credit, Users)
  BY <1>0, <1>1, <1>3, SumPlus
<1>7. SumFunctionOnSet(both, Users) = SumFunctionOnSet(after, Users) + d
  BY <1>0, <1>1, <1>2, <1>3, <1>5, SumPlus
<1>8. /\ SumFunctionOnSet(before, Users) \in Int /\ SumFunctionOnSet(after, Users) \in Int
      /\ SumFunctionOnSet(credit, Users) \in Int
  BY <1>0, <1>1, SumType
<1>9. ASSUME NEW x \in Int, NEW y \in Int, NEW c \in Int, x + c = y + d PROVE y = x + c - d
  BY <1>9
<1> QED BY <1>4, <1>6, <1>7, <1>8, <1>9

\* One wallet changes by d
LEMMA WealthChange ==
  ASSUME NEW w \in [Users -> Purse], NEW v \in [Users -> Purse],
         NEW b \in Users, NEW d \in Int,
         \A u \in Users : v[u].balance + v[u].escrow =
                          w[u].balance + w[u].escrow + (IF u = b THEN d ELSE 0)
  PROVE  WealthOf(v) = WealthOf(w) + d
<1> DEFINE credit == [u \in Users |-> 0]
           e == 0 - d
<1>1. \A u \in Users : credit[u] \in Nat /\ credit[u] = 0
  OBVIOUS
<1>2. e \in Int /\ \A u \in Users : v[u].balance + v[u].escrow + (IF u = b THEN e ELSE 0) =
                                    w[u].balance + w[u].escrow + credit[u]
  BY DEF Purse
<1>3. SumFunctionOnSet(credit, Users) = 0
  <2> HIDE DEF credit
  <2> QED BY <1>1, LedgerAssumption, SumZero
<1>4. WealthOf(v) = WealthOf(w) + SumFunctionOnSet(credit, Users) - e
  <2> HIDE DEF credit, e
  <2> QED BY <1>1, <1>2, WealthMoves
<1>5. WealthOf(w) \in Int
  <2> DEFINE f == [u \in Users |-> w[u].balance + w[u].escrow]
  <2>1. Ints(f, Users)
    BY DEF Ints, Purse
  <2> HIDE DEF f
  <2>2. SumFunctionOnSet(f, Users) \in Int
    BY <2>1, LedgerAssumption, SumType
  <2> QED BY <2>2 DEF f, WealthOf
<1> QED BY <1>3, <1>4, <1>5

\* Money that leaves one user's escrow and becomes balances
LEMMA PayKeepsWealth ==
  ASSUME wallet \in [Users -> Purse], NEW buyer \in Users, NEW debit \in Nat,
         wallet[buyer].escrow >= debit,
         NEW credit, \A u \in Users : credit[u] \in Nat,
         SumFunctionOnSet(credit, Users) = debit,
         wallet' = [u \in Users |->
           [balance |-> wallet[u].balance + credit[u],
            escrow  |-> wallet[u].escrow - (IF u = buyer THEN debit ELSE 0)]]
  PROVE  wallet' \in [Users -> Purse] /\ WealthOf(wallet') = WealthOf(wallet)
<1>1. wallet' \in [Users -> Purse]
  BY DEF Purse
<1>2. \A u \in Users : wallet'[u].balance + wallet'[u].escrow + (IF u = buyer THEN debit ELSE 0)
                       = wallet[u].balance + wallet[u].escrow + credit[u]
  BY DEF Purse
<1>3. WealthOf(wallet') = WealthOf(wallet) + debit - debit
  BY <1>1, <1>2, WealthMoves
<1>4. WealthOf(wallet) \in Int
  <2> DEFINE f == [u \in Users |-> wallet[u].balance + wallet[u].escrow]
  <2>1. Ints(f, Users)
    BY DEF Ints, Purse
  <2> HIDE DEF f
  <2>2. SumFunctionOnSet(f, Users) \in Int
    BY <2>1, LedgerAssumption, SumType
  <2> QED BY <2>2 DEF f, WealthOf
<1> QED BY <1>1, <1>3, <1>4

\* Rows of one order, whichever the payments are
LEMMA WorthType ==
  ASSUME NEW o \in Orders
  PROVE  \A r \in Rows : Worth(o)[r] \in Nat
  BY LedgerAssumption DEF Worth

\* The total of rows of an order, by what they are worth
LEMMA WorthOf ==
  ASSUME NEW o \in Orders, NEW rows \in SUBSET RowsOf(o)
  PROVE  Total(rows) = SumFunctionOnSet(Worth(o), rows)
<1> DEFINE f == [r \in rows |-> RowAmount(r)]
<1>1. IsFiniteSet(rows)
  BY TotalType
<1>2. Ints(f, rows) /\ \A r \in rows : f[r] = Worth(o)[r]
  BY RowWorth DEF Ints, Worth, RowsOf, RowAmount
<1>3. Total(rows) = SumFunctionOnSet(f, rows)
  BY TotalIs
<1> HIDE DEF f
<1> QED BY <1>1, <1>2, <1>3, SumEqual

\* What is LOCKED of an order, by what its rows are worth
LEMMA LockedTotalIs ==
  /\ LockedTotal = [o \in Orders |-> SumFunctionOnSet(Worth(o), LockedRows(o))]
  /\ LockedTotal \in [Orders -> Nat]
<1> SUFFICES ASSUME NEW o \in Orders
             PROVE  /\ Total(LockedRows(o)) = SumFunctionOnSet(Worth(o), LockedRows(o))
                    /\ Total(LockedRows(o)) \in Nat
  BY Zenon DEF LockedTotal
<1>1. LockedRows(o) \in SUBSET RowsOf(o)
  BY DEF LockedRows
<1> QED BY <1>1, WorthOf, TotalType

\* The same of the next state
LEMMA LockedTotalNext ==
  /\ LockedTotal' = [o \in Orders |-> SumFunctionOnSet(Worth(o), LockedRows(o)')]
  /\ LockedTotal' \in [Orders -> Nat]
<1> SUFFICES ASSUME NEW o \in Orders
             PROVE  /\ Total(LockedRows(o))' = SumFunctionOnSet(Worth(o), LockedRows(o)')
                    /\ Total(LockedRows(o))' \in Nat
  BY Zenon DEF LockedTotal
<1> DEFINE rows == LockedRows(o)'
           f == [r \in rows |-> RowAmount(r)']
<1>1. rows \in SUBSET Rows /\ IsFiniteSet(rows)
  <2>1. rows \in SUBSET Rows
    BY DEF LockedRows, RowsOf
  <2> QED BY <2>1, FiniteRows, FS_Subset
<1>2. Ints(f, rows) /\ \A r \in rows : f[r] = Worth(o)[r] /\ f[r] \in Nat
  BY LedgerAssumption DEF LockedRows, RowsOf, RowAmount, Worth, Ints
<1>3. Total(LockedRows(o))' = SumFunctionOnSet(f, rows)
  BY DEF Total, SumFunction
<1> HIDE DEF f, rows
<1>4. SumFunctionOnSet(f, rows) = SumFunctionOnSet(Worth(o), rows)
  BY <1>1, <1>2, SumEqual
<1>5. SumFunctionOnSet(f, rows) \in Nat
  BY <1>1, <1>2, SumNat
<1> QED BY <1>3, <1>4, <1>5 DEF rows

\* The claims on u when those on one order change by d, or more
LEMMA ClaimsChange ==
  ASSUME NEW t \in [Orders -> Int], NEW v \in [Orders -> Int], NEW o, NEW d \in Int,
         \A x \in Orders : v[x] >= t[x] + (IF x = o THEN d ELSE 0),
         o \in Orders \/ d = 0, NEW u
  PROVE  Claimed(u, v) >= Claimed(u, t) + (IF o \in Orders /\ Buyer[o] = u THEN d ELSE 0)
<1> DEFINE f == [x \in Orders |-> IF Buyer[x] = u THEN t[x] ELSE 0]
           g == [x \in Orders |-> IF Buyer[x] = u THEN v[x] ELSE 0]
           e == [x \in Orders |-> IF x = o /\ Buyer[x] = u THEN d ELSE 0]
           h == [x \in Orders |-> f[x] + e[x]]
           k == IF o \in Orders /\ Buyer[o] = u THEN d ELSE 0
<1>1. IsFiniteSet(Orders)
  BY LedgerAssumption
<1>2. Ints(f, Orders) /\ Ints(g, Orders) /\ Ints(e, Orders) /\ k \in Int
  BY DEF Ints
<1>3. \A x \in Orders : h[x] = f[x] + e[x]
  OBVIOUS
<1>4. Ints(h, Orders)
  BY <1>2 DEF Ints
<1>5. \A x \in Orders : h[x] <= g[x]
  OBVIOUS
<1>6. SumFunctionOnSet(e, Orders) = k
  <2>1. CASE o \in Orders
    <3>1. e[o] = k /\ \A x \in Orders \ {o} : e[x] = 0
      BY <2>1
    <3> HIDE DEF e, k
    <3> QED BY <1>1, <1>2, <2>1, <3>1, SumOnly
  <2>2. CASE o \notin Orders
    <3>1. k = 0 /\ \A x \in Orders : e[x] = 0
      BY <2>2
    <3> HIDE DEF e, k
    <3> QED BY <1>1, <3>1, SumZero
  <2> QED BY <2>1, <2>2
<1>7. Claimed(u, t) = SumFunctionOnSet(f, Orders) /\ Claimed(u, v) = SumFunctionOnSet(g, Orders)
  BY DEF Claimed
<1> HIDE DEF f, g, e, h, k
<1>8. SumFunctionOnSet(h, Orders) = SumFunctionOnSet(f, Orders) + k
  BY <1>1, <1>2, <1>3, <1>6, SumPlus
<1>9. SumFunctionOnSet(h, Orders) <= SumFunctionOnSet(g, Orders)
  BY <1>1, <1>2, <1>4, <1>5, SumMono
<1>10. Claimed(u, v) >= Claimed(u, t) + k
  BY <1>7, <1>8, <1>9
<1> QED BY <1>10 DEF k

\* What is claimed of a user is an integer
LEMMA ClaimedType ==
  ASSUME NEW u, NEW total \in [Orders -> Int]
  PROVE  Claimed(u, total) \in Int
<1> DEFINE f == [x \in Orders |-> IF Buyer[x] = u THEN total[x] ELSE 0]
<1>1. Ints(f, Orders) /\ IsFiniteSet(Orders)
  BY LedgerAssumption DEF Ints
<1>2. Claimed(u, total) = SumFunctionOnSet(f, Orders)
  BY DEF Claimed
<1> HIDE DEF f
<1> QED BY <1>1, <1>2, SumType

\* EscrowBacked in these terms, now and next
LEMMA BackedIs ==
  /\ EscrowBacked <=> \A u \in Users : wallet[u].escrow <= Claimed(u, LockedTotal)
  /\ EscrowBacked' <=> \A u \in Users : wallet'[u].escrow <= Claimed(u, LockedTotal')
<1>1. \A u \in Users : Claimed(u, LockedTotal) =
        SumFunction([o \in Orders |-> IF Buyer[o] = u THEN Total(LockedRows(o)) ELSE 0])
  <2> SUFFICES ASSUME NEW u \in Users
               PROVE  [o \in Orders |-> IF Buyer[o] = u THEN LockedTotal[o] ELSE 0] =
                      [o \in Orders |-> IF Buyer[o] = u THEN Total(LockedRows(o)) ELSE 0]
    BY DEF Claimed, SumFunction
  <2> QED BY DEF LockedTotal
<1>2. \A u \in Users : Claimed(u, LockedTotal') =
        SumFunction([o \in Orders |-> IF Buyer[o] = u THEN Total(LockedRows(o))' ELSE 0])
  <2> SUFFICES ASSUME NEW u \in Users
               PROVE  [o \in Orders |-> IF Buyer[o] = u THEN LockedTotal'[o] ELSE 0] =
                      [o \in Orders |-> IF Buyer[o] = u THEN Total(LockedRows(o))' ELSE 0]
    BY DEF Claimed, SumFunction
  <2> QED BY DEF LockedTotal
<1> QED BY <1>1, <1>2 DEF EscrowBacked

\* A step that changes the claims on one order by d or more, and its buyer's escrow by d
LEMMA BackedStep ==
  ASSUME EscrowBacked, wallet \in [Users -> Purse], wallet' \in [Users -> Purse],
         NEW o, NEW d \in Int, o \in Orders \/ d = 0,
         \A x \in Orders : LockedTotal'[x] >= LockedTotal[x] + (IF x = o THEN d ELSE 0),
         \A u \in Users : wallet'[u].escrow =
           wallet[u].escrow + (IF o \in Orders /\ Buyer[o] = u THEN d ELSE 0)
  PROVE  EscrowBacked'
<1>1. LockedTotal \in [Orders -> Int] /\ LockedTotal' \in [Orders -> Int]
  BY LockedTotalIs, LockedTotalNext
<1> SUFFICES ASSUME NEW u \in Users PROVE wallet'[u].escrow <= Claimed(u, LockedTotal')
  BY BackedIs
<1>2. Claimed(u, LockedTotal') >=
        Claimed(u, LockedTotal) + (IF o \in Orders /\ Buyer[o] = u THEN d ELSE 0)
  BY <1>1, ClaimsChange
<1>3. wallet[u].escrow <= Claimed(u, LockedTotal)
  BY BackedIs
<1>4. wallet[u].escrow \in Nat /\ wallet'[u].escrow \in Nat
  BY DEF Purse
<1>6. Claimed(u, LockedTotal) \in Int /\ Claimed(u, LockedTotal') \in Int
  BY <1>1, ClaimedType
<1> QED BY <1>2, <1>3, <1>4, <1>6

\* A step that changes neither
LEMMA BackedSame ==
  ASSUME EscrowBacked, \A x \in Orders : LockedTotal'[x] = LockedTotal[x],
         \A u \in Users : wallet'[u].escrow = wallet[u].escrow
  PROVE  EscrowBacked'
<1>1. LockedTotal' = LockedTotal
  BY LockedTotalIs, LockedTotalNext
<1> QED BY <1>1, BackedIs

\* EscrowCovered likewise
LEMMA CoveredIs ==
  /\ EscrowCovered <=> \A u \in Users : wallet[u].escrow >= Claimed(u, LockedTotal)
  /\ EscrowCovered' <=> \A u \in Users : wallet'[u].escrow >= Claimed(u, LockedTotal')
<1>1. \A u \in Users : Claimed(u, LockedTotal) =
        SumFunction([o \in Orders |-> IF Buyer[o] = u THEN Total(LockedRows(o)) ELSE 0])
  <2> SUFFICES ASSUME NEW u \in Users
               PROVE  [o \in Orders |-> IF Buyer[o] = u THEN LockedTotal[o] ELSE 0] =
                      [o \in Orders |-> IF Buyer[o] = u THEN Total(LockedRows(o)) ELSE 0]
    BY DEF Claimed, SumFunction
  <2> QED BY DEF LockedTotal
<1>2. \A u \in Users : Claimed(u, LockedTotal') =
        SumFunction([o \in Orders |-> IF Buyer[o] = u THEN Total(LockedRows(o))' ELSE 0])
  <2> SUFFICES ASSUME NEW u \in Users
               PROVE  [o \in Orders |-> IF Buyer[o] = u THEN LockedTotal'[o] ELSE 0] =
                      [o \in Orders |-> IF Buyer[o] = u THEN Total(LockedRows(o))' ELSE 0]
    BY DEF Claimed, SumFunction
  <2> QED BY DEF LockedTotal
<1> QED BY <1>1, <1>2 DEF EscrowCovered

\* A step that changes the claims on one order by d or less, and its buyer's escrow by d
LEMMA CoveredStep ==
  ASSUME EscrowCovered, wallet \in [Users -> Purse], wallet' \in [Users -> Purse],
         NEW o \in Orders, NEW d \in Int,
         \A x \in Orders : LockedTotal'[x] <= LockedTotal[x] + (IF x = o THEN d ELSE 0),
         \A u \in Users : wallet'[u].escrow =
           wallet[u].escrow + (IF o \in Orders /\ Buyer[o] = u THEN d ELSE 0)
  PROVE  EscrowCovered'
<1>1. /\ LockedTotal \in [Orders -> Int] /\ LockedTotal' \in [Orders -> Int]
      /\ \A x \in Orders : LockedTotal[x] \in Int /\ LockedTotal'[x] \in Int
  BY LockedTotalIs, LockedTotalNext
<1> SUFFICES ASSUME NEW u \in Users PROVE wallet'[u].escrow >= Claimed(u, LockedTotal')
  BY CoveredIs
<1>2. PICK e \in Int : e = 0 - d
  OBVIOUS
<1>3. \A x \in Orders : LockedTotal[x] >= LockedTotal'[x] + (IF x = o THEN e ELSE 0)
  BY <1>1, <1>2
<1>4. Claimed(u, LockedTotal) >=
        Claimed(u, LockedTotal') + (IF o \in Orders /\ Buyer[o] = u THEN e ELSE 0)
  BY <1>1, <1>3, ClaimsChange
<1>5. wallet[u].escrow >= Claimed(u, LockedTotal)
  BY CoveredIs
<1>6. wallet[u].escrow \in Nat /\ wallet'[u].escrow \in Nat
  BY DEF Purse
<1>7. Claimed(u, LockedTotal) \in Int /\ Claimed(u, LockedTotal') \in Int
  BY <1>1, ClaimedType
<1> QED BY <1>2, <1>4, <1>5, <1>6, <1>7

\* A step that changes neither
LEMMA CoveredSame ==
  ASSUME EscrowCovered, \A x \in Orders : LockedTotal'[x] = LockedTotal[x],
         \A u \in Users : wallet'[u].escrow = wallet[u].escrow
  PROVE  EscrowCovered'
<1>1. LockedTotal' = LockedTotal
  BY LockedTotalIs, LockedTotalNext
<1> QED BY <1>1, CoveredIs

\* A PAYIN that was written is for an order
Written == \A i \in Payins : payin[i].status # "NONE" => payin[i].order \in Orders

\* The books are as good after a step as before it; so is the cover of the LOCKED rows
BooksKept == Written' /\ Balanced' /\ NoDrift' /\ (EscrowBacked => EscrowBacked')
CoverKept == EscrowCovered => EscrowCovered'

\* What the request is about to settle is still LOCKED
HoldsLocked(p) == \A s \in call[p].rows : escrow[s.row].status = "LOCKED"

\* The sums are integers
LEMMA WealthType ==
  ASSUME NEW w \in [Users -> Purse]
  PROVE  WealthOf(w) \in Int
<1> DEFINE f == [u \in Users |-> w[u].balance + w[u].escrow]
<1>1. Ints(f, Users) /\ IsFiniteSet(Users)
  BY LedgerAssumption DEF Ints, Purse
<1>2. WealthOf(w) = SumFunctionOnSet(f, Users)
  BY DEF WealthOf
<1> HIDE DEF f
<1> QED BY <1>1, <1>2, SumType

LEMMA IntakeType ==
  ASSUME Written
  PROVE  IsFiniteSet(Confirmed) /\ Intake \in Int
<1> DEFINE f == [i \in Confirmed |-> Payable(i)]
<1>1. IsFiniteSet(Confirmed)
  BY LedgerAssumption, FS_Subset DEF Confirmed
<1>2. Ints(f, Confirmed)
  BY LedgerAssumption DEF Ints, Confirmed, Written, Payable
<1>3. Intake = SumFunctionOnSet(f, Confirmed)
  BY DEF Intake
<1> HIDE DEF f
<1> QED BY <1>1, <1>2, <1>3, SumType

\* NoDrift in these terms, now and next
LEMMA DriftIs ==
  /\ Drift = WealthOf(wallet) - (Intake - withdrawn)
  /\ Drift' = WealthOf(wallet') - (Intake' - withdrawn')
  BY DEF Drift, WealthOf, Intake, Confirmed, SumFunction

\* A step that adds to the wallets what it takes in less what it pays out
LEMMA NoDriftStep ==
  ASSUME NoDrift, Written, Balanced, Balanced', NEW d \in Int,
         Intake' = Intake + d,
         WealthOf(wallet') = WealthOf(wallet) + d - (withdrawn' - withdrawn)
  PROVE  NoDrift'
<1>1. WealthOf(wallet) \in Int /\ Intake \in Int /\ withdrawn \in Nat /\ withdrawn' \in Nat
  BY WealthType, IntakeType DEF Balanced
<1> QED BY <1>1, DriftIs DEF NoDrift

\* What confirmed payments brought in, when none is confirmed
LEMMA IntakeSame ==
  ASSUME Confirmed' = Confirmed, \A i \in Confirmed : payin'[i] = payin[i]
  PROVE  Intake' = Intake
<1>1. [i \in Confirmed |-> Payable(i)]' = [i \in Confirmed |-> Payable(i)]
  BY DEF Payable
<1> QED BY <1>1 DEF Intake

\* The LOCKED rows are the same, and so is what they claim
LEMMA LockedSame ==
  ASSUME NEW o \in Orders,
         \A r \in Rows : escrow'[r].status = "LOCKED" <=> escrow[r].status = "LOCKED",
         \A r \in Rows : escrow[r].status = "LOCKED"
                           => payin'[r[1]].order = payin[r[1]].order
  PROVE  LockedTotal'[o] = LockedTotal[o]
<1>1. LockedRows(o)' = LockedRows(o)
  BY DEF LockedRows, RowsOf
<1> QED BY <1>1, LockedTotalIs, LockedTotalNext

\* Steps that move no money: the wallets stay, no payment is confirmed, no row is
\* locked or settled
Moneyless ==
  /\ UNCHANGED <<wallet, withdrawn>>
  /\ \A i \in Payins :
       \/ payin'[i] = payin[i]
       \/ /\ payin[i].status = "NONE" /\ payin'[i].status = "PENDING"
          /\ payin'[i].order \in Orders
  /\ \A r \in Rows : escrow'[r].status = escrow[r].status

\* ... keep the books and the cover
LEMMA MoneylessStep ==
  ASSUME Inv, Written, Balanced, NoDrift, Moneyless, listing' \in [Listings -> Shelf]
  PROVE  BooksKept /\ CoverKept
<1>1. Written' /\ Balanced'
  BY DEF Moneyless, Written, Balanced
<1>2. Confirmed' = Confirmed /\ \A i \in Confirmed : payin'[i] = payin[i]
  BY DEF Moneyless, Confirmed
<1>3. Intake' = Intake + 0
  BY <1>2, IntakeSame, IntakeType
<1>4. WealthOf(wallet') = WealthOf(wallet) + 0 - (withdrawn' - withdrawn)
  BY WealthType DEF Moneyless, Balanced
<1>5. NoDrift'
  BY <1>1, <1>3, <1>4, NoDriftStep
<1>6. \A x \in Orders : LockedTotal'[x] = LockedTotal[x]
  <2>1. \A r \in Rows : escrow[r].status = "LOCKED" => payin'[r[1]] = payin[r[1]]
    BY DEF Moneyless, Inv, RowsFollowPayin, Rows
  <2> QED BY <2>1, LockedSame DEF Moneyless
<1>7. \A u \in Users : wallet'[u].escrow = wallet[u].escrow
  BY DEF Moneyless
<1> QED BY <1>1, <1>5, <1>6, <1>7, BackedSame, CoveredSame DEF BooksKept, CoverKept

\* A settlement: rows of order o stop being LOCKED, their sum leaves the buyer's escrow
\* and is credited
LEMMA SettleMoney ==
  ASSUME Inv, Written, Balanced, NoDrift, UNCHANGED <<payin, withdrawn, listing>>,
         NEW o \in Orders, NEW rows \in SUBSET RowsOf(o),
         NEW status \in {"RELEASED", "REFUNDED"}, Settle(rows, status),
         wallet[Buyer[o]].escrow >= Total(rows),
         NEW credit, \A u \in Users : credit[u] \in Nat,
         SumFunctionOnSet(credit, Users) = Total(rows),
         wallet' = [u \in Users |->
           [balance |-> wallet[u].balance + credit[u],
            escrow  |-> wallet[u].escrow - (IF u = Buyer[o] THEN Total(rows) ELSE 0)]]
  PROVE  BooksKept /\ (rows \subseteq LockedRows(o) => CoverKept)
<1>1. Total(rows) \in Nat /\ Buyer[o] \in Users /\ wallet \in [Users -> Purse]
  BY TotalType, LedgerAssumption DEF Balanced
<1>2. wallet' \in [Users -> Purse] /\ WealthOf(wallet') = WealthOf(wallet)
  BY <1>1, PayKeepsWealth
<1>3. Written' /\ Balanced'
  BY <1>2 DEF Written, Balanced
<1>4. Confirmed' = Confirmed /\ Intake' = Intake
  <2>1. Confirmed' = Confirmed
    BY DEF Confirmed
  <2> QED BY <2>1, IntakeSame
<1>5. NoDrift'
  <2>1. Intake' = Intake + 0 /\ WealthOf(wallet') = WealthOf(wallet) + 0 - (withdrawn' - withdrawn)
    BY <1>1, <1>2, <1>4, WealthType, IntakeType DEF Balanced
  <2> QED BY <1>3, <2>1, NoDriftStep
<1>6. /\ EscrowBacked => EscrowBacked'
      /\ rows \subseteq LockedRows(o) => CoverKept
  <2> DEFINE was == LockedRows(o)
             d == 0 - Total(rows)
  <2>1. d \in Int
    BY <1>1
  <2>2. LockedRows(o)' = was \ rows
    BY DEF Settle, LockedRows, RowsOf, Inv, Shape
  <2>3. /\ LockedTotal'[o] >= LockedTotal[o] + d
        /\ rows \subseteq was => LockedTotal'[o] = LockedTotal[o] + d
    <3>1. was \in SUBSET RowsOf(o)
      BY DEF LockedRows
    <3>2. /\ LockedTotal[o] = Total(was)
          /\ LockedTotal'[o] = Total(was \ rows)
      <4>1. LockedTotal'[o] = SumFunctionOnSet(Worth(o), was \ rows)
        BY <2>2, LockedTotalNext
      <4>2. Total(was \ rows) = SumFunctionOnSet(Worth(o), was \ rows)
        <5>1. was \ rows \in SUBSET RowsOf(o)
          BY <3>1
        <5> QED BY <5>1, WorthOf
      <4> QED BY <4>1, <4>2 DEF LockedTotal
    <3>3. Total(was) = Total(was \cap rows) + Total(was \ rows)
      <4>1. was \ (was \cap rows) = was \ rows /\ was \cap rows \in SUBSET was
        OBVIOUS
      <4> HIDE DEF was
      <4>2. Total(was) = Total(was \cap rows) + Total(was \ (was \cap rows))
        BY <3>1, <4>1, TotalSplit
      <4> QED BY <4>1, <4>2
    <3>4. Total(rows) = Total(was \cap rows) + Total(rows \ (was \cap rows))
      <4>1. was \cap rows \in SUBSET rows
        OBVIOUS
      <4> HIDE DEF was
      <4> QED BY <4>1, TotalSplit
    <3>5. /\ Total(was \cap rows) \in Nat /\ Total(was \ rows) \in Nat
          /\ Total(rows \ (was \cap rows)) \in Nat
      <4>1. /\ was \cap rows \in SUBSET RowsOf(o) /\ was \ rows \in SUBSET RowsOf(o)
            /\ rows \ (was \cap rows) \in SUBSET RowsOf(o)
        BY <3>1
      <4> QED BY <4>1, TotalType
    <3>6. PICK x \in Nat, y \in Nat, z \in Nat :
            /\ x = Total(was \cap rows) /\ y = Total(was \ rows)
            /\ z = Total(rows \ (was \cap rows))
      BY <3>5
    <3>7. LockedTotal[o] = x + y /\ LockedTotal'[o] = y /\ Total(rows) = x + z
      BY <3>2, <3>3, <3>4, <3>6
    <3>8. ASSUME rows \subseteq was PROVE Total(rows) = x
      <4>1. was \cap rows = rows
        BY <3>8
      <4> QED BY <3>6, <4>1
    <3> HIDE DEF was
    <3> QED BY <3>7, <3>8
  <2>4. ASSUME NEW x \in Orders, x # o PROVE LockedTotal'[x] = LockedTotal[x]
    <3>1. LockedRows(x)' = LockedRows(x)
      BY <2>4 DEF Settle, LockedRows, RowsOf, Inv, Shape
    <3> QED BY <3>1, LockedTotalIs, LockedTotalNext
  <2>5. \A x \in Orders : LockedTotal'[x] >= LockedTotal[x] + (IF x = o THEN d ELSE 0)
    BY <2>3, <2>4, LockedTotalIs, LockedTotalNext
  <2>6. \A u \in Users : wallet'[u].escrow =
          wallet[u].escrow + (IF o \in Orders /\ Buyer[o] = u THEN d ELSE 0)
    BY <1>1 DEF Purse
  <2>7. ASSUME rows \subseteq was
        PROVE  \A x \in Orders : LockedTotal'[x] <= LockedTotal[x] + (IF x = o THEN d ELSE 0)
    BY <2>3, <2>4, <2>7, LockedTotalIs, LockedTotalNext
  <2> HIDE DEF d
  <2>8. EscrowBacked => EscrowBacked'
    BY <1>1, <1>2, <2>1, <2>5, <2>6, BackedStep
  <2>9. ASSUME rows \subseteq was, EscrowCovered PROVE EscrowCovered'
    <3>1. \A x \in Orders : LockedTotal'[x] <= LockedTotal[x] + (IF x = o THEN d ELSE 0)
      BY <2>7, <2>9
    <3> QED BY <1>1, <1>2, <2>1, <2>6, <2>9, <3>1, CoveredStep
  <2> QED BY <2>8, <2>9 DEF CoverKept
<1> QED BY <1>3, <1>5, <1>6 DEF BooksKept

\* Payment i of order o is taken in: its buyer's escrow gets d, and new rows claim it
TakesIn(i, o, b, d, locked, benef) ==
  /\ payin[i] = [order |-> o, status |-> "PENDING"]
  /\ payin' = [payin EXCEPT ![i].status = "ESCROW"]
  /\ d = Goods[o] + Carriage[o] /\ b = Buyer[o]
  /\ wallet' = [wallet EXCEPT ![b] = [balance |-> wallet[b].balance,
                                      escrow |-> wallet[b].escrow + d]]
  /\ withdrawn' = withdrawn /\ listing' \in [Listings -> Shelf]
  /\ locked = {r \in Rows : r[1] = i /\ (r[2] = "PRODUCT" \/ Carriage[o] > 0)}
  /\ escrow' = [r \in Rows |-> IF r \in locked
                               THEN [status |-> "LOCKED", benef |-> benef[r]] ELSE escrow[r]]

\* ... and the books and the cover are kept
LEMMA TakeMoney ==
  ASSUME Inv, Written, Balanced, NoDrift, NEW i \in Payins, NEW o \in Orders,
         NEW b \in Users, NEW d \in Nat, NEW locked, NEW benef,
         TakesIn(i, o, b, d, locked, benef)
  PROVE  BooksKept /\ CoverKept
<1>1. Goods[o] \in Nat /\ Carriage[o] \in Nat /\ wallet \in [Users -> Purse]
  BY LedgerAssumption DEF Balanced
<1>2. b = Buyer[o] /\ d = Goods[o] + Carriage[o]
  BY DEF TakesIn
<1>3. wallet' = [wallet EXCEPT ![b] = [balance |-> wallet[b].balance,
                                       escrow |-> wallet[b].escrow + d]]
  BY DEF TakesIn
<1>4. Written'
  BY DEF TakesIn, Written, Inv, Shape
<1>5. wallet' \in [Users -> Purse]
  BY <1>1, <1>2, <1>3 DEF Purse
<1>7. Balanced'
  BY <1>5 DEF TakesIn, Balanced
<1>8. WealthOf(wallet') = WealthOf(wallet) + d
  <2>1. \A u \in Users : wallet'[u].balance + wallet'[u].escrow =
          wallet[u].balance + wallet[u].escrow + (IF u = b THEN d ELSE 0)
    BY <1>1, <1>3, <1>5 DEF Purse
  <2>2. d \in Int
    OBVIOUS
  <2> QED BY <1>1, <1>5, <2>1, <2>2, WealthChange
<1>9. Intake' = Intake + d
  <2> DEFINE f == [j \in Confirmed |-> Payable(j)]
             all == Confirmed \cup {i}
             g == [j \in all |-> Payable(j)']
  <2>1. Confirmed' = all /\ i \notin Confirmed
    BY DEF TakesIn, Confirmed, Inv, Shape
  <2>2. IsFiniteSet(Confirmed) /\ Intake \in Int
    BY IntakeType
  <2>3. (\A j \in Confirmed : g[j] = f[j]) /\ g[i] = d
    BY DEF TakesIn, Confirmed, Payable, Inv, Shape
  <2>4. Ints(f, Confirmed)
    BY LedgerAssumption DEF Ints, Confirmed, Written, Payable
  <2>5. Intake = SumFunctionOnSet(f, Confirmed)
    BY DEF Intake
  <2>6. Intake' = SumFunctionOnSet(g, all)
    BY <2>1 DEF Intake
  <2>7. Ints(g, all)
    BY <1>1, <2>3, <2>4 DEF Ints
  <2> HIDE DEF f, g
  <2>8. SumFunctionOnSet(g, all) = g[i] + SumFunctionOnSet(g, Confirmed)
    BY <2>1, <2>2, <2>7, SumAdd
  <2>9. SumFunctionOnSet(f, Confirmed) = SumFunctionOnSet(g, Confirmed)
    BY <2>2, <2>3, <2>4, SumEqual
  <2> QED BY <1>1, <2>2, <2>3, <2>5, <2>6, <2>8, <2>9
<1>10. NoDrift'
  <2>1. WealthOf(wallet') = WealthOf(wallet) + d - (withdrawn' - withdrawn)
    BY <1>1, <1>8, WealthType DEF TakesIn, Balanced
  <2> QED BY <1>1, <1>7, <1>9, <2>1, NoDriftStep
<1>11. (EscrowBacked => EscrowBacked') /\ CoverKept
  <2>1. \A r \in Rows : r[1] = i => escrow[r].status = "NONE"
    BY DEF TakesIn, Inv, RowsFollowPayin
  <2>11. \A r \in Rows : payin'[r[1]].order = payin[r[1]].order
    BY DEF TakesIn, Inv, Shape, Rows
  <2>12. \A r \in locked : r \in Rows /\ r[1] = i /\ payin[r[1]].order = o
    BY DEF TakesIn
  <2>2. LockedRows(o)' = LockedRows(o) \cup locked /\ LockedRows(o) \cap locked = {}
    <3>1. \A r \in Rows : escrow'[r].status = "LOCKED"
                            <=> escrow[r].status = "LOCKED" \/ r \in locked
      BY <2>12 DEF TakesIn
    <3>2. \A r \in locked : escrow[r].status # "LOCKED"
      BY <2>1, <2>12
    <3> QED BY <2>11, <2>12, <3>1, <3>2 DEF LockedRows, RowsOf
  <2>3. LockedTotal'[o] = LockedTotal[o] + d
    <3>0. PICK was : was = LockedRows(o)
      OBVIOUS
    <3> DEFINE now == was \cup locked
    <3>1. IsFiniteSet(now) /\ now \in SUBSET Rows /\ locked \in SUBSET now /\ now \ locked = was
      <4>1. now \in SUBSET Rows
        BY <2>12, <3>0 DEF LockedRows, RowsOf
      <4> QED BY <2>2, <3>0, <4>1, FiniteRows, FS_Subset
    <3>2. Ints(Worth(o), now)
      BY <3>1, WorthType DEF Ints
    <3> HIDE DEF now
    <3>4. SumFunctionOnSet(Worth(o), now) =
            SumFunctionOnSet(Worth(o), locked) + SumFunctionOnSet(Worth(o), was)
      BY <3>1, <3>2, SumSplit
    <3>5. SumFunctionOnSet(Worth(o), locked) = d
      <4>0. PICK goods, carriage : goods = <<i, "PRODUCT">> /\ carriage = <<i, "TRANSPORT">>
        OBVIOUS
      <4>1. /\ goods \in Rows /\ carriage \in Rows /\ goods # carriage
            /\ Worth(o)[goods] = Goods[o] /\ Worth(o)[carriage] = Carriage[o]
        BY <4>0 DEF Rows, Kinds, Worth
      <4>11. IsFiniteSet({goods})
        BY FS_Singleton
      <4>12. Ints(Worth(o), {goods}) /\ Ints(Worth(o), {goods} \cup {carriage})
        BY <1>1, <4>1 DEF Ints
      <4>2. SumFunctionOnSet(Worth(o), {goods}) = Goods[o]
        <5>1. goods \in {goods} /\ \A x \in {goods} \ {goods} : Worth(o)[x] = 0
          OBVIOUS
        <5> QED BY <4>1, <4>11, <4>12, <5>1, SumOnly
      <4>3. CASE Carriage[o] > 0
        <5>1. locked = {goods} \cup {carriage}
          BY <4>0, <4>3 DEF TakesIn, Rows, Kinds
        <5>2. carriage \notin {goods}
          BY <4>1
        <5>3. SumFunctionOnSet(Worth(o), {goods} \cup {carriage}) =
                Worth(o)[carriage] + SumFunctionOnSet(Worth(o), {goods})
          BY <4>11, <4>12, <5>2, SumAdd
        <5>4. SumFunctionOnSet(Worth(o), locked) = Carriage[o] + Goods[o]
          BY <4>1, <4>2, <5>1, <5>3
        <5> QED BY <1>1, <1>2, <5>4
      <4>4. CASE ~(Carriage[o] > 0)
        <5>1. locked = {goods}
          BY <4>0, <4>4 DEF TakesIn, Rows, Kinds
        <5>2. Carriage[o] = 0
          BY <1>1, <4>4
        <5> QED BY <1>1, <1>2, <4>2, <5>1, <5>2
      <4> QED BY <4>3, <4>4
    <3>6. LockedTotal[o] = SumFunctionOnSet(Worth(o), was) /\ LockedTotal[o] \in Nat
      BY <3>0, LockedTotalIs
    <3>7. LockedTotal'[o] = SumFunctionOnSet(Worth(o), now)
      BY <2>2, <3>0, LockedTotalNext DEF now
    <3>8. SumFunctionOnSet(Worth(o), was) \in Nat
      BY <3>6
    <3> QED BY <1>1, <3>4, <3>5, <3>6, <3>7, <3>8
  <2>4. ASSUME NEW x \in Orders, x # o PROVE LockedTotal'[x] = LockedTotal[x]
    <3>1. \A r \in Rows : payin[r[1]].order = x
            => (escrow'[r].status = "LOCKED" <=> escrow[r].status = "LOCKED")
      BY <2>4, <2>12 DEF TakesIn
    <3>2. LockedRows(x)' = LockedRows(x)
      BY <2>11, <3>1 DEF LockedRows, RowsOf
    <3> QED BY <3>2, LockedTotalIs, LockedTotalNext
  <2>5. \A x \in Orders : LockedTotal'[x] >= LockedTotal[x] + (IF x = o THEN d ELSE 0)
    BY <1>1, <2>3, <2>4, LockedTotalIs, LockedTotalNext
  <2>6. \A u \in Users : wallet'[u].escrow =
          wallet[u].escrow + (IF o \in Orders /\ Buyer[o] = u THEN d ELSE 0)
    BY <1>1, <1>2, <1>3, <1>5 DEF Purse
  <2>7. d \in Int
    BY <1>1
  <2>8. EscrowBacked => EscrowBacked'
    BY <1>1, <1>5, <2>5, <2>6, <2>7, BackedStep
  <2>9. \A x \in Orders : LockedTotal'[x] <= LockedTotal[x] + (IF x = o THEN d ELSE 0)
    BY <1>1, <2>3, <2>4, LockedTotalIs, LockedTotalNext
  <2>10. EscrowCovered => EscrowCovered'
    BY <1>1, <1>5, <2>6, <2>7, <2>9, CoveredStep
  <2> QED BY <2>8, <2>10 DEF CoverKept
<1> QED BY <1>4, <1>7, <1>10, <1>11 DEF BooksKept

\* confirmPayment takes a payment in
LEMMA ConfirmMoney ==
  ASSUME Inv, Written, Balanced, NoDrift, NEW p \in Procs, ConfirmPayment(p)
  PROVE  BooksKept /\ CoverKept
<1>1. call[p].at = "confirm" /\ call[p].order \in Orders
  BY AtWork DEF ConfirmPayment, FinanceSteps
<1>2. /\ call[p].payin \in Payins
      /\ payin[call[p].payin] = [order |-> call[p].order, status |-> "PENDING"]
  BY <1>1, Zenon DEF Inv, OneConfirmer
<1>3. PICK i \in Payins, o \in Orders : i = call[p].payin /\ o = call[p].order
  BY <1>1, <1>2
<1>4. Goods[o] + Carriage[o] \in Nat /\ Buyer[o] \in Users /\ Listing[o] \in Listings
      /\ Quantity[o] \in Nat
  BY LedgerAssumption
<1>5. PICK d \in Nat, b \in Users, l \in Listings, q \in Nat :
        /\ d = Goods[o] + Carriage[o] /\ b = Buyer[o]
        /\ l = Listing[o] /\ q = Quantity[o]
  BY <1>4
<1>6. PICK locked, benef :
        /\ locked = {r \in Rows : r[1] = i /\ (r[2] = "PRODUCT" \/ Carriage[o] > 0)}
        /\ benef = [r \in Rows |-> IF r[2] = "PRODUCT" THEN Seller[o] ELSE NoUser]
  OBVIOUS
<1>7. listing' \in [Listings -> Shelf]
  <2>1. /\ listing[l].kg - q >= 0
        /\ listing' = [listing EXCEPT ![l] = [kg |-> listing[l].kg - q,
                                              open |-> listing[l].open /\ listing[l].kg - q # 0]]
    BY <1>3, <1>5 DEF ConfirmPayment
  <2>2. listing[l] \in Shelf /\ listing \in [Listings -> Shelf]
    BY DEF Balanced
  <2>3. [kg |-> listing[l].kg - q,
         open |-> listing[l].open /\ listing[l].kg - q # 0] \in Shelf
    BY <2>1, <2>2 DEF Shelf
  <2> QED BY <2>1, <2>2, <2>3
<1>8. wallet' = [wallet EXCEPT ![b] = [balance |-> wallet[b].balance,
                                      escrow |-> wallet[b].escrow + d]]
  <2>1. Payable(i) = d
    BY <1>2, <1>3, <1>5 DEF Payable
  <2>2. wallet' = [wallet EXCEPT ![b].escrow = @ + d]
    BY <1>3, <1>5, <2>1 DEF ConfirmPayment
  <2>3. wallet[b] \in Purse /\ wallet \in [Users -> Purse]
    BY DEF Balanced
  <2>4. [wallet[b] EXCEPT !.escrow = @ + d] = [balance |-> wallet[b].balance,
                                               escrow |-> wallet[b].escrow + d]
    BY <2>3 DEF Purse
  <2>5. wallet' = [wallet EXCEPT ![b] = [wallet[b] EXCEPT !.escrow = @ + d]]
    BY <2>2, <2>3
  <2> QED BY <2>4, <2>5
<1>9. escrow' = [r \in Rows |-> IF r \in locked
                   THEN [status |-> "LOCKED", benef |-> benef[r]] ELSE escrow[r]]
  BY <1>3, <1>6 DEF ConfirmPayment
<1>10. TakesIn(i, o, b, d, locked, benef)
  <2>1. withdrawn' = withdrawn /\ payin' = [payin EXCEPT ![i].status = "ESCROW"]
    BY <1>3 DEF ConfirmPayment
  <2> QED BY <1>2, <1>3, <1>5, <1>6, <1>7, <1>8, <1>9, <2>1 DEF TakesIn
<1> QED BY <1>10, TakeMoney

\* The copies of rows a request settles add up as the rows do
LEMMA CopiedTotal ==
  ASSUME Inv, Copied, NEW p \in Procs, call[p].at \in FinanceSteps,
         NEW S \in SUBSET call[p].rows
  PROVE  /\ IsFiniteSet(S) /\ RowsIn(S) \in SUBSET RowsOf(call[p].order)
         /\ \A s \in S : /\ RowAmount(s.row) \in Nat /\ RowFee(s.row) \in 0..RowAmount(s.row)
                         /\ s.benef \in Users \cup {NoUser}
         /\ Total(RowsIn(S)) = SumFunctionOnSet([s \in S |-> RowAmount(s.row)], S)
<1>0. call[p].order \in Orders /\ call[p] \in Call
  BY AtWork
<1>1. IsFiniteSet(S)
  BY FS_Subset DEF Copied
<1>2. PICK o \in Orders : o = call[p].order
  BY <1>0
<1>3. \A s \in S : s.row \in RowsOf(o) /\ s.benef \in Users \cup {NoUser}
  BY <1>0, <1>2 DEF Inv, OwnRows, RowsOf, Call, Snapshots
<1>4. RowsIn(S) \in SUBSET RowsOf(o)
  BY <1>3 DEF RowsIn
<1>5. \A s \in S : RowAmount(s.row) \in Nat /\ RowFee(s.row) \in 0..RowAmount(s.row)
  BY <1>3, RowWorth
<1>6. Total(RowsIn(S)) = SumFunctionOnSet([s \in S |-> RowAmount(s.row)], S)
  <2> DEFINE g == [s \in S |-> s.row]
             h == [s \in S |-> RowAmount(s.row)]
  <2>1. g \in [S -> RowsOf(o)] /\ \A s, t \in S : g[s] = g[t] => s = t
    BY <1>3 DEF Copied
  <2>2. Ints(Worth(o), RowsOf(o))
    BY WorthType DEF Ints, RowsOf
  <2>3. \A s \in S : h[s] = Worth(o)[g[s]]
    BY <1>3 DEF Worth, RowAmount, RowsOf
  <2>4. RowsIn(S) = {g[s] : s \in S}
    BY DEF RowsIn
  <2>5. Total(RowsIn(S)) = SumFunctionOnSet(Worth(o), RowsIn(S))
    BY <1>4, WorthOf
  <2> HIDE DEF g, h
  <2>6. SumFunctionOnSet(h, S) = SumFunctionOnSet(Worth(o), {g[s] : s \in S})
    BY <1>1, <2>1, <2>2, <2>3, SumImage
  <2> QED BY <2>4, <2>5, <2>6 DEF h
<1> QED BY <1>1, <1>2, <1>3, <1>4, <1>5, <1>6

\* releaseEscrow: each amount goes to its beneficiary and, for the fee, to the treasury
LEMMA ReleaseMoney ==
  ASSUME Inv, Written, Balanced, Copied, NoDrift, NEW p \in Procs, CommitRelease(p)
  PROVE  BooksKept /\ (HoldsLocked(p) => CoverKept)
<1> DEFINE S == call[p].rows
           a == [s \in S |-> RowAmount(s.row) - RowFee(s.row)]
           b == [s \in S |-> RowFee(s.row)]
           c == [s \in S |-> 0]
           ra == [s \in S |-> s.benef]
           rb == [s \in S |-> Treasury]
           total == [s \in S |-> RowAmount(s.row)]
           Due(u) == SumFunction([s \in S |->
                  (IF s.benef = u THEN RowAmount(s.row) - RowFee(s.row) ELSE 0)
                  + (IF u = Treasury THEN RowFee(s.row) ELSE 0)])
           credit == [u \in Users |-> Due(u)]
<1>0. call[p].at = "releaseCommit" /\ call[p].at \in FinanceSteps
  BY DEF CommitRelease, FinanceSteps
<1>1. PICK o \in Orders : o = call[p].order
  BY <1>0, AtWork
<1>2. /\ IsFiniteSet(S) /\ RowsIn(S) \in SUBSET RowsOf(o)
      /\ \A s \in S : /\ RowAmount(s.row) \in Nat /\ RowFee(s.row) \in 0..RowAmount(s.row)
                      /\ s.benef \in Users \cup {NoUser}
      /\ Total(RowsIn(S)) = SumFunctionOnSet(total, S)
  BY <1>0, <1>1, CopiedTotal
<1>3. \A s \in S : s.benef # NoUser
  BY DEF CommitRelease, Releasable
<1>4. /\ a \in [S -> Nat] /\ b \in [S -> Nat] /\ c \in [S -> Nat]
      /\ ra \in [S -> Users] /\ rb \in [S -> Users]
      /\ \A s \in S : total[s] = a[s] + b[s] + c[s]
  BY <1>2, <1>3, LedgerAssumption
<1>5. Deals(credit, S, a, b, c, ra, rb, rb)
  <2> SUFFICES ASSUME NEW u \in Users
               PROVE  [s \in S |-> (IF u = ra[s] THEN a[s] ELSE 0)
                                   + (IF u = rb[s] THEN b[s] ELSE 0)
                                   + (IF u = rb[s] THEN c[s] ELSE 0)]
                      = [s \in S |->
                          (IF s.benef = u THEN RowAmount(s.row) - RowFee(s.row) ELSE 0)
                          + (IF u = Treasury THEN RowFee(s.row) ELSE 0)]
    BY <1>4 DEF SumFunction, Deals
  <2> SUFFICES ASSUME NEW s \in S
               PROVE  (IF u = ra[s] THEN a[s] ELSE 0) + (IF u = rb[s] THEN b[s] ELSE 0)
                                   + (IF u = rb[s] THEN c[s] ELSE 0)
                      = (IF s.benef = u THEN RowAmount(s.row) - RowFee(s.row) ELSE 0)
                        + (IF u = Treasury THEN RowFee(s.row) ELSE 0)
    OBVIOUS
  <2> QED BY <1>2
<1>6. wallet' = [u \in Users |->
        [balance |-> wallet[u].balance + credit[u],
         escrow |-> wallet[u].escrow - (IF u = Buyer[o] THEN Total(RowsIn(S)) ELSE 0)]]
  BY <1>1 DEF CommitRelease, Pay
<1>7. /\ wallet[Buyer[o]].escrow >= Total(RowsIn(S)) /\ Settle(RowsIn(S), "RELEASED")
      /\ UNCHANGED <<payin, withdrawn, listing>>
  BY <1>1 DEF CommitRelease, Releasable
<1> HIDE DEF S, a, b, c, ra, rb, total, credit, Due
<1>8. /\ \A u \in Users : credit[u] \in Nat
      /\ SumFunctionOnSet(credit, Users) = SumFunctionOnSet(total, S)
  BY <1>2, <1>4, <1>5, SharedOut
<1>9. HoldsLocked(p) => RowsIn(S) \subseteq LockedRows(o)
  BY <1>2 DEF HoldsLocked, RowsIn, LockedRows, S
<1> QED BY <1>2, <1>6, <1>7, <1>8, <1>9, SettleMoney

\* refundBuyer: the whole amount goes back to the buyer
LEMMA RefundMoney ==
  ASSUME Inv, Written, Balanced, Copied, NoDrift, NEW p \in Procs, CommitRefund(p)
  PROVE  BooksKept /\ (HoldsLocked(p) => CoverKept)
<1>0. call[p].at \in FinanceSteps /\ call[p].rows \in SUBSET call[p].rows
  BY DEF CommitRefund, FinanceSteps
<1>1. PICK o, rows : o \in Orders /\ o = call[p].order /\ rows = RowsIn(call[p].rows)
  BY <1>0, AtWork
<1>2. rows \in SUBSET RowsOf(o)
  BY <1>0, <1>1, CopiedTotal
<1>3. PICK d \in Nat, b \in Users : d = Total(rows) /\ b = Buyer[o]
  BY <1>1, <1>2, TotalType, LedgerAssumption
<1> DEFINE credit == [u \in Users |-> IF u = b THEN d ELSE 0]
<1>4. wallet' = [u \in Users |->
        [balance |-> wallet[u].balance + credit[u],
         escrow |-> wallet[u].escrow - (IF u = b THEN d ELSE 0)]]
  BY <1>1, <1>3 DEF CommitRefund, Pay
<1>5. /\ wallet[b].escrow >= d /\ Settle(rows, "REFUNDED")
      /\ UNCHANGED <<payin, withdrawn, listing>>
  BY <1>1, <1>3 DEF CommitRefund
<1>6. /\ \A u \in Users : credit[u] \in Nat
      /\ credit[b] = d /\ Ints(credit, Users)
      /\ \A u \in Users \ {b} : credit[u] = 0
  BY DEF Ints
<1> HIDE DEF credit
<1>7. SumFunctionOnSet(credit, Users) = d
  BY <1>6, SumOnly, LedgerAssumption
<1>8. HoldsLocked(p) => rows \subseteq LockedRows(o)
  BY <1>1, <1>2 DEF HoldsLocked, RowsIn, LockedRows
<1> QED BY <1>1, <1>2, <1>3, <1>4, <1>5, <1>6, <1>7, <1>8, SettleMoney

\* partialRefund: each amount is shared by the buyer, the beneficiary and the treasury
LEMMA SplitMoney ==
  ASSUME Inv, Written, Balanced, Copied, NoDrift, NEW p \in Procs, CommitSplit(p)
  PROVE  BooksKept /\ (HoldsLocked(p) => CoverKept)
<1>0. call[p].at \in FinanceSteps /\ Splittable(p) \in SUBSET call[p].rows
  BY DEF CommitSplit, FinanceSteps, Splittable
<1>1. PICK o, S : o \in Orders /\ o = call[p].order /\ S = Splittable(p)
  BY <1>0, AtWork
<1>2. PICK buyer \in Users, pct \in 0..100 : buyer = Buyer[o] /\ pct = call[p].pct
  BY <1>0, <1>1, AtWork, LedgerAssumption DEF Call
<1> DEFINE Refunded(s) == Pct(RowAmount(s.row), pct)
           Gross(s) == RowAmount(s.row) - Refunded(s)
           Fee(s) == Pct(Gross(s), FeePct)
           Share(u) == SumFunction([s \in S |->
                         (IF u = buyer THEN Refunded(s) ELSE 0)
                         + (IF u = s.benef THEN Gross(s) - Fee(s) ELSE 0)
                         + (IF u = Treasury THEN Fee(s) ELSE 0)])
           a == [s \in S |-> Refunded(s)]
           b == [s \in S |-> Gross(s) - Fee(s)]
           c == [s \in S |-> Fee(s)]
           ra == [s \in S |-> buyer]
           rb == [s \in S |-> s.benef]
           rc == [s \in S |-> Treasury]
           total == [s \in S |-> RowAmount(s.row)]
           credit == [u \in Users |-> Share(u)]
<1>3. /\ IsFiniteSet(S) /\ RowsIn(S) \in SUBSET RowsOf(o)
      /\ \A s \in S : RowAmount(s.row) \in Nat /\ s.benef \in Users \cup {NoUser}
      /\ Total(RowsIn(S)) = SumFunctionOnSet(total, S)
  BY <1>0, <1>1, CopiedTotal
<1>4. ASSUME NEW s \in S
      PROVE  /\ Refunded(s) \in Nat /\ Gross(s) - Fee(s) \in Nat /\ Fee(s) \in Nat
             /\ s.benef \in Users /\ Treasury \in Users
             /\ RowAmount(s.row) = Refunded(s) + (Gross(s) - Fee(s)) + Fee(s)
  <2>1. RowAmount(s.row) \in Nat /\ FeePct \in 0..100 /\ Treasury \in Users
    BY <1>3, LedgerAssumption
  <2>2. Refunded(s) \in 0..RowAmount(s.row)
    BY <2>1, PctBounds
  <2>3. Gross(s) \in Nat
    BY <2>1, <2>2
  <2>4. Fee(s) \in 0..Gross(s)
    BY <2>1, <2>3, PctBounds
  <2>5. s.benef \in Users
    BY <1>1, <1>3 DEF Splittable
  <2> QED BY <2>1, <2>2, <2>3, <2>4, <2>5
<1>5. /\ Deals(credit, S, a, b, c, ra, rb, rc)
      /\ \A s \in S : total[s] = a[s] + b[s] + c[s]
  <2>1. /\ a \in [S -> Nat] /\ b \in [S -> Nat] /\ c \in [S -> Nat]
        /\ ra \in [S -> Users] /\ rb \in [S -> Users] /\ rc \in [S -> Users]
        /\ \A s \in S : total[s] = a[s] + b[s] + c[s]
    <3> HIDE DEF Refunded, Gross, Fee
    <3> QED BY <1>4
  <2>2. ASSUME NEW u \in Users
        PROVE  [s \in S |-> (IF u = ra[s] THEN a[s] ELSE 0)
                            + (IF u = rb[s] THEN b[s] ELSE 0)
                            + (IF u = rc[s] THEN c[s] ELSE 0)]
               = [s \in S |-> (IF u = buyer THEN Refunded(s) ELSE 0)
                              + (IF u = s.benef THEN Gross(s) - Fee(s) ELSE 0)
                              + (IF u = Treasury THEN Fee(s) ELSE 0)]
    <3> HIDE DEF Refunded, Gross, Fee
    <3> QED OBVIOUS
  <2>3. \A u \in Users : credit[u] =
          SumFunctionOnSet([s \in S |-> (IF u = ra[s] THEN a[s] ELSE 0)
                                        + (IF u = rb[s] THEN b[s] ELSE 0)
                                        + (IF u = rc[s] THEN c[s] ELSE 0)], S)
    BY <2>2 DEF SumFunction
  <2> HIDE DEF a, b, c, ra, rb, rc, credit, total
  <2> QED BY <2>1, <2>3 DEF Deals
<1>6. wallet' = [u \in Users |->
        [balance |-> wallet[u].balance + credit[u],
         escrow |-> wallet[u].escrow - (IF u = buyer THEN Total(RowsIn(S)) ELSE 0)]]
  BY <1>1, <1>2 DEF CommitSplit, Pay
<1>7. /\ wallet[buyer].escrow >= Total(RowsIn(S)) /\ Settle(RowsIn(S), "RELEASED")
      /\ UNCHANGED <<payin, withdrawn, listing>>
  BY <1>1, <1>2 DEF CommitSplit
<1> HIDE DEF a, b, c, ra, rb, rc, total, credit, Share
<1>8. /\ \A u \in Users : credit[u] \in Nat
      /\ SumFunctionOnSet(credit, Users) = SumFunctionOnSet(total, S)
  BY <1>3, <1>5, SharedOut
<1>9. HoldsLocked(p) => RowsIn(S) \subseteq LockedRows(o)
  BY <1>0, <1>1, <1>3 DEF HoldsLocked, RowsIn, LockedRows
<1> QED BY <1>1, <1>2, <1>3, <1>6, <1>7, <1>8, <1>9, SettleMoney

\* Withdrawals and batches
LEMMA CashMoney ==
  ASSUME Inv, Written, Balanced, NoDrift, Cash
  PROVE  BooksKept /\ CoverKept
<1>1. UNCHANGED <<payin, escrow, listing>>
  BY DEF Cash, ProcessPayout, CreatePayoutBatch
<1>2. SUFFICES /\ wallet' \in [Users -> Purse] /\ withdrawn' \in Nat
               /\ WealthOf(wallet') = WealthOf(wallet) - (withdrawn' - withdrawn)
               /\ \A u \in Users : wallet'[u].escrow = wallet[u].escrow
  <2>1. Written' /\ Balanced'
    BY <1>1, <1>2 DEF Written, Balanced
  <2>2. Confirmed' = Confirmed /\ Intake' = Intake
    <3>1. Confirmed' = Confirmed
      BY <1>1 DEF Confirmed
    <3> QED BY <1>1, <3>1, IntakeSame
  <2>3. NoDrift'
    <3>1. /\ Intake' = Intake + 0
          /\ WealthOf(wallet') = WealthOf(wallet) + 0 - (withdrawn' - withdrawn)
      BY <1>2, <2>2, WealthType, IntakeType DEF Balanced
    <3> QED BY <2>1, <3>1, NoDriftStep
  <2>4. \A x \in Orders : LockedTotal'[x] = LockedTotal[x]
    BY <1>1, LockedSame
  <2> QED BY <1>2, <2>1, <2>3, <2>4, BackedSame, CoveredSame DEF BooksKept, CoverKept
<1>3. wallet \in [Users -> Purse] /\ withdrawn \in Nat /\ WealthOf(wallet) \in Int
  BY WealthType DEF Balanced
<1>4. ASSUME NEW u \in Cashers, NEW amount \in Amounts, ProcessPayout(u, amount)
      PROVE  /\ wallet' \in [Users -> Purse] /\ withdrawn' \in Nat
             /\ WealthOf(wallet') = WealthOf(wallet) - (withdrawn' - withdrawn)
             /\ \A v \in Users : wallet'[v].escrow = wallet[v].escrow
  <2>1. u \in Users /\ amount \in Nat
    BY LedgerAssumption
  <2>2. PICK n \in Nat : n = wallet[u].balance - amount
    BY <1>3, <1>4, <2>1 DEF ProcessPayout, Purse
  <2>3. wallet' = [wallet EXCEPT ![u] = [balance |-> n, escrow |-> wallet[u].escrow]]
    <3>1. [wallet[u] EXCEPT !.balance = @ - amount] = [balance |-> n, escrow |-> wallet[u].escrow]
      BY <1>3, <2>1, <2>2 DEF Purse
    <3>2. wallet' = [wallet EXCEPT ![u] = [wallet[u] EXCEPT !.balance = @ - amount]]
      BY <1>3, <1>4 DEF ProcessPayout
    <3> QED BY <3>1, <3>2
  <2>4. wallet' \in [Users -> Purse] /\ \A v \in Users : wallet'[v].escrow = wallet[v].escrow
    BY <1>3, <2>1, <2>3 DEF Purse
  <2>5. withdrawn' = withdrawn + amount
    BY <1>4 DEF ProcessPayout
  <2>6. PICK d \in Int : d = 0 - amount
    BY <2>1
  <2>7. \A v \in Users : wallet'[v].balance + wallet'[v].escrow =
          wallet[v].balance + wallet[v].escrow + (IF v = u THEN d ELSE 0)
    BY <1>3, <2>1, <2>2, <2>3, <2>6 DEF Purse
  <2>8. WealthOf(wallet') = WealthOf(wallet) + d
    BY <1>3, <2>1, <2>4, <2>7, WealthChange
  <2> QED BY <1>3, <2>1, <2>4, <2>5, <2>6, <2>8
<1>5. ASSUME NEW u \in Cashers, NEW v \in Users, NEW amount \in Amounts,
             CreatePayoutBatch(u, [w \in Users |-> IF w = v THEN amount ELSE 0])
      PROVE  /\ wallet' \in [Users -> Purse] /\ withdrawn' \in Nat
             /\ WealthOf(wallet') = WealthOf(wallet) - (withdrawn' - withdrawn)
             /\ \A w \in Users : wallet'[w].escrow = wallet[w].escrow
  <2> DEFINE share == [w \in Users |-> IF w = v THEN amount ELSE 0]
  <2>1. u \in Users /\ amount \in Nat
    BY LedgerAssumption
  <2>2. SumFunctionOnSet(share, Users) = amount
    <3>1. Ints(share, Users) /\ share[v] = amount /\ \A w \in Users \ {v} : share[w] = 0
      BY <2>1 DEF Ints
    <3> HIDE DEF share
    <3> QED BY <3>1, SumOnly, LedgerAssumption
  <2>3. SumFunction(share) = amount
    BY <2>2 DEF SumFunction
  <2>4. \A w \in Users : share[w] \in Nat
    BY <2>1
  <2>5. PICK debited : debited = [wallet EXCEPT ![u] = [balance |-> wallet[u].balance - amount,
                                                        escrow |-> wallet[u].escrow]]
    OBVIOUS
  <2>6. debited = [wallet EXCEPT ![u].balance = @ - amount]
    <3>1. [wallet[u] EXCEPT !.balance = @ - amount] =
            [balance |-> wallet[u].balance - amount, escrow |-> wallet[u].escrow]
      BY <1>3, <2>1 DEF Purse
    <3> QED BY <1>3, <2>5, <3>1
  <2> HIDE DEF share
  <2>7. /\ wallet[u].balance >= amount /\ withdrawn' = withdrawn
        /\ wallet' = [w \in Users |-> [debited[w] EXCEPT !.balance = @ + share[w]]]
    BY <1>5, <2>3, <2>6 DEF CreatePayoutBatch, share
  <2>8. debited \in [Users -> Purse]
        /\ \A w \in Users : /\ debited[w].escrow = wallet[w].escrow
                            /\ debited[w].balance + (IF w = u THEN amount ELSE 0)
                                 = wallet[w].balance
    BY <1>3, <2>1, <2>5, <2>7 DEF Purse
  <2>9. /\ wallet' \in [Users -> Purse]
        /\ \A w \in Users : /\ wallet'[w].escrow = debited[w].escrow
                            /\ wallet'[w].balance = debited[w].balance + share[w]
    BY <2>4, <2>7, <2>8 DEF Purse
  <2>10. \A w \in Users : wallet'[w].balance + wallet'[w].escrow
                            + (IF w = u THEN amount ELSE 0)
                          = wallet[w].balance + wallet[w].escrow + share[w]
    BY <1>3, <2>1, <2>4, <2>8, <2>9 DEF Purse
  <2>11. amount \in Int
    BY <2>1
  <2>12. WealthOf(wallet') = WealthOf(wallet) + SumFunctionOnSet(share, Users) - amount
    BY <1>3, <2>1, <2>4, <2>9, <2>10, <2>11, WealthMoves
  <2>13. WealthOf(wallet') = WealthOf(wallet) /\ withdrawn' = withdrawn
    BY <1>3, <2>1, <2>2, <2>7, <2>12
  <2>14. \A w \in Users : wallet'[w].escrow = wallet[w].escrow
    BY <2>8, <2>9
  <2> QED BY <1>3, <2>9, <2>13, <2>14
<1> QED BY <1>4, <1>5 DEF Cash

-----------------------------------------------------------------------------
(* What a request carries                                                  *)

\* A copy of rows has one entry for a row, and is finite
LEMMA SnapshotCopied ==
  ASSUME NEW o, NEW kinds
  PROVE  /\ IsFiniteSet(Snapshot(o, kinds))
         /\ \A s, t \in Snapshot(o, kinds) : s.row = t.row => s = t
<1> DEFINE X == {x \in LockedRows(o) : x[2] \in kinds}
           f == [r \in X |-> [row |-> r, benef |-> escrow[r].benef]]
<1>1. IsFiniteSet(X)
  <2>1. X \in SUBSET Rows
    BY DEF LockedRows, RowsOf
  <2> QED BY <2>1, FiniteRows, FS_Subset
<1>2. f \in Surjection(X, Snapshot(o, kinds))
  BY DEF Surjection, Snapshot
<1>3. IsFiniteSet(Snapshot(o, kinds))
  BY <1>1, <1>2, FS_Surjection
<1> QED BY <1>3 DEF Snapshot

\* A request that begins nothing new carries no rows
LEMMA CalmCopied ==
  ASSUME Copied, NEW p \in Procs, Calmly(p)
  PROVE  Copied'
<1>1. IsFiniteSet({})
  BY FS_EmptySet
<1> QED BY <1>1 DEF Copied, Calmly

\* The method a request is in returns or throws
LEMMA ResumeCopied ==
  ASSUME Inv, Copied, NEW p \in Procs, Return(p) \/ Throw(p) \/ Resume(p, "idle")
  PROVE  Copied'
<1>1. call[p] \in Call /\ "idle" \in CallerSteps
  BY LedgerAssumption DEF Inv, Shape
<1>2. Calmly(p)
  BY <1>1, ResumeCalm DEF Return, Throw, Inv, Call
<1> QED BY <1>2, CalmCopied

\* A copy that was just read has one entry for a row
LEMMA ReadCopied ==
  ASSUME Inv, Copied, NEW p \in Procs, ReadRelease(p) \/ ReadRefund(p)
  PROVE  Copied'
<1>1. CASE Return(p)
  BY <1>1, ResumeCopied
<1>2. ASSUME NEW o, NEW kinds, NEW c, c.rows = Snapshot(o, kinds),
             call' = [call EXCEPT ![p] = c]
      PROVE  Copied'
  BY <1>2, SnapshotCopied DEF Copied, Inv, Shape
<1>3. call[p] \in Call
  BY DEF Inv, Shape
<1>4. CASE ReadRelease(p)
  <2>1. call' = [call EXCEPT ![p] = [call[p] EXCEPT !.at = "releaseCommit",
                   !.rows = Snapshot(call[p].order, call[p].kinds),
                   !.seen = order[call[p].order]]]
    BY <1>4 DEF ReadRelease
  <2>2. [call[p] EXCEPT !.at = "releaseCommit",
                   !.rows = Snapshot(call[p].order, call[p].kinds),
                   !.seen = order[call[p].order]].rows = Snapshot(call[p].order, call[p].kinds)
    BY <1>3 DEF Call
  <2> QED BY <1>2, <2>1, <2>2
<1>5. CASE ReadRefund(p) /\ ~Return(p)
  <2>1. PICK step : call' = [call EXCEPT ![p] = [call[p] EXCEPT !.at = step,
                               !.rows = Snapshot(call[p].order, Kinds)]]
    BY <1>5 DEF ReadRefund
  <2>2. [call[p] EXCEPT !.at = step, !.rows = Snapshot(call[p].order, Kinds)].rows
          = Snapshot(call[p].order, Kinds)
    BY <1>3 DEF Call
  <2> QED BY <1>2, <2>1, <2>2
<1> QED BY <1>1, <1>4, <1>5

-----------------------------------------------------------------------------
(* The steps, and the theorem                                              *)

\* The finance methods: what is taken in, shared out or given back adds up
LEMMA FinanceMoney ==
  ASSUME Inv, Written, Balanced, Copied, NoDrift, NEW p \in Procs, Finance(p)
  PROVE  BooksKept /\ Copied' /\ (HoldsLocked(p) => CoverKept)
<1>1. CASE ProcessPayin(p)
  <2>1. PICK i \in Payins :
          /\ payin[i].status = "NONE"
          /\ payin' = [payin EXCEPT ![i] = [order |-> call[p].order, status |-> "PENDING"]]
          /\ call' = [call EXCEPT ![p].at = "confirm", ![p].payin = i]
    BY <1>1 DEF ProcessPayin
  <2>2. call[p].order \in Orders
    BY <1>1, AtWork DEF ProcessPayin, FinanceSteps
  <2>3. Moneyless /\ listing' \in [Listings -> Shelf]
    BY <1>1, <2>1, <2>2 DEF ProcessPayin, Moneyless, Inv, Shape, Balanced
  <2>4. \A q \in Procs : call'[q].rows = call[q].rows
    BY <2>1 DEF Inv, Shape, Call
  <2> QED BY <2>3, <2>4, MoneylessStep DEF Copied
<1>2. CASE RefusePayin(p) \/ StockGone(p) \/ ReadRelease(p) \/ NothingToRelease(p)
           \/ AbortRelease(p) \/ ReadRefund(p) \/ AbortRefund(p)
  <2>1. UNCHANGED <<wallet, withdrawn, payin, escrow, listing>>
    BY <1>2 DEF RefusePayin, StockGone, ReadRelease, NothingToRelease, AbortRelease,
                ReadRefund, AbortRefund
  <2>2. Moneyless /\ listing' \in [Listings -> Shelf]
    BY <2>1 DEF Moneyless, Balanced
  <2>3. Throw(p) \/ ReadRelease(p) \/ ReadRefund(p)
    BY <1>2 DEF RefusePayin, StockGone, NothingToRelease, AbortRelease, AbortRefund
  <2>4. Copied'
    BY <2>3, ResumeCopied, ReadCopied
  <2> QED BY <2>2, <2>4, MoneylessStep
<1>3. CASE ConfirmPayment(p) \/ CommitRelease(p) \/ CommitRefund(p) \/ CommitSplit(p)
  <2>1. Return(p)
    BY <1>3 DEF ConfirmPayment, CommitRelease, CommitRefund, CommitSplit
  <2>2. Copied'
    BY <2>1, ResumeCopied
  <2> QED BY <1>3, <2>2, ConfirmMoney, ReleaseMoney, RefundMoney, SplitMoney
<1> QED BY <1>1, <1>2, <1>3 DEF Finance

\* A listing that gets kilos back
LEMMA RestockedType ==
  ASSUME Balanced, NEW o \in Orders
  PROVE  Restocked(o) \in [Listings -> Shelf]
<1>1. PICK l \in Listings, q \in Nat : l = Listing[o] /\ q = Quantity[o]
  BY LedgerAssumption
<1>2. listing \in [Listings -> Shelf] /\ listing[l] \in Shelf
  BY DEF Balanced
<1>3. [kg |-> listing[l].kg + q, open |-> TRUE] \in Shelf
  BY <1>2 DEF Shelf
<1>4. Restocked(o) = [listing EXCEPT ![l] = [kg |-> listing[l].kg + q, open |-> TRUE]]
  BY <1>1 DEF Restocked
<1> QED BY <1>2, <1>3, <1>4

\* Callers move no money
LEMMA CallerMoney ==
  ASSUME Inv, Written, Balanced, Copied, NoDrift, NEW p \in Procs, Caller(p)
  PROVE  BooksKept /\ Copied'
<1>1. UNCHANGED <<wallet, payin, escrow, withdrawn>>
      /\ (Start(p, CallerSteps) \/ GoOnAlone(p, CallerSteps))
  BY Zenon DEF Caller
<1>2. \E o \in Orders : listing' = listing \/ listing' = Restocked(o)
  BY Zenon DEF Caller
<1>3. Moneyless /\ listing' \in [Listings -> Shelf]
  BY <1>1, <1>2, RestockedType DEF Moneyless, Balanced
<1>4. CASE Start(p, CallerSteps)
  BY <1>3, <1>4, StartCalm, CalmCopied, MoneylessStep DEF Inv
<1>5. CASE GoOnAlone(p, CallerSteps)
  BY <1>3, <1>5, AloneCalm, CalmCopied, MoneylessStep DEF Inv
<1> QED BY <1>1, <1>4, <1>5

\* Every step keeps the books
LEMMA NextMoney ==
  ASSUME Inv, Written, Balanced, Copied, NoDrift, [LedgerNext]_ledgerVars
  PROVE  BooksKept /\ Copied'
<1>1. ASSUME NEW p \in Procs, Crash(p)
      PROVE  BooksKept /\ Copied'
  <2>1. Moneyless /\ listing' \in [Listings -> Shelf] /\ Resume(p, "idle")
    BY <1>1 DEF Crash, Moneyless, Balanced
  <2> QED BY <2>1, ResumeCopied, MoneylessStep
<1>2. ASSUME NEW o \in Orders, NEW t \in Transporters, Assign(o, t) \/ Unassign(o, t)
      PROVE  BooksKept /\ Copied'
  <2>1. Moneyless /\ listing' \in [Listings -> Shelf] /\ call' = call
    BY <1>2 DEF Assign, Unassign, Assigned, Unassigned, Moneyless, Balanced, Inv, Shape
  <2> QED BY <2>1, MoneylessStep DEF Copied
<1>3. CASE Cash
  <2>1. call' = call
    BY <1>3 DEF Cash, ProcessPayout, CreatePayoutBatch
  <2> QED BY <1>3, <2>1, CashMoney DEF Copied
<1>4. CASE UNCHANGED ledgerVars
  <2>1. Moneyless /\ listing' \in [Listings -> Shelf] /\ call' = call
    BY <1>4 DEF ledgerVars, Moneyless, Balanced
  <2> QED BY <2>1, MoneylessStep DEF Copied
<1>5. ASSUME NEW p \in Procs, Finance(p) \/ Caller(p)
      PROVE  BooksKept /\ Copied'
  BY <1>5, FinanceMoney, CallerMoney
<1> QED BY <1>1, <1>2, <1>3, <1>4, <1>5, Zenon DEF LedgerNext

\* At first there is nothing
LEMMA InitMoney ==
  ASSUME LedgerInit
  PROVE  Written /\ Balanced /\ Copied /\ NoDrift /\ EscrowBacked /\ EscrowCovered
<1>1. Written
  BY DEF LedgerInit, Written
<1>2. Balanced
  BY LedgerAssumption DEF LedgerInit, Balanced, Purse, Shelf
<1>3. Copied
  <2>1. \A p \in Procs : call[p].rows = {}
    BY DEF LedgerInit, Idle
  <2> QED BY <2>1, FS_EmptySet DEF Copied
<1>4. NoDrift
  <2> DEFINE f == [u \in Users |-> wallet[u].balance + wallet[u].escrow]
  <2>1. \A u \in Users : f[u] = 0
    BY DEF LedgerInit
  <2>2. WealthOf(wallet) = SumFunctionOnSet(f, Users)
    BY DEF WealthOf
  <2> HIDE DEF f
  <2>3. WealthOf(wallet) = 0
    BY <2>1, <2>2, SumZero, LedgerAssumption
  <2>4. Confirmed = {}
    BY DEF LedgerInit, Confirmed
  <2>5. Intake = 0
    BY <2>4, SumEmpty DEF Intake
  <2>6. withdrawn = 0
    BY DEF LedgerInit
  <2> QED BY <2>3, <2>5, <2>6, DriftIs DEF NoDrift
<1>5. EscrowBacked
  <2> SUFFICES ASSUME NEW u \in Users PROVE wallet[u].escrow <= Claimed(u, LockedTotal)
    BY BackedIs
  <2> DEFINE f == [o \in Orders |-> IF Buyer[o] = u THEN LockedTotal[o] ELSE 0]
  <2>1. \A o \in Orders : f[o] \in Nat
    BY LockedTotalIs
  <2>2. Claimed(u, LockedTotal) = SumFunctionOnSet(f, Orders)
    BY DEF Claimed
  <2> HIDE DEF f
  <2>3. SumFunctionOnSet(f, Orders) \in Nat
    BY <2>1, SumNat, LedgerAssumption
  <2>4. wallet[u].escrow = 0
    BY DEF LedgerInit
  <2> QED BY <2>2, <2>3, <2>4
<1>6. EscrowCovered
  <2> SUFFICES ASSUME NEW u \in Users PROVE wallet[u].escrow >= Claimed(u, LockedTotal)
    BY CoveredIs
  <2>1. ASSUME NEW o \in Orders PROVE LockedTotal[o] = 0
    <3>1. LockedRows(o) = {}
      BY DEF LedgerInit, LockedRows, RowsOf
    <3>2. LockedTotal[o] = SumFunctionOnSet(Worth(o), LockedRows(o))
      BY LockedTotalIs
    <3> QED BY <3>1, <3>2, SumEmpty
  <2> DEFINE f == [o \in Orders |-> IF Buyer[o] = u THEN LockedTotal[o] ELSE 0]
  <2>2. \A o \in Orders : f[o] = 0
    BY <2>1
  <2>3. Claimed(u, LockedTotal) = SumFunctionOnSet(f, Orders)
    BY DEF Claimed
  <2> HIDE DEF f
  <2>4. SumFunctionOnSet(f, Orders) = 0
    BY <2>2, SumZero, LedgerAssumption
  <2>5. wallet[u].escrow = 0
    BY DEF LedgerInit
  <2> QED BY <2>3, <2>4, <2>5
<1> QED BY <1>1, <1>2, <1>3, <1>4, <1>5, <1>6

\* The inductive invariant of the money
LEMMA MoneyInvariance == LedgerSpec => [](Inv /\ Written /\ Balanced /\ Copied /\ NoDrift
                                          /\ EscrowBacked)
<1> DEFINE Kept == Inv /\ Written /\ Balanced /\ Copied /\ NoDrift /\ EscrowBacked
<1>1. LedgerInit => Kept
  BY InitInv, InitMoney
<1>2. Kept /\ [LedgerNext]_ledgerVars => Kept'
  BY NextInv, NextMoney DEF BooksKept
<1> QED BY <1>1, <1>2, PTL DEF LedgerSpec

\* No wallet is overdrawn, no money appears or vanishes and none is stranded in escrow:
\* processPayin, releaseEscrow, refundBuyer, partialRefund and the payouts balance
\* whatever reads and commits interleave, roll back or die half-way
THEOREM BooksBalance == LedgerSpec => []LedgerSound
<1>1. Inv /\ Balanced => TypeOK
  BY DEF Inv, Shape, Balanced, TypeOK, Call, Purse, Shelf
<1>2. Inv /\ Written /\ Balanced /\ Copied /\ NoDrift /\ EscrowBacked => LedgerSound
  BY <1>1 DEF LedgerSound
<1> QED BY <1>2, MoneyInvariance, PTL

-----------------------------------------------------------------------------
(***************************************************************************)
(* For any number of users, orders, disputes and requests: whatever the    *)
(* handlers of orders and shipments ask of the finance methods, the books  *)
(* balance.  The handlers move no money themselves (OwnStep), so what has  *)
(* to be proved is that they call the methods as EscrowLedger assumes:     *)
(* each request is about an order and carries no rows when it begins       *)
(* (Ready), and each step knows what it works on (Pointed).                *)
(*                                                                         *)
(* The next part is about requests that do not overlap.  What a request is *)
(* about to settle is then still LOCKED when it commits (LockedNow), so a  *)
(* row is settled once and the rest stays covered; with two requests at    *)
(* once both fail.                                                         *)
(*                                                                         *)
(* Then requests overlap again.  The composition implements Settlement. A  *)
(* seller is paid for goods that are gone, because whoever is about to pay *)
(* found them gone (AboutGone); and a cancelled or completed order ends    *)
(* with nothing LOCKED, because somebody is on his way to settle what is   *)
(* (DueInv).  Each is under the conditions without which it fails.         *)
(***************************************************************************)

\* The books, as the ledger keeps them
Books == Inv /\ Written /\ Balanced /\ Copied /\ NoDrift

\* The shape of what orders and shipments add
FlowShape ==
  /\ born \subseteq Orders
  /\ shipment \in [Orders -> [status : ShipmentStatus, driver : Transporters \cup {NoUser},
                              qr : BOOLEAN, scanned : BOOLEAN]]
  /\ dispute \in [Disputes -> [order : Orders \cup {NoOrder},
                               status : {"NONE", "OPEN", "RESOLVED"}]]

\* Where a finance method's caller goes on, and where a dispute is resolved
Continuations == {"idle", "compensate", "markCompleted", "markCancelled"}
Resolving == {"resolvePay", "resolveRefund", "resolveSplit"}

\* A request knows what its step works on
WellPointed(c) ==
  /\ c.at \in OwnSteps \ {"idle"} => c.order \in Orders
  /\ c.at \in Resolving => c.arg \in Disputes
  /\ c.at = "assign" => c.arg \in Transporters
  /\ c.at \in FinanceSteps => c.then \in Continuations /\ c.catch \in Continuations
Pointed == \A p \in Procs : WellPointed(call[p])

\* The inductive invariant
FlowInv == Books /\ FlowShape /\ Pointed

\* A request that may be begun
Ready(c) ==
  /\ c \in Call /\ c.rows = {} /\ c.at # "confirm"
  /\ c.at \in FinanceSteps => c.order \in Orders
  /\ WellPointed(c)

-----------------------------------------------------------------------------
(* The requests the handlers begin                                         *)

\* The steps of this module, of the finance methods, and where the latter return to
LEMMA StepsApart ==
  /\ CallerSteps = OwnSteps /\ OwnSteps \cap FinanceSteps = {}
  /\ Continuations \subseteq OwnSteps /\ Resolving \subseteq OwnSteps
  /\ Continuations \cap Resolving = {} /\ "assign" \in OwnSteps \ Continuations
  BY LedgerAssumption, FlowAssumption DEF OwnSteps, Continuations, Resolving

\* A request that goes on with one that may be begun
LEMMA GoStep ==
  ASSUME Inv, Pointed, NEW p \in Procs, NEW c, Ready(c), Go(p, c)
  PROVE  Calmly(p) /\ Pointed'
<1>1. call' = [call EXCEPT ![p] = c]
  BY DEF Go
<1> QED BY <1>1 DEF Inv, Shape, Pointed, Calmly, Ready

\* The requests the handlers begin may be begun
LEMMA OwnReady ==
  ASSUME NEW step \in OwnSteps, NEW o \in Orders, NEW a \in Args \cup {NoArg},
         step \in Resolving => a \in Disputes, step = "assign" => a \in Transporters
  PROVE  Ready(Own(step, o, a))
<1>1. step \in Steps /\ step \notin FinanceSteps /\ step # "confirm"
  BY StepsApart DEF Steps, FinanceSteps
<1> QED BY <1>1, IdleType DEF Ready, WellPointed, Own, Idle, Call

LEMMA IdleReady == Ready(Idle)
<1>1. "idle" \notin FinanceSteps
  BY LedgerAssumption
<1> QED BY <1>1, IdleType DEF Ready, WellPointed, Idle, Resolving

LEMMA RequestReady ==
  ASSUME NEW step \in {"payin", "release", "refund", "split"}, NEW o \in Orders,
         NEW kinds \in SUBSET Kinds, NEW pct \in 0..100,
         NEW t \in Continuations, NEW u \in Continuations
  PROVE  Ready(Request(step, o, kinds, pct, t, u))
<1>1. t \in CallerSteps /\ u \in CallerSteps
  BY StepsApart
<1>2. Fresh(Request(step, o, kinds, pct, t, u))
  BY <1>1, RequestType
<1>3. /\ step \in FinanceSteps /\ step \notin OwnSteps
      /\ step \notin Resolving /\ step # "assign"
  BY StepsApart DEF FinanceSteps, Resolving
<1>4. /\ Request(step, o, kinds, pct, t, u).at = step
      /\ Request(step, o, kinds, pct, t, u).then = t
      /\ Request(step, o, kinds, pct, t, u).catch = u
  BY DEF Request, Idle
<1> QED BY <1>2, <1>3, <1>4 DEF Ready, WellPointed, Fresh

\* The kinds of row and the shares the handlers name
LEMMA NamedKinds ==
  /\ Kinds \in SUBSET Kinds /\ {"PRODUCT"} \in SUBSET Kinds /\ {"TRANSPORT"} \in SUBSET Kinds
  /\ {} \in SUBSET Kinds /\ 0 \in 0..100 /\ Splits \subseteq 0..100
  /\ "idle" \in Continuations /\ "compensate" \in Continuations
  /\ "markCompleted" \in Continuations /\ "markCancelled" \in Continuations
  BY LedgerAssumption DEF Kinds, Continuations

-----------------------------------------------------------------------------
(* The kinds of step                                                       *)

\* What the handlers do by themselves moves no money: rows are settled at most
LEMMA OwnStep ==
  ASSUME FlowInv, FlowShape', Pointed', AllCalm,
         UNCHANGED <<wallet, payin, withdrawn>>,
         order' \in [Orders -> OrderStatus], listing' \in [Listings -> Shelf],
         escrow' \in [Rows -> [status : RowStatus, benef : Users \cup {NoUser}]],
         \A r \in Rows : escrow'[r].status = "NONE" <=> escrow[r].status = "NONE"
  PROVE  FlowInv'
<1>1. Inv'
  BY CalmStep DEF FlowInv, Books
<1>2. Written' /\ Balanced'
  BY DEF FlowInv, Books, Written, Balanced
<1>3. Copied'
  BY FS_EmptySet DEF FlowInv, Books, Copied, AllCalm
<1>4. NoDrift'
  BY DEF FlowInv, Books, NoDrift, Drift, Payable
<1> QED BY <1>1, <1>2, <1>3, <1>4 DEF FlowInv, Books

\* One that begins request c, and writes no row
LEMMA BeginStep ==
  ASSUME FlowInv, NEW p \in Procs, NEW c, Ready(c), Go(p, c), FlowShape',
         UNCHANGED <<wallet, payin, escrow, withdrawn>>,
         order' \in [Orders -> OrderStatus], listing' \in [Listings -> Shelf]
  PROVE  FlowInv'
<1>1. Calmly(p) /\ Pointed'
  BY GoStep DEF FlowInv, Books
<1>2. AllCalm
  BY <1>1, WhoIsCalm DEF FlowInv, Books, Inv
<1> QED BY <1>1, <1>2, OwnStep DEF FlowInv, Books, Inv, Shape

\* The finance methods
LEMMA FinanceInv ==
  ASSUME FlowInv, NEW p \in Procs, Finance(p), UNCHANGED flowVars
  PROVE  FlowInv'
<1>1. Inv'
  BY PayinStep, ReadStep, CommitStep, GiveUpStep DEF FlowInv, Books, Finance
<1>2. Written' /\ Balanced' /\ Copied' /\ NoDrift'
  BY FinanceMoney DEF FlowInv, Books, BooksKept
<1>3. FlowShape'
  BY DEF FlowInv, FlowShape, flowVars
<1>4. call[p].at \in FinanceSteps
  BY Zenon DEF Finance, ProcessPayin, RefusePayin, ConfirmPayment, StockGone, ReadRelease,
         NothingToRelease, CommitRelease, AbortRelease, ReadRefund, CommitRefund,
         CommitSplit, AbortRefund, FinanceSteps
<1>5. /\ call[p] \in Call /\ call[p].order \in Orders /\ call \in [Procs -> Call]
      /\ call[p].then \in Continuations /\ call[p].catch \in Continuations
  BY <1>4, AtWork DEF FlowInv, Books, Pointed, WellPointed, Inv, Shape
<1>6. Pointed'
  <2>1. ASSUME NEW c, WellPointed(c), call' = [call EXCEPT ![p] = c] PROVE Pointed'
    BY <2>1, <1>5 DEF FlowInv, Pointed
  <2>2. CASE Return(p) \/ Throw(p)
    <3>1. PICK step \in Continuations :
            call' = [call EXCEPT ![p] = IF step = "idle" THEN Idle
                       ELSE [Idle EXCEPT !.at = step, !.order = call[p].order]]
      BY <1>5, <2>2 DEF Return, Throw, Resume
    <3>2. WellPointed(Idle)
      BY IdleReady DEF Ready
    <3>3. WellPointed([Idle EXCEPT !.at = step, !.order = call[p].order])
      BY <1>5, StepsApart DEF WellPointed, Idle
    <3> QED BY <2>1, <3>1, <3>2, <3>3
  <2>3. ASSUME NEW c, call' = [call EXCEPT ![p] = c], c.at \in FinanceSteps,
               c.then = call[p].then, c.catch = call[p].catch
        PROVE  Pointed'
    <3>1. WellPointed(c)
      BY <1>5, <2>3, StepsApart DEF WellPointed
    <3> QED BY <2>1, <2>3, <3>1
  <2>4. CASE ProcessPayin(p)
    <3>1. PICK i : call' = [call EXCEPT ![p] = [call[p] EXCEPT !.at = "confirm", !.payin = i]]
      BY <2>4 DEF ProcessPayin
    <3> DEFINE c == [call[p] EXCEPT !.at = "confirm", !.payin = i]
    <3>2. c.at \in FinanceSteps /\ c.then = call[p].then /\ c.catch = call[p].catch
      BY <1>5 DEF Call, FinanceSteps
    <3> QED BY <2>3, <3>1, <3>2
  <2>5. CASE ReadRelease(p)
    <3> DEFINE c == [call[p] EXCEPT !.at = "releaseCommit",
                       !.rows = Snapshot(call[p].order, call[p].kinds),
                       !.seen = order[call[p].order]]
    <3>1. call' = [call EXCEPT ![p] = c]
      BY <2>5 DEF ReadRelease
    <3>2. c.at \in FinanceSteps /\ c.then = call[p].then /\ c.catch = call[p].catch
      BY <1>5 DEF Call, FinanceSteps
    <3> QED BY <2>3, <3>1, <3>2
  <2>6. CASE ReadRefund(p) /\ ~Return(p)
    <3>1. PICK step \in {"refundCommit", "splitCommit"} :
            call' = [call EXCEPT ![p] = [call[p] EXCEPT !.at = step,
                       !.rows = Snapshot(call[p].order, Kinds)]]
      BY <2>6 DEF ReadRefund
    <3> DEFINE c == [call[p] EXCEPT !.at = step, !.rows = Snapshot(call[p].order, Kinds)]
    <3>2. c.at \in FinanceSteps /\ c.then = call[p].then /\ c.catch = call[p].catch
      BY <1>5 DEF Call, FinanceSteps
    <3> QED BY <2>3, <3>1, <3>2
  <2>7. ProcessPayin(p) \/ ReadRelease(p) \/ (ReadRefund(p) /\ ~Return(p))
          \/ Return(p) \/ Throw(p)
    BY Zenon DEF Finance, RefusePayin, ConfirmPayment, StockGone,
         NothingToRelease, CommitRelease, AbortRelease, CommitRefund,
         CommitSplit, AbortRefund
  <2> QED BY <2>2, <2>4, <2>5, <2>6, <2>7
<1> QED BY <1>1, <1>2, <1>3, <1>6 DEF FlowInv, Books

\* The handlers begin a request
LEMMA BeginInv ==
  ASSUME FlowInv, NEW p \in Procs, NEW o \in Orders, Begin(p, o)
  PROVE  FlowInv'
<1>0. /\ order \in [Orders -> OrderStatus] /\ listing \in [Listings -> Shelf]
      /\ FlowShape /\ Transporters \subseteq Args /\ Disputes \subseteq Args
  BY FlowAssumption DEF FlowInv, Books, Inv, Shape, Balanced
<1>1. ASSUME NEW c, Ready(c), Go(p, c), UNCHANGED <<shipment, dispute>>,
             born' = born \/ born' = born \cup {o},
             UNCHANGED <<wallet, order, payin, escrow, listing, withdrawn>>
      PROVE  FlowInv'
  <2>1. FlowShape'
    BY <1>0, <1>1 DEF FlowShape
  <2> QED BY <1>0, <1>1, <2>1, BeginStep
<1>2. CASE CreateOrder(p, o)
  <2>1. Ready(Request("payin", o, {}, 0, "idle", "compensate"))
    BY RequestReady, NamedKinds
  <2> QED BY <1>1, <1>2, <2>1 DEF CreateOrder
<1>3. CASE PayOrder(p, o)
  <2>1. Ready(Request("payin", o, {}, 0, "idle", "idle"))
    BY RequestReady, NamedKinds
  <2> QED BY <1>1, <1>3, <2>1 DEF PayOrder, flowVars
<1>4. ASSUME NEW kinds \in SUBSET Kinds PROVE Ready(CallRelease(o, kinds, "idle"))
  BY RequestReady, NamedKinds DEF CallRelease
<1>5. Ready(CallRefund(o))
  BY RequestReady, NamedKinds DEF CallRefund
<1>6. ASSUME NEW side, NEW s \in OrderStatus, UpdateStatus(p, o, side, s) PROVE FlowInv'
  <2>1. PICK c : Ready(c) /\ Go(p, c)
    <3>1. \/ Go(p, CallRefund(o)) \/ Go(p, CallRelease(o, Kinds, "idle")) \/ Go(p, Idle)
      BY <1>6 DEF UpdateStatus
    <3> QED BY <1>4, <1>5, <3>1, IdleReady, NamedKinds
  <2>2. listing' = listing \/ listing' = Restocked(o)
    BY <1>6 DEF UpdateStatus
  <2>3. listing' \in [Listings -> Shelf]
    BY <1>0, <2>2, RestockedType DEF FlowInv, Books
  <2>4. /\ order' = [order EXCEPT ![o] = s] /\ UNCHANGED <<born, shipment, dispute>>
        /\ UNCHANGED <<wallet, payin, escrow, withdrawn>>
    BY <1>6 DEF UpdateStatus, SetOrder, flowVars
  <2>5. order' \in [Orders -> OrderStatus] /\ FlowShape'
    BY <1>0, <2>4 DEF FlowShape
  <2> QED BY <2>1, <2>3, <2>4, <2>5, BeginStep
<1>7. CASE ConfirmDelivery(p, o)
  BY <1>1, <1>4, <1>7, NamedKinds DEF ConfirmDelivery, flowVars
<1>8. ASSUME NEW kinds \in {Kinds, {"PRODUCT"}, {"TRANSPORT"}}, ReleaseEscrowAdmin(p, o, kinds)
      PROVE  FlowInv'
  <2>1. kinds \in SUBSET Kinds
    BY NamedKinds
  <2> QED BY <1>1, <1>4, <1>8, <2>1 DEF ReleaseEscrowAdmin, flowVars
<1>9. ASSUME NEW step \in OwnSteps \ {"assign"}, NEW a \in Args \cup {NoArg},
             step \in Resolving => a \in Disputes, Go(p, Own(step, o, a)),
             UNCHANGED <<wallet, order, payin, escrow, listing, withdrawn, flowVars>>
      PROVE  FlowInv'
  <2>1. Ready(Own(step, o, a))
    BY <1>9, OwnReady
  <2> QED BY <1>1, <1>9, <2>1 DEF flowVars
<1>10. ASSUME NEW step \in OwnSteps \ {"assign"}, step \notin Resolving,
              Go(p, Own(step, o, NoArg)),
              UNCHANGED <<wallet, order, payin, escrow, listing, withdrawn, flowVars>>
       PROVE  FlowInv'
  BY <1>9, <1>10
<1>11. CASE CheckDispute(p, o)
  BY <1>10, <1>11 DEF CheckDispute, OwnSteps, Resolving
<1>12. ASSUME NEW step \in Resolving, CheckResolve(p, o, step) PROVE FlowInv'
  <2>1. PICK d \in Disputes : Go(p, Own(step, o, d))
    BY <1>12 DEF CheckResolve, OpenDisputes
  <2>2. step \in OwnSteps \ {"assign"} /\ d \in Args \cup {NoArg}
    BY <1>0, StepsApart DEF Resolving
  <2>3. UNCHANGED <<wallet, order, payin, escrow, listing, withdrawn, flowVars>>
    BY <1>12 DEF CheckResolve
  <2> QED BY <1>9, <2>1, <2>2, <2>3
<1>13. ASSUME NEW t \in Transporters, AcceptShipment(p, o, t) PROVE FlowInv'
  <2>1. Ready(Own("assign", o, t))
    <3>1. "assign" \in OwnSteps /\ "assign" \notin Resolving /\ t \in Args
      BY <1>0 DEF OwnSteps, Resolving
    <3> QED BY <3>1, OwnReady
  <2>2. /\ Go(p, Own("assign", o, t)) /\ born' = born /\ dispute' = dispute
        /\ UNCHANGED <<wallet, order, payin, escrow, listing, withdrawn>>
        /\ shipment' = [shipment EXCEPT ![o] = [shipment[o] EXCEPT !.driver = t,
                                                                   !.status = "ACCEPTED"]]
    BY <1>13 DEF AcceptShipment, SetShipment
  <2>3. FlowShape'
    BY <1>0, <2>2 DEF FlowShape, ShipmentStatus
  <2> QED BY <1>0, <2>1, <2>2, <2>3, BeginStep
<1>14. ASSUME NEW s \in ShipmentStatus, CheckShipment(p, o, s) PROVE FlowInv'
  <2>1. /\ s \in OwnSteps \ {"assign"} /\ s \notin Resolving
        /\ UNCHANGED <<wallet, order, payin, escrow, listing, withdrawn, flowVars>>
    BY <1>14 DEF CheckShipment, OwnSteps, ShipmentStatus, Resolving
  <2>2. PICK handler \in {NoArg, shipment[o].driver} : Go(p, Own(s, o, handler))
    BY <1>14 DEF CheckShipment
  <2>3. handler \in Args \cup {NoArg}
    <3>1. shipment[o].driver # NoUser
      BY <1>14 DEF CheckShipment
    <3> QED BY <1>0, <3>1 DEF FlowShape
  <2> QED BY <1>9, <2>1, <2>2, <2>3
<1>15. CASE CheckQr(p, o)
  BY <1>10, <1>15 DEF CheckQr, OwnSteps, Resolving
<1>16. CASE CheckScan(p, o)
  <2>1. shipment[o].driver \in Args \cup {NoArg}
    BY <1>0, <1>16 DEF CheckScan, FlowShape
  <2>2. "scan" \in OwnSteps \ {"assign"} /\ "scan" \notin Resolving
    BY DEF OwnSteps, Resolving
  <2> QED BY <1>9, <1>16, <2>1, <2>2 DEF CheckScan
<1>17. CASE SweepOrder(p, o)
  BY <1>10, <1>17 DEF SweepOrder, OwnSteps, Resolving
<1>18. CASE ListShipment(p, o)
  BY <1>10, <1>18 DEF ListShipment, OwnSteps, Resolving
<1> QED BY <1>2, <1>3, <1>6, <1>7, <1>8, <1>11, <1>12, <1>13, <1>14, <1>15, <1>16,
           <1>17, <1>18, Zenon DEF Begin, Resolving

\* The requests of a single step
LEMMA OneShotInv ==
  ASSUME FlowInv, NEW o \in Orders, OneShot(o)
  PROVE  FlowInv'
<1>0. /\ Inv /\ Shape /\ FlowShape /\ Pointed /\ listing \in [Listings -> Shelf]
  BY DEF FlowInv, Books, Inv, Balanced
<1>1. UNCHANGED <<wallet, order, payin, listing, withdrawn, call, dispute>>
  BY DEF OneShot, NegotiatedOrder, CancelShipment, ledgerVars
<1>2. AllCalm /\ Pointed'
  BY <1>0, <1>1, WhoIsCalm DEF Pointed
<1>3. CASE NegotiatedOrder(o)
  <2>1. UNCHANGED <<escrow, shipment>> /\ born' = born \cup {o}
    BY <1>3 DEF NegotiatedOrder, ledgerVars
  <2>2. FlowShape'
    BY <1>0, <1>1, <2>1 DEF FlowShape
  <2> QED BY <1>0, <1>1, <1>2, <2>1, <2>2, OwnStep DEF Shape
<1>4. CASE CancelShipment(o)
  <2>1. PICK t \in Users : escrow' = Unassigned(o, t)
    <3>1. shipment[o].driver \in Transporters /\ Transporters \subseteq Users
      BY <1>0, <1>4, LedgerAssumption DEF CancelShipment, FlowShape
    <3> QED BY <1>4, <3>1 DEF CancelShipment
  <2>2. /\ born' = born
        /\ shipment' = [shipment EXCEPT ![o] = [shipment[o] EXCEPT !.driver = NoUser,
                                                                   !.status = "CANCELLED"]]
    BY <1>4 DEF CancelShipment, SetShipment
  <2>3. FlowShape'
    BY <1>0, <1>1, <2>2 DEF FlowShape, ShipmentStatus
  <2>4. /\ escrow' \in [Rows -> [status : RowStatus, benef : Users \cup {NoUser}]]
        /\ \A r \in Rows : escrow'[r].status = "NONE" <=> escrow[r].status = "NONE"
    BY <1>0, <2>1, BeneficiaryType
  <2> QED BY <1>0, <1>1, <1>2, <2>3, <2>4, OwnStep DEF Shape
<1> QED BY <1>3, <1>4 DEF OneShot

\* A handler goes on about the order it began with
LEMMA GoOnInv ==
  ASSUME FlowInv, NEW p \in Procs, GoOn(p)
  PROVE  FlowInv'
<1>0. /\ Inv /\ Shape /\ FlowShape /\ Pointed /\ listing \in [Listings -> Shelf]
      /\ Transporters \subseteq Users /\ WellPointed(call[p])
  BY LedgerAssumption DEF FlowInv, Books, Inv, Balanced, Pointed
<1>1. ASSUME NEW o \in Orders, NEW c, Ready(c), Go(p, c),
             UNCHANGED <<wallet, payin, escrow, withdrawn, born>>,
             order' = order \/ \E s \in OrderStatus : order' = [order EXCEPT ![o] = s],
             listing' = listing \/ listing' = Restocked(o),
             shipment' = shipment
               \/ \E s \in ShipmentStatus, qr \in BOOLEAN, scanned \in BOOLEAN :
                    shipment' = [shipment EXCEPT ![o] =
                      [status |-> s, driver |-> shipment[o].driver, qr |-> qr,
                       scanned |-> scanned]],
             dispute' = dispute
               \/ \E d \in Disputes : \E s \in {"OPEN", "RESOLVED"}, x \in {o, dispute[d].order} :
                    dispute' = [dispute EXCEPT ![d] = [order |-> x, status |-> s]]
      PROVE  FlowInv'
  <2>1. order' \in [Orders -> OrderStatus]
    BY <1>0, <1>1 DEF Shape
  <2>2. listing' \in [Listings -> Shelf]
    BY <1>0, <1>1, RestockedType DEF FlowInv, Books
  <2>3. shipment' \in [Orders -> [status : ShipmentStatus, driver : Transporters \cup {NoUser},
                                  qr : BOOLEAN, scanned : BOOLEAN]]
    BY <1>0, <1>1 DEF FlowShape
  <2>4. dispute' \in [Disputes -> [order : Orders \cup {NoOrder},
                                   status : {"NONE", "OPEN", "RESOLVED"}]]
    BY <1>0, <1>1 DEF FlowShape
  <2>5. FlowShape'
    BY <1>0, <1>1, <2>3, <2>4 DEF FlowShape
  <2> QED BY <1>1, <2>1, <2>2, <2>5, BeginStep
<1>2. ASSUME call[p].at \in OwnSteps \ {"idle"}
      PROVE  call[p].order \in Orders
  BY <1>0, <1>2 DEF WellPointed
<1>3. CASE Compensate(p)
  <2>1. PICK o \in Orders : o = call[p].order
    BY <1>2, <1>3 DEF Compensate, At, OwnSteps
  <2>2. Ready(CallRefund(o)) /\ Ready(Idle)
    BY RequestReady, NamedKinds, IdleReady DEF CallRefund
  <2>3. /\ UNCHANGED <<wallet, payin, escrow, withdrawn, born, shipment, dispute>>
        /\ order' = order \/ order' = [order EXCEPT ![o] = "CANCELLED"]
        /\ listing' = listing \/ listing' = Restocked(o)
        /\ Go(p, Idle) \/ Go(p, CallRefund(o))
    BY <1>3, <2>1 DEF Compensate, flowVars, SetOrder
  <2> QED BY <1>1, <2>2, <2>3 DEF OrderStatus
<1>4. CASE OpenDispute(p)
  <2>1. PICK o \in Orders : o = call[p].order
    BY <1>2, <1>4 DEF OpenDispute, At, OwnSteps
  <2>2. /\ UNCHANGED <<wallet, payin, escrow, listing, withdrawn, born, shipment>>
        /\ order' = [order EXCEPT ![o] = "DISPUTED"] /\ Go(p, Idle)
        /\ \E d \in Disputes : dispute' = [dispute EXCEPT ![d] = [order |-> o, status |-> "OPEN"]]
    BY <1>4, <2>1 DEF OpenDispute, SetOrder
  <2> QED BY <1>1, <2>2, IdleReady DEF OrderStatus
<1>5. CASE Resolve(p)
  <2>1. call[p].at \in Resolving
    BY <1>5 DEF Resolve, At, Resolving
  <2>2. PICK o \in Orders, d \in Disputes : o = call[p].order /\ d = call[p].arg
    BY <1>0, <1>2, <2>1, StepsApart DEF WellPointed, Continuations
  <2>3. /\ UNCHANGED <<wallet, order, payin, escrow, listing, withdrawn, born, shipment>>
        /\ dispute' = [dispute EXCEPT ![d] = [order |-> dispute[d].order, status |-> "RESOLVED"]]
    <3>1. dispute[d] \in [order : Orders \cup {NoOrder}, status : {"NONE", "OPEN", "RESOLVED"}]
      BY <1>0 DEF FlowShape
    <3>2. [dispute[d] EXCEPT !.status = "RESOLVED"]
            = [order |-> dispute[d].order, status |-> "RESOLVED"]
      BY <3>1
    <3>3. dispute' = [dispute EXCEPT ![d] = [dispute[d] EXCEPT !.status = "RESOLVED"]]
      BY <1>5, <2>2 DEF Resolve
    <3> QED BY <1>5, <3>2, <3>3, Zenon DEF Resolve
  <2>4. PICK c : Ready(c) /\ Go(p, c)
    <3>1. /\ Ready(CallRelease(o, Kinds, "markCompleted"))
          /\ Ready(Request("refund", o, {}, 0, "markCancelled", "idle"))
          /\ \A pct \in Splits : Ready(Request("split", o, {}, pct, "markCompleted", "idle"))
      BY RequestReady, NamedKinds DEF CallRelease
    <3> QED BY <1>5, <2>2, <3>1 DEF Resolve
  <2> QED BY <1>1, <2>3, <2>4
<1>6. CASE CloseDispute(p)
  <2>1. PICK o \in Orders : o = call[p].order
    BY <1>2, <1>6 DEF CloseDispute, At, OwnSteps
  <2>2. /\ UNCHANGED <<wallet, payin, escrow, listing, withdrawn, born, shipment, dispute>>
        /\ Go(p, Idle)
        /\ order' = [order EXCEPT ![o] = "COMPLETED"] \/ order' = [order EXCEPT ![o] = "CANCELLED"]
    BY <1>6, <2>1 DEF CloseDispute, SetOrder, flowVars
  <2> QED BY <1>1, <2>2, IdleReady DEF OrderStatus
<1>7. CASE AssignBeneficiary(p)
  <2>1. PICK t \in Users : escrow' = Assigned(call[p].order, t)
    BY <1>0, <1>7 DEF AssignBeneficiary, At, WellPointed
  <2>2. /\ UNCHANGED <<wallet, order, payin, listing, withdrawn, born, shipment, dispute>>
        /\ Go(p, Idle)
    BY <1>7 DEF AssignBeneficiary, flowVars
  <2>3. Calmly(p) /\ Pointed'
    BY <1>0, <2>2, IdleReady, GoStep
  <2>4. AllCalm
    BY <1>0, <2>3, WhoIsCalm
  <2>5. FlowShape'
    BY <1>0, <2>2 DEF FlowShape
  <2>6. /\ escrow' \in [Rows -> [status : RowStatus, benef : Users \cup {NoUser}]]
        /\ \A r \in Rows : escrow'[r].status = "NONE" <=> escrow[r].status = "NONE"
    BY <1>0, <2>1, BeneficiaryType
  <2> QED BY <1>0, <2>2, <2>3, <2>4, <2>5, <2>6, OwnStep DEF Shape
<1>8. CASE MoveShipment(p)
  <2>1. PICK o \in Orders : o = call[p].order
    BY <1>2, <1>8 DEF MoveShipment, OwnSteps, ShipmentStatus
  <2>2. PICK s \in ShipmentStatus : s = call[p].at
    BY <1>8 DEF MoveShipment
  <2>3. /\ UNCHANGED <<wallet, payin, escrow, listing, withdrawn, born, dispute>> /\ Go(p, Idle)
        /\ shipment' = [shipment EXCEPT ![o] = [shipment[o] EXCEPT !.status = s]]
        /\ order' = order \/ order' = [order EXCEPT ![o] = "DELIVERED"]
    BY <1>8, <2>1, <2>2 DEF MoveShipment, SetShipment, SetOrder
  <2>4. PICK qr \in BOOLEAN, scanned \in BOOLEAN :
          [shipment[o] EXCEPT !.status = s] =
            [status |-> s, driver |-> shipment[o].driver, qr |-> qr, scanned |-> scanned]
    BY <1>0 DEF FlowShape
  <2>5. shipment' = [shipment EXCEPT ![o] =
          [status |-> s, driver |-> shipment[o].driver, qr |-> qr, scanned |-> scanned]]
    BY <2>3, <2>4
  <2>6. order' = order \/ \E x \in OrderStatus : order' = [order EXCEPT ![o] = x]
    BY <2>3 DEF OrderStatus
  <2>7. UNCHANGED <<wallet, payin, escrow, withdrawn, born>> /\ listing' = listing
        /\ dispute' = dispute /\ Go(p, Idle)
    BY <2>3
  <2> QED BY <1>1, <2>5, <2>6, <2>7, IdleReady
<1>9. CASE SweepShipment(p)
  <2>1. PICK o \in Orders : o = call[p].order
    BY <1>2, <1>9 DEF SweepShipment, At, OwnSteps
  <2>2. /\ UNCHANGED <<wallet, order, payin, listing, withdrawn, born, dispute>> /\ Go(p, Idle)
        /\ shipment' = [shipment EXCEPT ![o] = [shipment[o] EXCEPT !.status = "CANCELLED"]]
        /\ Settle({r \in LockedRows(o) : r[2] = "TRANSPORT"}, "REFUNDED")
    BY <1>9, <2>1 DEF SweepShipment, SetShipment
  <2>3. Calmly(p) /\ Pointed'
    BY <1>0, <2>2, IdleReady, GoStep
  <2>4. AllCalm
    BY <1>0, <2>3, WhoIsCalm
  <2>5. FlowShape'
    BY <1>0, <2>2 DEF FlowShape, ShipmentStatus
  <2>6. /\ escrow' \in [Rows -> [status : RowStatus, benef : Users \cup {NoUser}]]
        /\ \A r \in Rows : escrow'[r].status = "NONE" <=> escrow[r].status = "NONE"
    BY <1>0, <2>2 DEF Settle, Shape, RowStatus, LockedRows
  <2> QED BY <1>0, <2>2, <2>3, <2>4, <2>5, <2>6, OwnStep DEF Shape
<1>10. CASE SignQr(p)
  <2>1. PICK o \in Orders : o = call[p].order
    BY <1>2, <1>10 DEF SignQr, At, OwnSteps
  <2>2. /\ UNCHANGED <<wallet, order, payin, escrow, listing, withdrawn, born, dispute>>
        /\ Go(p, Idle)
        /\ shipment' = [shipment EXCEPT ![o] = [shipment[o] EXCEPT !.qr = TRUE]]
    BY <1>10, <2>1 DEF SignQr, SetShipment
  <2>3. PICK s \in ShipmentStatus, scanned \in BOOLEAN :
          [shipment[o] EXCEPT !.qr = TRUE] =
            [status |-> s, driver |-> shipment[o].driver, qr |-> TRUE, scanned |-> scanned]
    <3>1. shipment[o] \in [status : ShipmentStatus, driver : Transporters \cup {NoUser},
                           qr : BOOLEAN, scanned : BOOLEAN]
      BY <1>0 DEF FlowShape
    <3>2. [shipment[o] EXCEPT !.qr = TRUE] =
            [status |-> shipment[o].status, driver |-> shipment[o].driver, qr |-> TRUE,
             scanned |-> shipment[o].scanned]
      <4>1. \A b \in BOOLEAN : [shipment[o] EXCEPT !.qr = b] =
              [status |-> shipment[o].status, driver |-> shipment[o].driver, qr |-> b,
               scanned |-> shipment[o].scanned]
        BY <3>1
      <4> QED BY <4>1, Zenon
    <3>3. shipment[o].status \in ShipmentStatus /\ shipment[o].scanned \in BOOLEAN
      BY <3>1
    <3> QED BY <3>2, <3>3, Zenon
  <2> QED BY <1>1, <2>2, <2>3, IdleReady
<1>11. CASE ScanPickup(p)
  <2>1. PICK o \in Orders : o = call[p].order
    BY <1>2, <1>11 DEF ScanPickup, At, OwnSteps
  <2>2. /\ UNCHANGED <<wallet, order, payin, escrow, listing, withdrawn, born, dispute>>
        /\ Go(p, CallRelease(o, {"PRODUCT"}, "idle"))
        /\ shipment' = [shipment EXCEPT ![o] = [shipment[o] EXCEPT !.status = "LOADING",
                                                                   !.scanned = TRUE]]
    BY <1>11, <2>1 DEF ScanPickup, SetShipment
  <2>3. PICK qr \in BOOLEAN :
          [shipment[o] EXCEPT !.status = "LOADING", !.scanned = TRUE] =
            [status |-> "LOADING", driver |-> shipment[o].driver, qr |-> qr, scanned |-> TRUE]
    <3>1. shipment[o] \in [status : ShipmentStatus, driver : Transporters \cup {NoUser},
                           qr : BOOLEAN, scanned : BOOLEAN]
      BY <1>0 DEF FlowShape
    <3>2. [shipment[o] EXCEPT !.status = "LOADING", !.scanned = TRUE] =
            [status |-> "LOADING", driver |-> shipment[o].driver, qr |-> shipment[o].qr,
             scanned |-> TRUE]
      <4>1. \A b \in BOOLEAN : [shipment[o] EXCEPT !.status = "LOADING", !.scanned = b] =
              [status |-> "LOADING", driver |-> shipment[o].driver, qr |-> shipment[o].qr,
               scanned |-> b]
        <5> SUFFICES ASSUME NEW b \in BOOLEAN
                     PROVE  [shipment[o] EXCEPT !.status = "LOADING", !.scanned = b] =
                              [status |-> "LOADING", driver |-> shipment[o].driver,
                               qr |-> shipment[o].qr, scanned |-> b]
          OBVIOUS
        <5> DEFINE f == [shipment[o] EXCEPT !.status = "LOADING"]
        <5>1. /\ f \in [status : ShipmentStatus, driver : Transporters \cup {NoUser},
                        qr : BOOLEAN, scanned : BOOLEAN]
              /\ f.status = "LOADING" /\ f.driver = shipment[o].driver /\ f.qr = shipment[o].qr
          BY <3>1 DEF ShipmentStatus
        <5> HIDE DEF f
        <5>2. [f EXCEPT !.scanned = b] = [status |-> "LOADING", driver |-> shipment[o].driver,
                                          qr |-> shipment[o].qr, scanned |-> b]
          BY <5>1
        <5>3. [shipment[o] EXCEPT !.status = "LOADING", !.scanned = b] = [f EXCEPT !.scanned = b]
          BY DEF f
        <5> QED BY <5>2, <5>3
      <4> QED BY <4>1, Zenon
    <3> QED BY <3>1, <3>2
  <2>4. Ready(CallRelease(o, {"PRODUCT"}, "idle"))
    BY RequestReady, NamedKinds DEF CallRelease
  <2> QED BY <1>1, <2>2, <2>3, <2>4 DEF ShipmentStatus
<1>12. CASE Finance(p) /\ UNCHANGED flowVars
  BY <1>12, FinanceInv
<1> QED BY <1>3, <1>4, <1>5, <1>6, <1>7, <1>8, <1>9, <1>10, <1>11, <1>12, Zenon DEF GoOn

-----------------------------------------------------------------------------
(* The theorems                                                            *)

LEMMA FlowInitInv == Init => FlowInv
<1> SUFFICES ASSUME Init PROVE FlowInv
  OBVIOUS
<1>1. LedgerInit
  BY DEF Init
<1>2. FlowShape
  BY DEF Init, FlowShape, ShipmentStatus
<1>3. Pointed
  BY <1>1, IdleReady DEF LedgerInit, Pointed, Ready
<1> QED BY <1>1, <1>2, <1>3, InitInv, InitMoney DEF FlowInv, Books

\* Every step keeps the invariant
LEMMA FlowNextInv == FlowInv /\ [Next]_vars => FlowInv'
<1> SUFFICES ASSUME FlowInv, [Next]_vars PROVE FlowInv'
  OBVIOUS
<1>1. ASSUME NEW p \in Procs, Die(p) PROVE FlowInv'
  <2>1. Go(p, Idle) /\ UNCHANGED <<wallet, order, payin, escrow, listing, withdrawn>>
        /\ UNCHANGED flowVars
    BY <1>1 DEF Die, Crash, Resume, Go
  <2>2. FlowShape' /\ order' \in [Orders -> OrderStatus] /\ listing' \in [Listings -> Shelf]
    BY <2>1 DEF FlowInv, FlowShape, flowVars, Books, Inv, Shape, Balanced
  <2> QED BY <2>1, <2>2, IdleReady, BeginStep
<1>2. CASE UNCHANGED vars
  <2>1. AllCalm
    BY <1>2, WhoIsCalm DEF vars, FlowInv, Books, Inv
  <2>2. FlowShape' /\ Pointed'
    BY <1>2 DEF vars, flowVars, FlowInv, FlowShape, Pointed
  <2>3. UNCHANGED <<wallet, order, payin, escrow, listing, withdrawn>>
    BY <1>2 DEF vars
  <2> QED BY <2>1, <2>2, <2>3, OwnStep DEF FlowInv, Books, Inv, Shape, Balanced
<1> QED BY <1>1, <1>2, BeginInv, GoOnInv, OneShotInv, Zenon DEF Next

\* The inductive invariant of orders and logistics
LEMMA FlowInvariance == Spec => []FlowInv
  BY FlowInitInv, FlowNextInv, PTL DEF Spec

\* Whatever the handlers of orders, disputes and shipments ask of the finance methods, and
\* whatever overlaps: types hold (no wallet is overdrawn) and reconcile() finds no drift
THEOREM FlowIsSound == Spec => []FlowSound
<1>1. FlowInv => FlowSound
  BY DEF FlowInv, Books, Inv, Shape, Balanced, Purse, Shelf, Call, FlowShape, TypeOK,
         FlowTypeOK, FlowSound
<1> QED BY <1>1, FlowInvariance, PTL

\* A mission is never taken over from a transporter: acceptShipment tests under the row lock
\* that it has none
THEOREM MissionsPassThroughNobody == Spec => OneMission
<1>1. FlowInv /\ [Next]_vars
        => [\A o \in Orders : shipment'[o].driver # shipment[o].driver
              => NoUser \in {shipment[o].driver, shipment'[o].driver}]_vars
  <2> SUFFICES ASSUME FlowInv, [Next]_vars, NEW o \in Orders,
                      shipment'[o].driver # shipment[o].driver
               PROVE  NoUser \in {shipment[o].driver, shipment'[o].driver}
    BY Zenon
  <2>1. shipment' # shipment
    OBVIOUS
  <2>2. shipment \in [Orders -> [status : ShipmentStatus, driver : Transporters \cup {NoUser},
                                 qr : BOOLEAN, scanned : BOOLEAN]]
    BY DEF FlowInv, FlowShape
  <2>3. ASSUME NEW p \in Procs, NEW x \in Orders, Begin(p, x)
        PROVE  \E t \in Transporters : AcceptShipment(p, x, t)
    BY <2>1, <2>3, Zenon DEF Begin, CreateOrder, PayOrder, UpdateStatus, ConfirmDelivery,
       ReleaseEscrowAdmin, CheckDispute, CheckResolve, CheckShipment, CheckQr, CheckScan,
       SweepOrder, ListShipment, flowVars
  <2>4. ASSUME NEW p \in Procs, NEW x \in Orders, Begin(p, x)
        PROVE  NoUser \in {shipment[o].driver, shipment'[o].driver}
    BY <2>2, <2>3, <2>4 DEF AcceptShipment, SetShipment
  <2>5. ASSUME NEW x \in Orders, OneShot(x)
        PROVE  NoUser \in {shipment[o].driver, shipment'[o].driver}
    BY <2>1, <2>2, <2>5 DEF OneShot, NegotiatedOrder, CancelShipment, SetShipment
  <2>6. ASSUME NEW p \in Procs, GoOn(p) \/ Die(p) PROVE FALSE
    <3>1. MoveShipment(p) \/ SweepShipment(p) \/ SignQr(p) \/ ScanPickup(p)
      BY <2>1, <2>6, Zenon DEF GoOn, Die, Compensate, OpenDispute, Resolve, CloseDispute,
         AssignBeneficiary, flowVars
    <3>2. PICK x \in Orders : x = call[p].order
      BY <3>1 DEF FlowInv, Pointed, WellPointed, MoveShipment, SweepShipment, SignQr, ScanPickup,
                  At, OwnSteps, ShipmentStatus
    <3>3. shipment[x] \in [status : ShipmentStatus, driver : Transporters \cup {NoUser},
                           qr : BOOLEAN, scanned : BOOLEAN]
      BY <2>2
    <3>4. PICK f : shipment' = [shipment EXCEPT ![x] = f] /\ f.driver = shipment[x].driver
      <4>1. CASE MoveShipment(p)
        BY <3>2, <3>3, <4>1 DEF MoveShipment, SetShipment
      <4>2. CASE SweepShipment(p)
        BY <3>2, <3>3, <4>2 DEF SweepShipment, SetShipment
      <4>3. CASE SignQr(p)
        BY <3>2, <3>3, <4>3 DEF SignQr, SetShipment
      <4>4. CASE ScanPickup(p)
        BY <3>2, <3>3, <4>4 DEF ScanPickup, SetShipment
      <4> QED BY <3>1, <4>1, <4>2, <4>3, <4>4
    <3> QED BY <2>2, <3>4
  <2>7. CASE UNCHANGED vars
    BY <2>1, <2>7 DEF vars, flowVars
  <2> QED BY <2>4, <2>5, <2>6, <2>7, Zenon DEF Next
<1> QED BY <1>1, FlowInvariance, PTL DEF Spec, OneMission

-----------------------------------------------------------------------------
(* One request at a time                                                   *)

\* What the request carries is still LOCKED
LockedNow == \A p \in Procs : HoldsLocked(p)

AloneInv == FlowInv /\ EscrowCovered /\ LockedNow

\* What a handler does besides calling the finance methods and sweeping a mission: no money
\* moves, no row changes its status, and the request it goes on with carries no rows
Aside ==
  /\ UNCHANGED <<wallet, payin, withdrawn>>
  /\ \A r \in Rows : escrow'[r].status = escrow[r].status
  /\ \A q \in Procs : call'[q] = call[q] \/ call'[q].rows = {}

\* Requests at rest, of this module or just begun carry no rows
LEMMA NoRows ==
  /\ Idle.rows = {}
  /\ \A step, o, a : Own(step, o, a).rows = {}
  /\ \A step, o, kinds, pct, t, u : Request(step, o, kinds, pct, t, u).rows = {}
  BY DEF Idle, Own, Request

\* A handler that writes no row and goes on with such a request
LEMMA GoAside ==
  ASSUME FlowInv, NEW p \in Procs, NEW c, c.rows = {}, Go(p, c),
         UNCHANGED <<wallet, payin, withdrawn, escrow>>
  PROVE  Aside
<1>1. call \in [Procs -> Call]
  BY DEF FlowInv, Books, Inv, Shape
<1> QED BY <1>1 DEF Aside, Go

\* The steps of a finance method that a handler calls it at
Calls == {"payin", "release", "refund", "split"}

\* A request begins at a step of this module or with a call of a finance method
LEMMA BeginsWith ==
  ASSUME NEW p \in Procs, NEW o \in Orders, Begin(p, o)
  PROVE  \/ \E step \in OwnSteps : \E a : Go(p, Own(step, o, a))
         \/ \E step \in Calls : \E kinds, t, u : Go(p, Request(step, o, kinds, 0, t, u))
         \/ Go(p, Idle)
<1>0. /\ "payin" \in Calls /\ "release" \in Calls /\ "refund" \in Calls
      /\ ShipmentStatus \subseteq OwnSteps /\ "dispute" \in OwnSteps /\ "assign" \in OwnSteps
      /\ {"resolvePay", "resolveRefund", "resolveSplit"} \subseteq OwnSteps
      /\ "signQr" \in OwnSteps /\ "scan" \in OwnSteps /\ "compensate" \in OwnSteps
      /\ "sweepShipment" \in OwnSteps
  BY DEF Calls, OwnSteps
<1>1. CASE \E side, s : UpdateStatus(p, o, side, s)
  BY <1>0, <1>1 DEF UpdateStatus, CallRelease, CallRefund
<1>2. CASE \E s \in ShipmentStatus : CheckShipment(p, o, s)
  BY <1>0, <1>2, Zenon DEF CheckShipment
<1>3. CASE \E step \in {"resolvePay", "resolveRefund", "resolveSplit"} : CheckResolve(p, o, step)
  BY <1>0, <1>3, Zenon DEF CheckResolve
<1>4. CASE CreateOrder(p, o) \/ PayOrder(p, o)
  BY <1>0, <1>4, Zenon DEF CreateOrder, PayOrder
<1>5. CASE ConfirmDelivery(p, o) \/ \E kinds : ReleaseEscrowAdmin(p, o, kinds)
  BY <1>0, <1>5, Zenon DEF ConfirmDelivery, ReleaseEscrowAdmin, CallRelease
<1>6. CASE CheckDispute(p, o) \/ \E t : AcceptShipment(p, o, t)
  BY <1>0, <1>6, Zenon DEF CheckDispute, AcceptShipment
<1>7. CASE CheckQr(p, o) \/ CheckScan(p, o) \/ SweepOrder(p, o) \/ ListShipment(p, o)
  BY <1>0, <1>7, Zenon DEF CheckQr, CheckScan, SweepOrder, ListShipment
<1> QED BY <1>1, <1>2, <1>3, <1>4, <1>5, <1>6, <1>7, Zenon DEF Begin

\* Every step is one of these, a finance method, or the sweep of a mission
LEMMA AsideSteps ==
  ASSUME FlowInv, [Next]_vars
  PROVE  Aside \/ \E p \in Procs : Finance(p) \/ SweepShipment(p)
<1>0. /\ call \in [Procs -> Call]
      /\ escrow \in [Rows -> [status : RowStatus, benef : Users \cup {NoUser}]]
  BY DEF FlowInv, Books, Inv, Shape
<1>1. ASSUME NEW p \in Procs, NEW o \in Orders, Begin(p, o) PROVE Aside
  <2>1. UNCHANGED <<wallet, payin, withdrawn, escrow>>
    BY <1>1, Zenon DEF Begin, CreateOrder, PayOrder, UpdateStatus, ConfirmDelivery,
       ReleaseEscrowAdmin, CheckDispute, CheckResolve, AcceptShipment, CheckShipment, CheckQr,
       CheckScan, SweepOrder, ListShipment, flowVars
  <2>2. \/ \E step, a : Go(p, Own(step, o, a))
        \/ \E step, kinds, t, u : Go(p, Request(step, o, kinds, 0, t, u))
        \/ Go(p, Idle)
    BY <1>1, BeginsWith
  <2> QED BY <2>1, <2>2, NoRows, GoAside
<1>2. ASSUME NEW o \in Orders, OneShot(o) PROVE Aside
  <2>1. UNCHANGED <<wallet, payin, withdrawn, call>>
    BY <1>2 DEF OneShot, NegotiatedOrder, CancelShipment, ledgerVars
  <2>2. UNCHANGED escrow \/ \E t : escrow' = Unassigned(o, t)
    BY <1>2 DEF OneShot, NegotiatedOrder, CancelShipment, ledgerVars
  <2>3. \A r \in Rows : escrow'[r].status = escrow[r].status
    BY <1>0, <2>2 DEF Unassigned
  <2> QED BY <2>1, <2>3 DEF Aside
<1>3. ASSUME NEW p \in Procs, AssignBeneficiary(p) PROVE Aside
  <2>1. \A r \in Rows : escrow'[r].status = escrow[r].status
    BY <1>0, <1>3 DEF AssignBeneficiary, Assigned
  <2>2. call' = [call EXCEPT ![p] = Idle] /\ UNCHANGED <<wallet, payin, withdrawn>>
    BY <1>3 DEF AssignBeneficiary, Go
  <2> QED BY <1>0, <2>1, <2>2, NoRows DEF Aside
<1>4. ASSUME NEW p \in Procs,
             Compensate(p) \/ OpenDispute(p) \/ Resolve(p) \/ CloseDispute(p) \/ MoveShipment(p)
               \/ SignQr(p) \/ ScanPickup(p)
      PROVE  Aside
  <2>1. UNCHANGED <<wallet, payin, withdrawn, escrow>>
    BY <1>4 DEF Compensate, OpenDispute, Resolve, CloseDispute, MoveShipment, SignQr, ScanPickup
  <2>2. Go(p, Idle) \/ \E step, o, kinds, pct, t, u : Go(p, Request(step, o, kinds, pct, t, u))
    BY <1>4 DEF Compensate, OpenDispute, Resolve, CloseDispute, MoveShipment, SignQr, ScanPickup,
                CallRelease, CallRefund
  <2> QED BY <2>1, <2>2, NoRows, GoAside
<1>5. ASSUME NEW p \in Procs, Die(p) PROVE Aside
  <2>1. Go(p, Idle) /\ UNCHANGED <<wallet, payin, withdrawn, escrow>>
    BY <1>5 DEF Die, Crash, Resume, Go
  <2> QED BY <2>1, NoRows, GoAside
<1>6. CASE UNCHANGED vars
  BY <1>6 DEF vars, Aside
<1> QED BY <1>1, <1>2, <1>3, <1>4, <1>5, <1>6, Zenon DEF Next, GoOn

\* ... and they keep the invariant
LEMMA AsideAlone ==
  ASSUME AloneInv, FlowInv', Aside
  PROVE  AloneInv'
<1>1. Moneyless /\ listing' \in [Listings -> Shelf]
  BY DEF Aside, Moneyless, FlowInv, Books, Balanced
<1>2. EscrowCovered'
  BY <1>1, MoneylessStep DEF AloneInv, FlowInv, Books, CoverKept
<1>3. LockedNow'
  <2>1. \A p \in Procs : \A s \in call[p].rows : s.row \in Rows
    BY DEF AloneInv, FlowInv, Books, Inv, Shape, Call, Snapshots
  <2> QED BY <2>1 DEF Aside, AloneInv, LockedNow, HoldsLocked
<1> QED BY <1>2, <1>3 DEF AloneInv

\* A swept mission: its rows claim nothing any more, the wallet stays
LEMMA SweepAlone ==
  ASSUME AloneInv, FlowInv', NEW p \in Procs, \A q \in Procs : q = p, SweepShipment(p)
  PROVE  AloneInv'
<1>1. PICK o : /\ Settle({r \in LockedRows(o) : r[2] = "TRANSPORT"}, "REFUNDED")
               /\ call' = [call EXCEPT ![p] = Idle] /\ UNCHANGED <<wallet, payin>>
  BY DEF SweepShipment, Go
<1>2. /\ escrow \in [Rows -> [status : RowStatus, benef : Users \cup {NoUser}]]
      /\ call \in [Procs -> Call] /\ wallet \in [Users -> Purse]
  BY DEF AloneInv, FlowInv, Books, Inv, Shape, Balanced
<1>3. ASSUME NEW x \in Orders PROVE LockedTotal'[x] <= LockedTotal[x]
  <2>1. LockedRows(x)' \in SUBSET LockedRows(x)
    BY <1>1, <1>2 DEF Settle, LockedRows, RowsOf
  <2>2. LockedRows(x) \in SUBSET RowsOf(x)
    BY DEF LockedRows
  <2>3. Total(LockedRows(x)) = Total(LockedRows(x)') + Total(LockedRows(x) \ LockedRows(x)')
    BY <2>1, <2>2, TotalSplit
  <2>4. LockedTotal'[x] = Total(LockedRows(x)')
    <3>1. LockedRows(x)' \in SUBSET RowsOf(x)
      BY <2>1, <2>2
    <3> QED BY <3>1, WorthOf, LockedTotalNext
  <2>5. LockedTotal[x] = Total(LockedRows(x))
    BY DEF LockedTotal
  <2>6. Total(LockedRows(x)') \in Nat /\ Total(LockedRows(x) \ LockedRows(x)') \in Nat
    <3>1. /\ LockedRows(x)' \in SUBSET RowsOf(x)
          /\ LockedRows(x) \ LockedRows(x)' \in SUBSET RowsOf(x)
      BY <2>1, <2>2
    <3> QED BY <3>1, TotalType
  <2> QED BY <2>3, <2>4, <2>5, <2>6
<1>4. EscrowCovered'
  <2>1. PICK z \in Int : z = 0
    OBVIOUS
  <2>2. /\ LockedTotal \in [Orders -> Nat] /\ LockedTotal' \in [Orders -> Nat]
        /\ wallet' \in [Users -> Purse]
        /\ \A u \in Users : wallet[u].escrow \in Nat
    BY <1>1, <1>2, LockedTotalIs, LockedTotalNext DEF Purse
  <2>3. CASE Orders = {}
    <3>1. \A x \in Orders : LockedTotal'[x] = LockedTotal[x]
      BY <2>3
    <3> QED BY <1>1, <3>1, CoveredSame DEF AloneInv
  <2>4. CASE Orders # {}
    <3>1. PICK x \in Orders : TRUE
      BY <2>4
    <3>2. \A y \in Orders : LockedTotal'[y] <= LockedTotal[y] + (IF y = x THEN z ELSE 0)
      BY <1>3, <2>1, <2>2
    <3>3. \A u \in Users : wallet'[u].escrow =
            wallet[u].escrow + (IF x \in Orders /\ Buyer[x] = u THEN z ELSE 0)
      BY <1>1, <2>1, <2>2
    <3> QED BY <1>2, <2>2, <3>2, <3>3, CoveredStep DEF AloneInv
  <2> QED BY <2>3, <2>4
<1>5. LockedNow'
  BY <1>1, <1>2, NoRows DEF LockedNow, HoldsLocked
<1> QED BY <1>4, <1>5 DEF AloneInv

\* A finance method: nobody settles between its read and its commit
LEMMA FinanceAlone ==
  ASSUME AloneInv, FlowInv', NEW p \in Procs, \A q \in Procs : q = p, Finance(p)
  PROVE  AloneInv'
<1>1. EscrowCovered'
  BY FinanceMoney DEF AloneInv, LockedNow, FlowInv, Books, CoverKept
<1>2. call \in [Procs -> Call] /\ call[p] \in Call
  BY DEF AloneInv, FlowInv, Books, Inv, Shape
<1>3. CASE ProcessPayin(p)
  <2>1. call'[p].rows = call[p].rows /\ escrow' = escrow
    BY <1>2, <1>3 DEF ProcessPayin, Call
  <2> QED BY <1>1, <2>1 DEF AloneInv, LockedNow, HoldsLocked
<1>4. CASE ReadRelease(p) \/ (ReadRefund(p) /\ ~Return(p))
  <2>1. escrow' = escrow /\ \E o, kinds : call'[p].rows = Snapshot(o, kinds)
    BY <1>2, <1>4 DEF ReadRelease, ReadRefund, Call
  <2> QED BY <1>1, <2>1 DEF AloneInv, LockedNow, HoldsLocked, Snapshot, LockedRows
<1>5. CASE Return(p) \/ Throw(p)
  <2>1. PICK c : call' = [call EXCEPT ![p] = c] /\ c.rows = {}
    <3>1. PICK step : call' = [call EXCEPT ![p] = IF step = "idle" THEN Idle
                        ELSE [Idle EXCEPT !.at = step, !.order = call[p].order]]
      BY <1>5 DEF Return, Throw, Resume
    <3>2. Idle.rows = {} /\ [Idle EXCEPT !.at = step, !.order = call[p].order].rows = {}
      BY DEF Idle
    <3> QED BY <3>1, <3>2
  <2>2. call'[p].rows = {}
    BY <1>2, <2>1
  <2> QED BY <1>1, <2>2 DEF AloneInv, LockedNow, HoldsLocked
<1>6. ProcessPayin(p) \/ ReadRelease(p) \/ (ReadRefund(p) /\ ~Return(p))
        \/ Return(p) \/ Throw(p)
  BY Zenon DEF Finance, RefusePayin, ConfirmPayment, StockGone, NothingToRelease,
     CommitRelease, AbortRelease, CommitRefund, CommitSplit, AbortRefund
<1> QED BY <1>3, <1>4, <1>5, <1>6

\* The inductive invariant of one request at a time
LEMMA AloneInvariance ==
  ASSUME \A p, q \in Procs : p = q
  PROVE  Spec => []AloneInv
<1>1. Init => AloneInv
  <2> SUFFICES ASSUME Init PROVE AloneInv
    OBVIOUS
  <2>1. LockedNow
    BY NoRows DEF Init, LedgerInit, LockedNow, HoldsLocked
  <2> QED BY <2>1, FlowInitInv, InitMoney DEF Init, AloneInv
<1>2. AloneInv /\ [Next]_vars => AloneInv'
  <2> SUFFICES ASSUME AloneInv, [Next]_vars PROVE AloneInv'
    OBVIOUS
  <2>1. FlowInv' /\ (Aside \/ \E p \in Procs : Finance(p) \/ SweepShipment(p))
    BY FlowNextInv, AsideSteps DEF AloneInv
  <2> QED BY <2>1, AsideAlone, SweepAlone, FinanceAlone
<1> QED BY <1>1, <1>2, PTL DEF Spec

\* When requests do not overlap, crashes included, every LOCKED row is covered by its buyer's
\* balance_escrow: only a settlement that races another one can leave it uncovered
THEOREM LockedRowsAreCovered ==
  ASSUME \A p, q \in Procs : p = q
  PROVE  Spec => []FlowCovered
<1>1. AloneInv => EscrowCovered
  BY DEF AloneInv
<1> QED BY <1>1, AloneInvariance, FlowIsSound, PTL DEF FlowCovered

\* ... and then a row that was released or refunded is never settled again
THEOREM SettledForGood ==
  ASSUME \A p, q \in Procs : p = q
  PROVE  Spec => SettledOnce
<1>1. AloneInv /\ [Next]_vars
        => [\A r \in Rows : escrow[r].status \in {"RELEASED", "REFUNDED"}
              => escrow'[r].status = escrow[r].status]_ledgerVars
  <2> SUFFICES ASSUME AloneInv, [Next]_vars, NEW r \in Rows,
                      escrow[r].status \in {"RELEASED", "REFUNDED"}
               PROVE  escrow'[r].status = escrow[r].status
    BY Zenon
  <2>1. CASE Aside
    BY <2>1 DEF Aside
  <2>2. ASSUME NEW rows, NEW status, Settle(rows, status), r \notin rows
        PROVE  escrow'[r].status = escrow[r].status
    BY <2>2 DEF Settle
  <2>3. ASSUME NEW p \in Procs, SweepShipment(p) PROVE escrow'[r].status = escrow[r].status
    BY <2>2, <2>3 DEF SweepShipment, LockedRows
  <2>4. ASSUME NEW p \in Procs, Finance(p) PROVE escrow'[r].status = escrow[r].status
    <3>1. r \notin RowsIn(call[p].rows) /\ r \notin RowsIn(Splittable(p))
      BY DEF AloneInv, LockedNow, HoldsLocked, RowsIn, Splittable
    <3>2. CASE CommitRelease(p) \/ CommitRefund(p) \/ CommitSplit(p)
      BY <2>2, <3>1, <3>2, Zenon DEF CommitRelease, CommitRefund, CommitSplit
    <3>3. CASE ConfirmPayment(p)
      <4>1. payin[call[p].payin].status = "PENDING"
        BY <3>3 DEF ConfirmPayment
      <4>2. r[1] # call[p].payin
        BY <4>1 DEF AloneInv, FlowInv, Books, Inv, RowsFollowPayin
      <4> QED BY <3>3, <4>2 DEF ConfirmPayment
    <3>4. UNCHANGED escrow \/ ConfirmPayment(p) \/ CommitRelease(p) \/ CommitRefund(p)
            \/ CommitSplit(p)
      BY <2>4, Zenon DEF Finance, ProcessPayin, RefusePayin, StockGone, ReadRelease,
         NothingToRelease, AbortRelease, ReadRefund, AbortRefund
    <3> QED BY <3>2, <3>3, <3>4
  <2> QED BY <2>1, <2>3, <2>4, AsideSteps DEF AloneInv
<1> QED BY <1>1, AloneInvariance, PTL DEF Spec, SettledOnce

-----------------------------------------------------------------------------
(* Orders and missions on the ledger implement Settlement                  *)

\* A sweep settles the TRANSPORT rows of one order; the other steps of the handlers
\* settle nothing
LEMMA FlowStepImplements ==
  ASSUME FlowInv, FlowInv', Unwritten, [Next]_vars
  PROVE  [Settled!Next]_(Settled!settlementVars) /\ Unwritten'
<1>0. Inv /\ Inv'
  BY DEF FlowInv, Books
<1>1. CASE Aside
  <2>1. Still
    BY <1>1 DEF Aside, Still
  <2> QED BY <1>0, <2>1, StillStep DEF Still, Unwritten
<1>2. ASSUME NEW p \in Procs, Finance(p)
      PROVE  [Settled!Next]_(Settled!settlementVars) /\ Unwritten'
  <2>1. [LedgerNext]_ledgerVars
    BY <1>2, Zenon DEF LedgerNext
  <2>2. Unwritten'
    BY <1>0, <2>1, UnwrittenStep
  <2> QED BY <1>0, <2>1, <2>2, WhoIsStill, StillStep, PayinImplements, CommitImplements
<1>3. ASSUME NEW p \in Procs, SweepShipment(p)
      PROVE  [Settled!Next]_(Settled!settlementVars) /\ Unwritten'
  <2>1. PICK o \in Orders : o = call[p].order
    BY <1>3 DEF FlowInv, Pointed, WellPointed, SweepShipment, At, OwnSteps
  <2>2. PICK rows \in SUBSET Rows : rows = {r \in LockedRows(o) : r[2] = "TRANSPORT"}
    BY DEF LockedRows, RowsOf
  <2>3. Settle(rows, "REFUNDED") /\ UNCHANGED payin
    BY <1>3, <2>1, <2>2 DEF SweepShipment
  <2>4. \A r \in rows : payin[r[1]].order = o /\ escrow[r].status # "NONE"
    BY <2>2 DEF LockedRows, RowsOf
  <2>5. Settled!Next
    BY <1>0, <2>3, <2>4, SettleImplements
  <2> QED BY <2>3, <2>5 DEF Unwritten
<1> QED BY <1>1, <1>2, <1>3, AsideSteps

\* Orders, disputes, missions and the crons together do to payments what Settlement says:
\* the composition of OrdersService and LogisticsService with the ledger implements it too
THEOREM FlowImplementsSettlement == Spec => Implements
<1>1. Init => Settled!Init /\ Unwritten
  BY DEF Init, LedgerInit, Settled!Init, Settled!Claims, Rows, ClaimOf, Unwritten
<1>2. FlowInv /\ FlowInv' /\ Unwritten /\ [Next]_vars
        => [Settled!Next]_(Settled!settlementVars) /\ Unwritten'
  BY FlowStepImplements
<1> QED BY <1>1, <1>2, FlowInvariance, PTL DEF Spec, Implements, Settled!Spec

-----------------------------------------------------------------------------
(* What a request does, and an order is paid once                          *)

\* The steps of the handlers besides the finance methods'
HandlerStep(p) ==
  \/ Compensate(p) \/ OpenDispute(p) \/ Resolve(p) \/ CloseDispute(p)
  \/ AssignBeneficiary(p) \/ MoveShipment(p) \/ SweepShipment(p)
  \/ SignQr(p) \/ ScanPickup(p)

\* They end their request, or go on with a call of a finance method
LEMMA HandlerCalls ==
  ASSUME NEW p \in Procs, HandlerStep(p)
  PROVE  Go(p, Idle) \/ \E step \in Calls : \E o, kinds, pct, t, u :
                         Go(p, Request(step, o, kinds, pct, t, u))
<1>1. CASE Resolve(p) \/ Compensate(p) \/ ScanPickup(p)
  BY <1>1 DEF Resolve, Compensate, ScanPickup, CallRelease, CallRefund, Calls
<1>2. CASE OpenDispute(p) \/ CloseDispute(p) \/ AssignBeneficiary(p) \/ MoveShipment(p)
             \/ SweepShipment(p) \/ SignQr(p)
  BY <1>2, Zenon DEF OpenDispute, CloseDispute, AssignBeneficiary, MoveShipment, SweepShipment,
              SignQr
<1> QED BY <1>1, <1>2 DEF HandlerStep

\* Neither begins in the middle of a finance method
LEMMA HandlerGoes ==
  ASSUME FlowInv, NEW p \in Procs, (\E o \in Orders : Begin(p, o)) \/ HandlerStep(p) \/ Die(p)
  PROVE  call'[p].at \in OwnSteps \cup Calls
<1>0. call \in [Procs -> Call] /\ "idle" \in OwnSteps
  BY DEF FlowInv, Books, Inv, Shape, OwnSteps
<1>1. ASSUME NEW c, Go(p, c), c.at \in OwnSteps \cup Calls
      PROVE  call'[p].at \in OwnSteps \cup Calls
  BY <1>0, <1>1 DEF Go
<1>2. /\ Idle.at \in OwnSteps
      /\ \A step \in OwnSteps : \A o, a : Own(step, o, a).at \in OwnSteps
      /\ \A step \in Calls : \A o, kinds, pct, t, u :
           Request(step, o, kinds, pct, t, u).at \in Calls
  BY <1>0 DEF Idle, Own, Request
<1>3. ASSUME NEW o \in Orders, Begin(p, o) PROVE call'[p].at \in OwnSteps \cup Calls
  BY <1>1, <1>2, <1>3, BeginsWith
<1>4. CASE HandlerStep(p)
  BY <1>1, <1>2, <1>4, HandlerCalls
<1>5. CASE Die(p)
  <2>1. Go(p, Idle)
    BY <1>5 DEF Die, Crash, Resume, Go
  <2> QED BY <1>1, <1>2, <2>1
<1> QED BY <1>1, <1>2, <1>3, <1>4, <1>5

\* An order is SENT only until it is paid, answered or cancelled
LEMMA NeverSentAgain ==
  ASSUME FlowInv, [Next]_vars, NEW o \in Orders, order'[o] = "SENT"
  PROVE  order[o] = "SENT"
<1>0. order \in [Orders -> OrderStatus] /\ call \in [Procs -> Call]
  BY DEF FlowInv, Books, Inv, Shape
<1>1. ASSUME NEW x, NEW s, order' = [order EXCEPT ![x] = s], s # "SENT"
      PROVE  order[o] = "SENT"
  BY <1>0, <1>1
<1>2. ASSUME NEW p \in Procs, NEW x \in Orders, Begin(p, x) PROVE order[o] = "SENT"
  <2>1. UNCHANGED order \/ \E side, s : UpdateStatus(p, x, side, s)
    BY <1>2, Zenon DEF Begin, CreateOrder, PayOrder, ConfirmDelivery, ReleaseEscrowAdmin,
       CheckDispute, CheckResolve, AcceptShipment, CheckShipment, CheckQr, CheckScan,
       SweepOrder, ListShipment
  <2>2. ASSUME NEW side, NEW s, UpdateStatus(p, x, side, s) PROVE order[o] = "SENT"
    <3>1. s \in AllowedTransitions[order[x]] /\ order' = [order EXCEPT ![x] = s]
      BY <2>2 DEF UpdateStatus, SetOrder
    <3>2. order[x] \in OrderStatus
      BY <1>0
    <3>3. s # "SENT"
      BY <3>1, <3>2 DEF AllowedTransitions, OrderStatus
    <3> QED BY <1>1, <3>1, <3>3
  <2> QED BY <2>1, <2>2
<1>3. ASSUME NEW p \in Procs, Finance(p) PROVE order[o] = "SENT"
  <2>1. \/ UNCHANGED order
        \/ \E x : order' = [order EXCEPT ![x] = "ACCEPTED"]
        \/ \E x : order' = [order EXCEPT ![x] = "COMPLETED"]
    BY <1>3, Zenon DEF Finance, ProcessPayin, RefusePayin, ConfirmPayment, StockGone, ReadRelease,
       NothingToRelease, CommitRelease, AbortRelease, ReadRefund, CommitRefund, CommitSplit,
       AbortRefund
  <2> QED BY <1>1, <2>1
<1>4. ASSUME NEW p \in Procs, HandlerStep(p) \/ Die(p) PROVE order[o] = "SENT"
  <2>1. CASE Compensate(p) \/ OpenDispute(p) \/ CloseDispute(p) \/ MoveShipment(p)
    <3>1. \/ UNCHANGED order
          \/ \E x : SetOrder(x, "CANCELLED") \/ SetOrder(x, "DISPUTED") \/ SetOrder(x, "COMPLETED")
                      \/ SetOrder(x, "DELIVERED")
      BY <2>1, Zenon DEF Compensate, OpenDispute, CloseDispute, MoveShipment
    <3> QED BY <1>1, <3>1 DEF SetOrder
  <2>2. CASE Resolve(p) \/ AssignBeneficiary(p) \/ SweepShipment(p) \/ SignQr(p)
               \/ ScanPickup(p) \/ Die(p)
    BY <2>2, Zenon DEF Resolve, AssignBeneficiary, SweepShipment, SignQr, ScanPickup, Die, Crash
  <2> QED BY <1>4, <2>1, <2>2 DEF HandlerStep
<1>5. ASSUME NEW x \in Orders, OneShot(x) PROVE order' = order
  BY <1>5 DEF OneShot, NegotiatedOrder, CancelShipment, ledgerVars
<1> QED BY <1>2, <1>3, <1>4, <1>5, Zenon DEF Next, GoOn, HandlerStep, vars

\* A step of a request in flight: it begins, goes on or dies
Moving(p) ==
  \/ \E o \in Orders : Begin(p, o)
  \/ HandlerStep(p) \/ Die(p)
  \/ Finance(p) /\ UNCHANGED flowVars

\* The requests of one step leave the orders and the requests in flight alone; cancelShipment
\* is the one that changes a mission
LEMMA Moves ==
  ASSUME [Next]_vars
  PROVE  \/ /\ UNCHANGED <<order, payin, wallet, call>>
            /\ UNCHANGED shipment \/ \E o \in Orders : CancelShipment(o)
         \/ \E p \in Procs : Moving(p)
<1>1. ASSUME NEW o \in Orders, OneShot(o)
      PROVE  /\ UNCHANGED <<order, payin, wallet, call>>
             /\ UNCHANGED shipment \/ CancelShipment(o)
  BY <1>1 DEF OneShot, NegotiatedOrder, CancelShipment, ledgerVars
<1>2. CASE UNCHANGED vars
  BY <1>2 DEF vars, flowVars
<1> QED BY <1>1, <1>2, Zenon DEF Next, GoOn, HandlerStep, Moving

\* A finance method's return or failure takes its request to a step of the handlers
LEMMA FinanceGoes ==
  ASSUME FlowInv, NEW p \in Procs, Finance(p)
  PROVE  \/ ProcessPayin(p) \/ ReadRelease(p) \/ (ReadRefund(p) /\ ~Return(p))
         \/ (Return(p) \/ Throw(p)) /\ call'[p].at \in Continuations
<1>1. ProcessPayin(p) \/ ReadRelease(p) \/ (ReadRefund(p) /\ ~Return(p))
        \/ Return(p) \/ Throw(p)
  BY Zenon DEF Finance, RefusePayin, ConfirmPayment, StockGone, NothingToRelease,
     CommitRelease, AbortRelease, CommitRefund, CommitSplit, AbortRefund
<1>2. /\ call \in [Procs -> Call]
      /\ call[p].then \in Continuations /\ call[p].catch \in Continuations
  <2>1. call[p].at \in FinanceSteps
    BY Zenon DEF Finance, ProcessPayin, RefusePayin, ConfirmPayment, StockGone, ReadRelease,
           NothingToRelease, CommitRelease, AbortRelease, ReadRefund, CommitRefund,
           CommitSplit, AbortRefund, FinanceSteps
  <2> QED BY <2>1 DEF FlowInv, Books, Inv, Shape, Pointed, WellPointed
<1>3. ASSUME NEW step \in Continuations, Resume(p, step) PROVE call'[p].at \in Continuations
  <2>1. Idle.at = "idle" /\ [Idle EXCEPT !.at = step, !.order = call[p].order].at = step
    BY DEF Idle
  <2> QED BY <1>2, <1>3, <2>1 DEF Resume
<1> QED BY <1>1, <1>2, <1>3 DEF Return, Throw

\* What one request does leaves the others in flight where they are
LEMMA OthersStay ==
  ASSUME FlowInv, NEW p \in Procs, NEW q \in Procs, p # q, Moving(p) \/ Finance(p)
  PROVE  call'[q] = call[q]
<1>0. call \in [Procs -> Call]
  BY DEF FlowInv, Books, Inv, Shape
<1>1. ASSUME NEW c, Go(p, c) PROVE call'[q] = call[q]
  BY <1>0, <1>1 DEF Go
<1>2. CASE \E o \in Orders : Begin(p, o)
  BY <1>1, <1>2, BeginsWith
<1>3. CASE HandlerStep(p)
  BY <1>1, <1>3, HandlerCalls
<1>4. CASE Die(p)
  BY <1>0, <1>4 DEF Die, Crash, Resume
<1>5. CASE Finance(p)
  <2>1. Return(p) \/ Throw(p) => call'[q] = call[q]
    BY <1>0 DEF Return, Throw, Resume
  <2>2. ProcessPayin(p) \/ ReadRelease(p) \/ (ReadRefund(p) /\ ~Return(p)) => call'[q] = call[q]
    BY <1>0 DEF ProcessPayin, ReadRelease, ReadRefund
  <2> QED BY <1>5, <2>1, <2>2, FinanceGoes
<1> QED BY <1>2, <1>3, <1>4, <1>5 DEF Moving

\* Only processPayin brings a request to its confirmation, and from there it goes away
LEMMA AtConfirm ==
  ASSUME FlowInv, NEW p \in Procs, call'[p].at = "confirm", Moving(p)
  PROVE  ProcessPayin(p)
<1>0. call \in [Procs -> Call] /\ "confirm" \notin OwnSteps \cup Calls
  BY DEF FlowInv, Books, Inv, Shape, OwnSteps, Calls, ShipmentStatus
<1>1. ReadRelease(p) => call'[p].at = "releaseCommit"
  BY <1>0 DEF ReadRelease, Call
<1>2. ReadRefund(p) /\ ~Return(p) => call'[p].at \in {"refundCommit", "splitCommit"}
  BY <1>0 DEF ReadRefund, Call
<1> QED BY <1>0, <1>1, <1>2, HandlerGoes, FinanceGoes, StepsApart DEF Moving

-----------------------------------------------------------------------------
\* An order with a confirmed payment is not SENT, and one that is being paid is
OnceInv ==
  /\ PaidOnce
  /\ \A i \in Payins : payin[i].status = "ESCROW" => order[payin[i].order] # "SENT"
  /\ \A p \in Procs : call[p].at = "confirm" => order[call[p].order] = "SENT"

LEMMA OnceStep ==
  ASSUME \A p, q \in Procs : p = q, FlowInv, FlowInv', OnceInv, [Next]_vars
  PROVE  OnceInv'
<1>0. /\ payin \in [Payins -> [order : Orders \cup {NoOrder},
                               status : {"NONE", "PENDING", "ESCROW"}]]
      /\ order \in [Orders -> OrderStatus] /\ call \in [Procs -> Call]
      /\ \A i \in Payins : payin[i].status = "ESCROW" => payin[i].order \in Orders
  BY DEF FlowInv, Books, Inv, Shape, Written
<1>1. CASE \A i \in Payins : payin'[i].status = "ESCROW" => payin'[i] = payin[i]
  <2>1. PaidOnce'
    BY <1>1 DEF OnceInv, PaidOnce
  <2>2. \A i \in Payins : payin'[i].status = "ESCROW" => order'[payin'[i].order] # "SENT"
    BY <1>0, <1>1, NeverSentAgain DEF OnceInv
  <2>3. ASSUME NEW p \in Procs, call'[p].at = "confirm" PROVE order'[call'[p].order] = "SENT"
    <3>1. CASE ProcessPayin(p)
      BY <1>0, <3>1 DEF ProcessPayin, Call
    <3>2. CASE UNCHANGED <<order, payin, wallet, call>>
      BY <2>3, <3>2 DEF OnceInv
    <3> QED BY <2>3, <3>1, <3>2, Moves, AtConfirm
  <2> QED BY <2>1, <2>2, <2>3 DEF OnceInv
<1>2. ASSUME NEW p \in Procs, ConfirmPayment(p) PROVE OnceInv'
  <2>1. PICK i \in Payins, o \in Orders :
          /\ i = call[p].payin /\ o = call[p].order /\ payin[i].order = o /\ order[o] = "SENT"
          /\ payin' = [payin EXCEPT ![i].status = "ESCROW"]
          /\ order' = [order EXCEPT ![o] = "ACCEPTED"] /\ Return(p)
    <3>1. call[p].at = "confirm" /\ Inv
      BY <1>2 DEF ConfirmPayment, FlowInv, Books
    <3>2. call[p].order \in Orders /\ order[call[p].order] = "SENT"
      BY <3>1, AtWork DEF FinanceSteps, OnceInv
    <3>3. call[p].payin \in Payins /\ payin[call[p].payin].order = call[p].order
      <4>1. /\ call[p].payin \in Payins
            /\ payin[call[p].payin] = [order |-> call[p].order, status |-> "PENDING"]
        BY <3>1, Zenon DEF Inv, OneConfirmer
      <4> QED BY <4>1
    <3> QED BY <1>2, <3>2, <3>3 DEF ConfirmPayment
  <2>2. \A j \in Payins \ {i} : /\ payin'[j] = payin[j]
                                /\ payin[j].status = "ESCROW" => payin[j].order # o
    BY <1>0, <2>1 DEF OnceInv
  <2>3. payin'[i].order = o
    BY <1>0, <2>1
  <2>4. PaidOnce'
    BY <2>2, <2>3 DEF OnceInv, PaidOnce
  <2>5. \A j \in Payins : payin'[j].status = "ESCROW" => order'[payin'[j].order] # "SENT"
    BY <1>0, <2>1, <2>2, <2>3 DEF OnceInv
  <2>6. \A q \in Procs : call'[q].at # "confirm"
    <3>1. Finance(p) /\ ~ProcessPayin(p) /\ ~ReadRelease(p) /\ ~ReadRefund(p)
      BY <1>2 DEF Finance, ProcessPayin, ConfirmPayment, ReadRelease, ReadRefund
    <3>2. call'[p].at \in Continuations
      BY <3>1, FinanceGoes
    <3> QED BY <3>2 DEF Continuations
  <2> QED BY <2>4, <2>5, <2>6 DEF OnceInv
<1>3. ASSUME NEW p \in Procs, ProcessPayin(p), NEW j \in Payins, payin'[j].status = "ESCROW"
      PROVE  payin'[j] = payin[j]
  BY <1>0, <1>3 DEF ProcessPayin
<1>4. ASSUME UNCHANGED payin, NEW j \in Payins PROVE payin'[j] = payin[j]
  BY <1>4
<1>5. \/ UNCHANGED payin
      \/ \E p \in Procs : ProcessPayin(p) \/ ConfirmPayment(p)
  <2>1. ASSUME NEW p \in Procs, Finance(p)
        PROVE  UNCHANGED payin \/ ProcessPayin(p) \/ ConfirmPayment(p)
    BY <2>1, Zenon DEF Finance, RefusePayin, StockGone, ReadRelease, NothingToRelease,
       CommitRelease, AbortRelease, ReadRefund, CommitRefund, CommitSplit, AbortRefund
  <2>2. ASSUME NEW p \in Procs, SweepShipment(p) PROVE UNCHANGED payin
    BY <2>2 DEF SweepShipment
  <2> QED BY <2>1, <2>2, AsideSteps DEF Aside
<1> QED BY <1>1, <1>2, <1>3, <1>4, <1>5

\* When requests do not overlap, crashes included, an order is paid in once at most:
\* processPayin and confirmPayment, which tests the order no more, are then one
THEOREM PaidInOnce ==
  ASSUME \A p, q \in Procs : p = q
  PROVE  Spec => []PaidOnce
<1>1. Init => OnceInv
  BY LedgerAssumption DEF Init, LedgerInit, OnceInv, PaidOnce, Idle
<1>2. FlowInv /\ FlowInv' /\ OnceInv /\ [Next]_vars => OnceInv'
  BY OnceStep
<1>3. OnceInv => PaidOnce
  BY DEF OnceInv
<1> QED BY <1>1, <1>2, <1>3, FlowInvariance, PTL DEF Spec

-----------------------------------------------------------------------------
(* The seller is paid for goods that left                                  *)

\* The statuses of an order whose goods were delivered, or are disputed
HandedOver == {"DELIVERED", "COMPLETED", "DISPUTED"}

\* The goods of an order left, or reached the buyer
Gone(o) ==
  \/ shipment[o].scanned \/ shipment[o].status = "DELIVERED"
  \/ order[o] \in HandedOver

\* Where a request is about to pay a seller
Paying == {"release", "releaseCommit", "split", "splitCommit"} \cup Resolving

\* A seller is about to be paid, or may be by whoever resolves the dispute
PaymentDue(o) ==
  \/ \E p \in Procs : call[p].at \in Paying /\ call[p].order = o
  \/ On("resolveDispute") /\ OpenDisputes(o) # {}

\* No step takes back that the goods are gone while the seller is about to be paid.  Several
\* could: confirmPayment, cancelOrderCompensation and resolveDispute write the order's status
\* without looking, markInTransit and the like the mission's
HandoverStays == \A o \in Orders : Gone(o) /\ PaymentDue(o) => Gone(o)'

\* Who sets out to pay a seller: a request about goods that are gone, or one that read an
\* open dispute; from there it goes on about the same order
LEMMA SetsOut ==
  ASSUME FlowInv, "releaseEscrowAdmin" \notin Handlers, NEW p \in Procs,
         Moving(p), call'[p].at \in Paying, call[p].at \notin Paying
  PROVE  \E o \in Orders :
           /\ call'[p].order = o
           /\ \/ Gone(o)'
              \/ On("resolveDispute") /\ OpenDisputes(o) # {} /\ UNCHANGED <<order, shipment>>
<1>0. /\ call \in [Procs -> Call] /\ order \in [Orders -> OrderStatus]
      /\ shipment \in [Orders -> [status : ShipmentStatus, driver : Transporters \cup {NoUser},
                                  qr : BOOLEAN, scanned : BOOLEAN]]
      /\ call'[p].at # "idle" /\ call'[p].at # "payin" /\ call'[p].at # "refund"
      /\ call'[p].at \notin {"compensate", "dispute", "assign", "signQr", "scan", "sweepShipment"}
      /\ call'[p].at \notin ShipmentStatus /\ call'[p].at \notin Continuations
  BY DEF FlowInv, Books, Inv, Shape, FlowShape, Paying, Resolving, ShipmentStatus, Continuations
<1>1. ASSUME NEW c, Go(p, c) PROVE call'[p] = c
  BY <1>0, <1>1 DEF Go
<1>2. /\ Idle.at = "idle"
      /\ \A step, o, a : Own(step, o, a).at = step /\ Own(step, o, a).order = o
      /\ \A step, o, kinds, pct, t, u :
           /\ Request(step, o, kinds, pct, t, u).at = step
           /\ Request(step, o, kinds, pct, t, u).order = o
  BY DEF Idle, Own, Request
<1>3. ASSUME NEW o \in Orders, Begin(p, o)
      PROVE  \/ \E side, s : UpdateStatus(p, o, side, s)
             \/ ConfirmDelivery(p, o)
             \/ On("resolveDispute") /\ \E step : CheckResolve(p, o, step)
  <2>1. ~CreateOrder(p, o) /\ ~PayOrder(p, o)
    BY <1>0, <1>1, <1>2 DEF CreateOrder, PayOrder
  <2>2. ~CheckDispute(p, o) /\ ~SweepOrder(p, o) /\ ~ListShipment(p, o)
    BY <1>0, <1>1, <1>2 DEF CheckDispute, SweepOrder, ListShipment
  <2>3. ~CheckQr(p, o) /\ ~CheckScan(p, o)
    BY <1>0, <1>1, <1>2 DEF CheckQr, CheckScan
  <2>4. \A t : ~AcceptShipment(p, o, t)
    BY <1>0, <1>1, <1>2 DEF AcceptShipment
  <2>5. \A s \in ShipmentStatus : ~CheckShipment(p, o, s)
    <3> SUFFICES ASSUME NEW s \in ShipmentStatus, NEW a, Go(p, Own(s, o, a)) PROVE FALSE
      BY Zenon DEF CheckShipment
    <3> QED BY <1>0, <1>1, <1>2
  <2>6. ~On("releaseEscrowAdmin")
    BY DEF On
  <2> QED BY <1>3, <2>1, <2>2, <2>3, <2>4, <2>5, <2>6, Zenon DEF Begin
<1>4. ASSUME NEW o \in Orders, NEW side, NEW s, UpdateStatus(p, o, side, s)
      PROVE  call'[p].order = o /\ Gone(o)'
  <2>1. order[o] = "DELIVERED" /\ s = "COMPLETED" /\ Go(p, CallRelease(o, Kinds, "idle"))
    <3>1. ~Go(p, Idle) /\ ~Go(p, CallRefund(o))
      BY <1>0, <1>1, <1>2 DEF CallRefund
    <3> QED BY <1>4, <3>1 DEF UpdateStatus
  <2>2. order'[o] = "COMPLETED"
    BY <1>0, <1>4, <2>1 DEF UpdateStatus, SetOrder
  <2> QED BY <1>1, <1>2, <2>1, <2>2 DEF CallRelease, Gone, HandedOver
<1>5. ASSUME NEW o \in Orders, ConfirmDelivery(p, o) PROVE call'[p].order = o /\ Gone(o)'
  BY <1>1, <1>2, <1>5 DEF ConfirmDelivery, CallRelease, Gone, HandedOver
<1>6. ASSUME NEW o \in Orders, NEW step, CheckResolve(p, o, step)
      PROVE  call'[p].order = o /\ OpenDisputes(o) # {} /\ UNCHANGED <<order, shipment>>
  <2>1. \E d \in OpenDisputes(o) : Go(p, Own(step, o, d))
    BY <1>6 DEF CheckResolve
  <2> QED BY <1>1, <1>2, <1>6, <2>1 DEF CheckResolve, flowVars
<1>7. ASSUME HandlerStep(p) PROVE ScanPickup(p)
  <2>1. ~Go(p, Idle) /\ \A o : ~Go(p, CallRefund(o))
    BY <1>0, <1>1, <1>2 DEF CallRefund
  <2>2. ~Resolve(p)
    BY DEF Resolve, At, Paying, Resolving
  <2>3. ~Compensate(p)
    BY <2>1 DEF Compensate
  <2> QED BY <1>7, <2>1, <2>2, <2>3, Zenon DEF HandlerStep, OpenDispute, CloseDispute,
         AssignBeneficiary, MoveShipment, SweepShipment, SignQr
<1>8. ASSUME ScanPickup(p)
      PROVE  call[p].order \in Orders /\ call'[p].order = call[p].order /\ Gone(call[p].order)'
  <2>1. PICK o \in Orders : o = call[p].order
    BY <1>8 DEF FlowInv, Pointed, WellPointed, ScanPickup, At, OwnSteps
  <2>2. Go(p, CallRelease(o, {"PRODUCT"}, "idle"))
    BY <1>8, <2>1 DEF ScanPickup
  <2>3. shipment'[o].scanned
    BY <1>0, <1>8, <2>1 DEF ScanPickup, SetShipment
  <2> QED BY <1>1, <1>2, <2>1, <2>2, <2>3 DEF CallRelease, Gone
<1>9. ~Die(p)
  BY <1>0, <1>1, <1>2 DEF Die, Crash, Resume, Go
<1>10. ~Finance(p)
  <2>1. ProcessPayin(p) => call'[p].at = "confirm"
    BY <1>0 DEF ProcessPayin, Call
  <2>2. ~ReadRelease(p)
    BY DEF ReadRelease, Paying
  <2>3. ReadRefund(p) /\ ~Return(p) => call'[p].at = "refundCommit"
    BY <1>0 DEF ReadRefund, Call, Paying
  <2> QED BY <1>0, <2>1, <2>2, <2>3, FinanceGoes DEF Paying, Resolving
<1> QED BY <1>3, <1>4, <1>5, <1>6, <1>7, <1>8, <1>9, <1>10 DEF Moving

\* ... and from there it goes on about the same order
LEMMA PaysOn ==
  ASSUME FlowInv, NEW p \in Procs, Moving(p), call'[p].at \in Paying, call[p].at \in Paying
  PROVE  call'[p].order = call[p].order /\ UNCHANGED <<order, shipment>>
<1>0. call \in [Procs -> Call] /\ call'[p].at \notin Continuations
  BY DEF FlowInv, Books, Inv, Shape, Paying, Resolving, Continuations
<1>1. \A o : ~Begin(p, o)
  <2>1. call[p].at # "idle"
    BY DEF Paying, Resolving
  <2> QED BY <2>1, Zenon DEF Begin, CreateOrder, PayOrder, UpdateStatus, ConfirmDelivery,
       ReleaseEscrowAdmin, CheckDispute, CheckResolve, AcceptShipment, CheckShipment, CheckQr,
       CheckScan, SweepOrder, ListShipment, Free
<1>2. ~Die(p)
  BY <1>0 DEF Die, Crash, Resume, Idle, Continuations
<1>3. HandlerStep(p) => Resolve(p)
  <2>1. call[p].at \notin {"compensate", "dispute", "markCompleted", "markCancelled", "assign",
                           "sweepShipment", "signQr", "scan"} \cup ShipmentStatus
    BY DEF Paying, Resolving, ShipmentStatus
  <2> QED BY <2>1 DEF HandlerStep, Compensate, OpenDispute, CloseDispute, AssignBeneficiary,
         MoveShipment, SweepShipment, SignQr, ScanPickup, At
<1>4. Resolve(p) => call'[p].order = call[p].order /\ UNCHANGED <<order, shipment>>
  BY <1>0 DEF Resolve, Go, CallRelease, Request, Idle
<1>5. Finance(p) => ReadRelease(p) \/ (ReadRefund(p) /\ ~Return(p))
  <2>1. ~ProcessPayin(p)
    BY DEF ProcessPayin, Paying, Resolving
  <2> QED BY <1>0, <2>1, FinanceGoes
<1>6. ReadRelease(p) => call'[p].order = call[p].order /\ UNCHANGED order
  BY <1>0 DEF ReadRelease, Call
<1>7. ReadRefund(p) /\ ~Return(p) => call'[p].order = call[p].order /\ UNCHANGED order
  BY <1>0 DEF ReadRefund, Call
<1> QED BY <1>1, <1>2, <1>3, <1>4, <1>5, <1>6, <1>7 DEF Moving, flowVars

-----------------------------------------------------------------------------
\* A request that is about to pay a seller is about goods that are gone
AboutGone == \A p \in Procs : call[p].at \in Paying => Gone(call[p].order)

\* A dispute that may be resolved is about goods that are gone
DisputesGone ==
  On("resolveDispute") =>
    \A d \in Disputes : dispute[d].status = "OPEN"
      => dispute[d].order \in Orders /\ Gone(dispute[d].order)

\* Such a request is about an order
LEMMA PayingOrder ==
  ASSUME FlowInv, NEW p \in Procs, call[p].at \in Paying
  PROVE  call[p].order \in Orders
<1>1. call[p].at \in FinanceSteps \/ call[p].at \in OwnSteps \ {"idle"}
  BY DEF Paying, Resolving, FinanceSteps, OwnSteps
<1> QED BY <1>1, AtWork DEF FlowInv, Books, Pointed, WellPointed

\* Where releaseEscrow and partialRefund are not called otherwise, that settles it
LEMMA PaidWhenGone ==
  ASSUME FlowInv, AboutGone, [Next]_vars, NEW r \in Rows,
         escrow[r].status = "LOCKED", escrow'[r].status = "RELEASED"
  PROVE  Gone(payin[r[1]].order)
<1>0. escrow \in [Rows -> [status : RowStatus, benef : Users \cup {NoUser}]]
  BY DEF FlowInv, Books, Inv, Shape
<1>1. ASSUME NEW rows, NEW status, Settle(rows, status)
      PROVE  r \in rows /\ status = "RELEASED"
  BY <1>0, <1>1 DEF Settle
<1>2. PICK p \in Procs : CommitRelease(p) \/ CommitSplit(p)
  <2>1. ~Aside
    BY DEF Aside
  <2>2. ASSUME NEW p \in Procs, SweepShipment(p) PROVE FALSE
    BY <1>1, <2>2 DEF SweepShipment
  <2>3. ASSUME NEW p \in Procs, Finance(p) PROVE CommitRelease(p) \/ CommitSplit(p)
    <3>1. ~CommitRefund(p)
      <4>1. CommitRefund(p) => Settle(RowsIn(call[p].rows), "REFUNDED")
        BY DEF CommitRefund
      <4> QED BY <1>1, <4>1
    <3>2. ~ConfirmPayment(p)
      BY DEF ConfirmPayment
    <3>3. escrow' # escrow
      OBVIOUS
    <3> QED BY <2>3, <3>1, <3>2, <3>3, Zenon DEF Finance, ProcessPayin, RefusePayin, StockGone,
           ReadRelease, NothingToRelease, AbortRelease, ReadRefund, AbortRefund
  <2> QED BY <2>1, <2>2, <2>3, AsideSteps
<1>3. r \in RowsIn(call[p].rows) /\ call[p].at \in Paying
  <2>1. CASE CommitRelease(p)
    BY <1>1, <2>1 DEF CommitRelease, Paying
  <2>2. CASE CommitSplit(p)
    BY <1>1, <2>2 DEF CommitSplit, Paying, RowsIn, Splittable
  <2> QED BY <1>2, <2>1, <2>2
<1>4. payin[r[1]].order = call[p].order
  BY <1>3 DEF FlowInv, Books, Inv, OwnRows, RowsIn
<1> QED BY <1>3, <1>4 DEF AboutGone

\* A dispute is opened by openDispute only, about the order it makes DISPUTED
LEMMA OpenedBy ==
  ASSUME FlowInv, [Next]_vars, NEW d \in Disputes, dispute'[d].status = "OPEN"
  PROVE  \/ dispute'[d] = dispute[d]
         \/ dispute'[d].order \in Orders /\ order'[dispute'[d].order] = "DISPUTED"
<1>0. /\ dispute \in [Disputes -> [order : Orders \cup {NoOrder},
                                   status : {"NONE", "OPEN", "RESOLVED"}]]
      /\ order \in [Orders -> OrderStatus]
  BY DEF FlowInv, Books, Inv, Shape, FlowShape
<1>1. ASSUME NEW p \in Procs, Resolve(p) PROVE dispute'[d] = dispute[d]
  BY <1>0, <1>1 DEF Resolve
<1>2. ASSUME NEW p \in Procs, OpenDispute(p)
      PROVE  \/ dispute'[d] = dispute[d]
             \/ dispute'[d].order \in Orders /\ order'[dispute'[d].order] = "DISPUTED"
  <2>1. PICK o \in Orders : o = call[p].order
    BY <1>2 DEF FlowInv, Pointed, WellPointed, OpenDispute, At, OwnSteps
  <2> QED BY <1>0, <1>2, <2>1 DEF OpenDispute, SetOrder
<1>3. ASSUME NEW p \in Procs, NEW o \in Orders, Begin(p, o) PROVE dispute' = dispute
  BY <1>3, Zenon DEF Begin, CreateOrder, PayOrder, UpdateStatus, ConfirmDelivery,
     ReleaseEscrowAdmin, CheckDispute, CheckResolve, AcceptShipment, CheckShipment, CheckQr,
     CheckScan, SweepOrder, ListShipment, flowVars
<1>4. ASSUME NEW o \in Orders, OneShot(o) PROVE dispute' = dispute
  BY <1>4 DEF OneShot, NegotiatedOrder, CancelShipment
<1>5. ASSUME NEW p \in Procs, GoOn(p) \/ Die(p)
      PROVE  dispute' = dispute \/ Resolve(p) \/ OpenDispute(p)
  BY <1>5, Zenon DEF GoOn, Die, Compensate, CloseDispute, AssignBeneficiary, MoveShipment,
     SweepShipment, SignQr, ScanPickup, flowVars
<1> QED BY <1>1, <1>2, <1>3, <1>4, <1>5, Zenon DEF Next, vars, flowVars

\* As long as nobody takes a handover back under the payer's hands, who is about to pay a
\* seller pays for goods that are gone
LEMMA HandedStep ==
  ASSUME "releaseEscrowAdmin" \notin Handlers, FlowInv, AboutGone, DisputesGone, [Next]_vars,
         [HandoverStays]_vars
  PROVE  AboutGone' /\ DisputesGone'
<1>1. ASSUME NEW o \in Orders, Gone(o), PaymentDue(o) PROVE Gone(o)'
  BY <1>1 DEF HandoverStays, Gone, vars, flowVars
<1>2. ASSUME On("resolveDispute"), NEW d \in Disputes, dispute'[d].status = "OPEN"
      PROVE  dispute'[d].order \in Orders /\ Gone(dispute[d].order)'
  <2>1. CASE dispute'[d] = dispute[d]
    <3>1. PICK o \in Orders : o = dispute[d].order /\ Gone(o)
      BY <1>2, <2>1 DEF DisputesGone
    <3>2. dispute[d] = [order |-> o, status |-> "OPEN"]
      BY <1>2, <2>1, <3>1 DEF FlowInv, FlowShape
    <3>3. PaymentDue(o)
      BY <1>2, <3>2 DEF PaymentDue, OpenDisputes
    <3>4. Gone(o)'
      BY <1>1, <3>1, <3>3
    <3> QED BY <2>1, <3>1, <3>4 DEF Gone
  <2>2. CASE dispute'[d].order \in Orders /\ order'[dispute'[d].order] = "DISPUTED"
    BY <2>2 DEF Gone, HandedOver
  <2> QED BY <1>2, <2>1, <2>2, OpenedBy
<1>3. ASSUME NEW p \in Procs, call'[p].at \in Paying PROVE Gone(call[p].order)'
  <2>1. CASE call[p].at \in Paying /\ call'[p].order = call[p].order
    <3>1. PICK o \in Orders : o = call[p].order
      BY <2>1, PayingOrder
    <3>2. Gone(o) /\ PaymentDue(o)
      BY <2>1, <3>1 DEF AboutGone, PaymentDue
    <3> QED BY <1>1, <2>1, <3>1, <3>2 DEF Gone
  <2>2. CASE Moving(p) /\ call[p].at \notin Paying
    <3>1. PICK o \in Orders :
            /\ call'[p].order = o
            /\ \/ Gone(o)'
               \/ On("resolveDispute") /\ OpenDisputes(o) # {} /\ UNCHANGED <<order, shipment>>
      BY <1>3, <2>2, SetsOut
    <3>2. On("resolveDispute") /\ OpenDisputes(o) # {} => Gone(o)
      BY DEF DisputesGone, OpenDisputes
    <3> QED BY <3>1, <3>2 DEF Gone
  <2>3. call'[p] = call[p] \/ Moving(p)
    BY Moves, OthersStay
  <2> QED BY <1>3, <2>1, <2>2, <2>3, PaysOn
<1> QED BY <1>2, <1>3 DEF AboutGone, DisputesGone

\* The seller is paid for goods that left: releaseEscrow and partialRefund are called by
\* scanPickup, by the buyer's confirmation of a DELIVERED order and to resolve a dispute, and
\* so release a PRODUCT row only after a scan or a delivery, whoever overlaps them, unless an
\* administrator releases by hand or a step takes the handover back meanwhile
THEOREM HandoverBeforePay ==
  ASSUME "releaseEscrowAdmin" \notin Handlers
  PROVE  Spec /\ [][HandoverStays]_vars => PaidAfterHandover
<1>1. Init => AboutGone /\ DisputesGone
  BY DEF Init, LedgerInit, AboutGone, DisputesGone, Idle, Paying, Resolving
<1>2. FlowInv /\ AboutGone /\ DisputesGone /\ [Next]_vars /\ [HandoverStays]_vars
        => AboutGone' /\ DisputesGone'
  BY HandedStep
<1>3. FlowInv /\ AboutGone /\ [Next]_vars
        => [\A r \in Rows :
              r[2] = "PRODUCT" /\ escrow[r].status = "LOCKED" /\ escrow'[r].status = "RELEASED"
              => LET o == payin[r[1]].order
                 IN  \/ shipment[o].scanned \/ shipment[o].status = "DELIVERED"
                     \/ order[o] \in {"DELIVERED", "COMPLETED", "DISPUTED"}]_vars
  BY PaidWhenGone DEF Gone, HandedOver
<1> QED BY <1>1, <1>2, <1>3, FlowInvariance, PTL DEF Spec, PaidAfterHandover

\* One request at a time: what a request found gone stays so until it pays
LEMMA LoneStep ==
  ASSUME \A p, q \in Procs : p = q, {"releaseEscrowAdmin", "resolveDispute"} \cap Handlers = {},
         FlowInv, AboutGone, [Next]_vars
  PROVE  AboutGone'
<1> SUFFICES ASSUME NEW p \in Procs, call'[p].at \in Paying PROVE Gone(call[p].order)'
  BY DEF AboutGone
<1>1. CASE /\ UNCHANGED <<order, payin, wallet, call>>
           /\ UNCHANGED shipment \/ \E x \in Orders : CancelShipment(x)
  <2>1. PICK o \in Orders : o = call[p].order /\ Gone(o)
    BY <1>1, PayingOrder DEF AboutGone
  <2>2. CASE UNCHANGED shipment
    BY <1>1, <2>1, <2>2 DEF Gone
  <2>3. ASSUME NEW x \in Orders, CancelShipment(x) PROVE Gone(o)'
    <3>1. /\ shipment \in [Orders -> [status : ShipmentStatus,
                                      driver : Transporters \cup {NoUser},
                                      qr : BOOLEAN, scanned : BOOLEAN]]
          /\ shipment[x].status # "DELIVERED"
      BY <2>3 DEF FlowInv, FlowShape, CancelShipment, ShipmentTransitions
    <3>2. shipment'[o].scanned = shipment[o].scanned
      BY <2>3, <3>1 DEF CancelShipment, SetShipment
    <3>3. shipment[o].status = "DELIVERED" => shipment'[o] = shipment[o]
      BY <2>3, <3>1 DEF CancelShipment, SetShipment
    <3> QED BY <1>1, <2>1, <3>2, <3>3 DEF Gone
  <2> QED BY <1>1, <2>1, <2>2, <2>3 DEF Gone
<1>2. CASE Moving(p) /\ call[p].at \in Paying
  BY <1>2, PaysOn DEF AboutGone, Gone
<1>3. CASE Moving(p) /\ call[p].at \notin Paying
  BY <1>3, SetsOut DEF On, Gone
<1> QED BY <1>1, <1>2, <1>3, Moves

\* When requests do not overlap, crashes included, no step can: scanPickup, confirmDelivery and
\* updateStatus pay for what they found
THEOREM LoneHandoverBeforePay ==
  ASSUME \A p, q \in Procs : p = q, {"releaseEscrowAdmin", "resolveDispute"} \cap Handlers = {}
  PROVE  Spec => PaidAfterHandover
<1>1. Init => AboutGone
  BY DEF Init, LedgerInit, AboutGone, Idle, Paying, Resolving
<1>2. FlowInv /\ AboutGone /\ [Next]_vars => AboutGone'
  BY LoneStep
<1>3. FlowInv /\ AboutGone /\ [Next]_vars
        => [\A r \in Rows :
              r[2] = "PRODUCT" /\ escrow[r].status = "LOCKED" /\ escrow'[r].status = "RELEASED"
              => LET o == payin[r[1]].order
                 IN  \/ shipment[o].scanned \/ shipment[o].status = "DELIVERED"
                     \/ order[o] \in {"DELIVERED", "COMPLETED", "DISPUTED"}]_vars
  BY PaidWhenGone DEF Gone, HandedOver
<1> QED BY <1>1, <1>2, <1>3, FlowInvariance, PTL DEF Spec, PaidAfterHandover

-----------------------------------------------------------------------------
(* Orders are settled                                                      *)

\* Every row is a PRODUCT row of a seller, and so is what a request carries
SellersRows ==
  /\ \A r \in Rows : escrow[r].status # "NONE" => r[2] = "PRODUCT" /\ escrow[r].benef # NoUser
  /\ \A p \in Procs : \A s \in call[p].rows : s.benef # NoUser

\* Where a request is that has to do with a dispute
Disputing == Resolving \cup {"dispute", "split", "splitCommit", "markCompleted", "markCancelled"}

\* No dispute was opened, and no order is DISPUTED
Undisputed ==
  /\ \A d \in Disputes : dispute[d].status # "OPEN"
  /\ \A o \in Orders : order[o] # "DISPUTED"
  /\ \A p \in Procs : /\ call[p].at \notin Disputing
                      /\ call[p].then \in {"idle", "compensate"}
                      /\ call[p].catch \in {"idle", "compensate"}

\* Request p settles what is LOCKED of order o, or finds nothing LOCKED
Settling(p, o) ==
  /\ call[p].order = o
  /\ \/ call[p].at = "refund"
     \/ call[p].at = "release" /\ "PRODUCT" \in call[p].kinds
     \/ /\ call[p].at \in {"releaseCommit", "refundCommit"}
        /\ LockedRows(o) \subseteq RowsIn(call[p].rows)

\* An order that was not paid or was rejected holds nothing LOCKED; of one that was cancelled
\* or completed nothing is LOCKED, or a request is on its way to settle it
DueOf(o) ==
  /\ order[o] \in {"SENT", "REJECTED"} => LockedRows(o) = {}
  /\ order[o] \in {"CANCELLED", "COMPLETED"}
       => LockedRows(o) = {} \/ \E p \in Procs : Settling(p, o)
Due == \A o \in Orders : DueOf(o)

DueInv == SellersRows /\ Undisputed /\ Due

\* Goods without transport, no disputes, no crash: a swept mission leaves its money in the
\* buyer's escrow, a cancelled DISPUTED order is not refunded (updateStatus takes it for
\* unpaid), and a request that dies between a cancellation and its refund leaves it undone
PlainSale ==
  /\ \A o \in Orders : Carriage[o] = 0
  /\ "openDispute" \notin Handlers /\ "DISPUTED" \notin StatusWrites
  /\ MayCrash = FALSE

\* A payment is one row
LEMMA OneRow ==
  ASSUME FlowInv, SellersRows, PaidOnce, NEW r \in Rows, NEW s \in Rows,
         escrow[r].status # "NONE", escrow[s].status # "NONE",
         payin[r[1]].order = payin[s[1]].order
  PROVE  r = s
<1>1. payin[r[1]].status = "ESCROW" /\ payin[s[1]].status = "ESCROW"
  BY DEF FlowInv, Books, Inv, RowsFollowPayin
<1>2. r[1] \in Payins /\ s[1] \in Payins /\ r = <<r[1], r[2]>> /\ s = <<s[1], s[2]>>
  BY DEF Rows
<1>3. r[1] = s[1] /\ r[2] = s[2]
  BY <1>1, <1>2 DEF PaidOnce, SellersRows
<1> QED BY <1>2, <1>3

\* What the LOCKED rows of an order are worth, its buyer has in escrow
LEMMA CoverOf ==
  ASSUME FlowInv, EscrowCovered, NEW o \in Orders, NEW rows \in SUBSET LockedRows(o)
  PROVE  wallet[Buyer[o]].escrow >= Total(rows)
<1>0. /\ Buyer[o] \in Users /\ wallet[Buyer[o]].escrow \in Nat /\ IsFiniteSet(Orders)
  BY LedgerAssumption DEF FlowInv, Books, Balanced, Purse
<1> DEFINE f == [x \in Orders |-> IF Buyer[x] = Buyer[o] THEN LockedTotal[x] ELSE 0]
<1>1. LockedTotal \in [Orders -> Nat]
  BY LockedTotalIs DEF FlowInv, Books
<1>2. \A x \in Orders : f[x] \in Nat
  BY <1>1
<1>3. {o} \in SUBSET Orders /\ SumFunctionOnSet(f, {o}) <= SumFunctionOnSet(f, Orders)
  BY <1>0, <1>2, SumPart
<1>4. SumFunctionOnSet(f, {o}) = f[o]
  <2>1. f[o] \in Nat
    BY <1>2
  <2> HIDE DEF f
  <2>2. IsFiniteSet({o})
    BY FS_Singleton
  <2>3. Ints(f, {o})
    BY <2>1 DEF Ints
  <2>4. o \in {o} /\ \A x \in {o} \ {o} : f[x] = 0
    OBVIOUS
  <2> QED BY <2>2, <2>3, <2>4, SumOnly
<1>5. f[o] = Total(LockedRows(o))
  BY DEF LockedTotal
<1>6. wallet[Buyer[o]].escrow >= SumFunctionOnSet(f, Orders)
  BY <1>0, CoveredIs DEF Claimed
<1>7. /\ Total(LockedRows(o)) = Total(rows) + Total(LockedRows(o) \ rows)
      /\ Total(rows) \in Nat /\ Total(LockedRows(o) \ rows) \in Nat
  <2>1. /\ LockedRows(o) \in SUBSET RowsOf(o) /\ rows \in SUBSET RowsOf(o)
        /\ LockedRows(o) \ rows \in SUBSET RowsOf(o)
    BY DEF LockedRows
  <2> QED BY <2>1, TotalSplit, TotalType DEF FlowInv, Books
<1>8. SumFunctionOnSet(f, Orders) \in Nat
  BY <1>0, <1>2, SumNat
<1> HIDE DEF f
<1>9. f[o] \in Nat
  BY <1>5, <1>7
<1> QED BY <1>0, <1>3, <1>4, <1>5, <1>6, <1>7, <1>8, <1>9

\* ... so a settlement is given up only when somebody else settled
LEMMA GivenUp ==
  ASSUME FlowInv, SellersRows, PaidOnce, EscrowCovered, NEW p \in Procs,
         \/ AbortRelease(p)
         \/ call[p].at = "refundCommit" /\ AbortRefund(p)
  PROVE  call[p].order \in Orders /\ LockedRows(call[p].order) = {}
<1>0. /\ call[p].at \in FinanceSteps /\ call[p].order \in Orders /\ call[p] \in Call
      /\ \A s \in call[p].rows : /\ payin[s.row[1]].order = call[p].order
                                 /\ escrow[s.row].status # "NONE" /\ s.row \in Rows
      /\ \A s \in call[p].rows : s.benef # NoUser
  <2>1. call[p].at \in FinanceSteps
    BY DEF AbortRelease, FinanceSteps
  <2> QED BY <2>1, AtWork DEF FlowInv, Books, Inv, OwnRows, SellersRows, Call, Snapshots
<1>1. PICK o \in Orders : o = call[p].order
  BY <1>0
<1>2. PICK rows \in SUBSET Rows : rows = RowsIn(call[p].rows)
  BY <1>0 DEF RowsIn
<1>3. \A r \in rows : payin[r[1]].order = o /\ escrow[r].status # "NONE"
  BY <1>0, <1>1, <1>2 DEF RowsIn
<1>4. ~(wallet[Buyer[o]].escrow >= Total(rows))
  <2>1. CASE AbortRelease(p)
    BY <1>0, <1>1, <1>2, <2>1 DEF AbortRelease, Releasable
  <2>2. CASE call[p].at = "refundCommit" /\ AbortRefund(p)
    <3>1. wallet[Buyer[o]].escrow < Total(rows)
      BY <1>1, <1>2, <2>2 DEF AbortRefund
    <3>2. wallet[Buyer[o]].escrow \in Nat /\ Total(rows) \in Nat
      <4>1. rows \in SUBSET RowsOf(o)
        BY <1>3 DEF RowsOf
      <4>2. Buyer[o] \in Users
        BY LedgerAssumption
      <4> QED BY <4>1, <4>2, TotalType DEF FlowInv, Books, Balanced, Purse
    <3> QED BY <3>1, <3>2
  <2> QED BY <2>1, <2>2
<1>5. PICK s \in rows : escrow[s].status # "LOCKED"
  <2>1. ~(rows \subseteq LockedRows(o))
    BY <1>4, CoverOf
  <2> QED BY <1>3, <2>1 DEF LockedRows, RowsOf
<1>6. ASSUME NEW r \in LockedRows(o) PROVE FALSE
  <2>1. r \in Rows /\ escrow[r].status = "LOCKED" /\ payin[r[1]].order = o
    BY DEF LockedRows, RowsOf
  <2>2. r = s
    BY <1>3, <2>1, OneRow
  <2> QED BY <1>5, <2>1, <2>2
<1> QED BY <1>1, <1>6

-----------------------------------------------------------------------------
\* A sweep finds no TRANSPORT row to settle
LEMMA SweepsNothing ==
  ASSUME FlowInv, SellersRows, NEW p \in Procs, SweepShipment(p)
  PROVE  Aside
<1>0. /\ call \in [Procs -> Call]
      /\ escrow \in [Rows -> [status : RowStatus, benef : Users \cup {NoUser}]]
  BY DEF FlowInv, Books, Inv, Shape
<1>1. PICK rows : /\ rows = {r \in LockedRows(call[p].order) : r[2] = "TRANSPORT"}
                  /\ Settle(rows, "REFUNDED") /\ Go(p, Idle)
                  /\ UNCHANGED <<wallet, payin, withdrawn>>
  BY DEF SweepShipment
<1>2. rows = {}
  BY <1>1 DEF LockedRows, RowsOf, SellersRows
<1>3. \A r \in Rows : escrow'[r].status = escrow[r].status
  BY <1>1, <1>2 DEF Settle
<1>4. \A q \in Procs : call'[q] = call[q] \/ call'[q].rows = {}
  BY <1>0, <1>1, NoRows DEF Go
<1> QED BY <1>1, <1>3, <1>4 DEF Aside

\* Who writes the rows
LEMMA RowWrites ==
  ASSUME [Next]_vars
  PROVE  \/ UNCHANGED escrow
         \/ \E o, t : escrow' = Assigned(o, t) \/ escrow' = Unassigned(o, t)
         \/ \E p \in Procs : \/ SweepShipment(p) \/ ConfirmPayment(p) \/ CommitRelease(p)
                            \/ CommitRefund(p) \/ CommitSplit(p)
<1>1. ASSUME NEW p \in Procs, NEW o \in Orders, Begin(p, o) PROVE UNCHANGED escrow
  BY <1>1, Zenon DEF Begin, CreateOrder, PayOrder, UpdateStatus, ConfirmDelivery,
     ReleaseEscrowAdmin, CheckDispute, CheckResolve, AcceptShipment, CheckShipment, CheckQr,
     CheckScan, SweepOrder, ListShipment
<1>2. ASSUME NEW o \in Orders, OneShot(o)
      PROVE  UNCHANGED escrow \/ \E t : escrow' = Unassigned(o, t)
  BY <1>2 DEF OneShot, NegotiatedOrder, CancelShipment, ledgerVars
<1>3. ASSUME NEW p \in Procs, GoOn(p) \/ Die(p)
      PROVE  \/ UNCHANGED escrow \/ AssignBeneficiary(p)
             \/ SweepShipment(p) \/ ConfirmPayment(p) \/ CommitRelease(p)
             \/ CommitRefund(p) \/ CommitSplit(p)
  BY <1>3, Zenon DEF GoOn, Die, Crash, Finance, ProcessPayin, RefusePayin, StockGone,
     ReadRelease, NothingToRelease, AbortRelease, ReadRefund, AbortRefund, Compensate,
     OpenDispute, Resolve, CloseDispute, MoveShipment, SignQr, ScanPickup
<1>4. ASSUME NEW p \in Procs, AssignBeneficiary(p) PROVE \E o, t : escrow' = Assigned(o, t)
  BY <1>4, Zenon DEF AssignBeneficiary
<1> QED BY <1>1, <1>2, <1>3, <1>4, Zenon DEF Next, vars

\* Rows stay rows of the sellers
LEMMA SellersRowsStep ==
  ASSUME PlainSale, FlowInv, SellersRows, [Next]_vars
  PROVE  SellersRows'
<1>0. /\ call \in [Procs -> Call]
      /\ escrow \in [Rows -> [status : RowStatus, benef : Users \cup {NoUser}]]
  BY DEF FlowInv, Books, Inv, Shape
<1> DEFINE Sold(r, x) == x.status # "NONE" => r[2] = "PRODUCT" /\ x.benef # NoUser
<1>1. ASSUME NEW r \in Rows PROVE Sold(r, escrow'[r])
  <2>0. Sold(r, escrow[r])
    BY DEF SellersRows
  <2>1. CASE \E o, t : escrow' = Assigned(o, t) \/ escrow' = Unassigned(o, t)
    <3>1. ~(escrow[r].status = "LOCKED" /\ r[2] = "TRANSPORT")
      BY <2>0
    <3>2. escrow'[r] = escrow[r]
      BY <2>1, <3>1 DEF Assigned, Unassigned, LockedRows
    <3> QED BY <2>0, <3>2
  <2>2. ASSUME NEW rows, NEW status, Settle(rows, status), r \in rows => escrow[r].status # "NONE"
        PROVE  Sold(r, escrow'[r])
    BY <1>0, <2>0, <2>2 DEF Settle
  <2>3. ASSUME NEW p \in Procs, SweepShipment(p) PROVE Sold(r, escrow'[r])
    BY <2>2, <2>3 DEF SweepShipment, LockedRows
  <2>4. ASSUME NEW p \in Procs, CommitRelease(p) \/ CommitRefund(p) \/ CommitSplit(p)
        PROVE  Sold(r, escrow'[r])
    <3>1. r \in RowsIn(call[p].rows) => escrow[r].status # "NONE"
      BY DEF RowsIn, FlowInv, Books, Inv, OwnRows
    <3>2. r \in RowsIn(Splittable(p)) => r \in RowsIn(call[p].rows)
      BY DEF RowsIn, Splittable
    <3>3. \/ \E status : Settle(RowsIn(call[p].rows), status)
          \/ \E status : Settle(RowsIn(Splittable(p)), status)
      BY <2>4, Zenon DEF CommitRelease, CommitRefund, CommitSplit
    <3> QED BY <2>2, <3>1, <3>2, <3>3
  <2>5. ASSUME NEW p \in Procs, ConfirmPayment(p) PROVE Sold(r, escrow'[r])
    <3>1. PICK o \in Orders : o = call[p].order
      BY <2>5, AtWork DEF ConfirmPayment, FinanceSteps, FlowInv, Books
    <3>2. ~(Carriage[o] > 0)
      BY DEF PlainSale
    <3>3. Seller[o] # NoUser
      BY LedgerAssumption
    <3>4. \/ escrow'[r] = escrow[r]
          \/ r[2] = "PRODUCT" /\ escrow'[r] = [status |-> "LOCKED", benef |-> Seller[o]]
      BY <2>5, <3>1, <3>2 DEF ConfirmPayment
    <3> QED BY <2>0, <3>3, <3>4
  <2>6. CASE UNCHANGED escrow
    BY <2>0, <2>6
  <2> QED BY <2>1, <2>3, <2>4, <2>5, <2>6, RowWrites
<1>2. ASSUME NEW q \in Procs, NEW s \in call'[q].rows PROVE s.benef # NoUser
  <2>1. CASE call'[q].rows = {}
    BY <1>2, <2>1
  <2>2. CASE call'[q].rows = call[q].rows
    BY <1>2, <2>2 DEF SellersRows
  <2>3. CASE \E o, kinds : call'[q].rows = Snapshot(o, kinds)
    BY <1>2, <2>3 DEF SellersRows, Snapshot, LockedRows, RowsOf
  <2>4. CASE Aside
    BY <2>1, <2>2, <2>4 DEF Aside
  <2>5. ASSUME NEW p \in Procs, Finance(p)
        PROVE  \/ call'[q].rows = {} \/ call'[q].rows = call[q].rows
               \/ \E o, kinds : call'[q].rows = Snapshot(o, kinds)
    <3>1. CASE ProcessPayin(p)
      BY <1>0, <3>1 DEF ProcessPayin, Call
    <3>2. CASE ReadRelease(p) \/ (ReadRefund(p) /\ ~Return(p))
      BY <1>0, <3>2 DEF ReadRelease, ReadRefund, Call
    <3>3. ASSUME NEW step, Resume(p, step)
          PROVE  call'[q].rows = {} \/ call'[q].rows = call[q].rows
      <4>1. Idle.rows = {} /\ [Idle EXCEPT !.at = step, !.order = call[p].order].rows = {}
        BY DEF Idle
      <4> QED BY <1>0, <3>3, <4>1 DEF Resume
    <3>4. CASE Return(p) \/ Throw(p)
      BY <3>3, <3>4 DEF Return, Throw
    <3> QED BY <2>5, <3>1, <3>2, <3>4, FinanceGoes
  <2> QED BY <2>1, <2>2, <2>3, <2>4, <2>5, AsideSteps, SweepsNothing
<1> QED BY <1>1, <1>2 DEF SellersRows

-----------------------------------------------------------------------------
\* Who writes the status of an order
LEMMA StatusWriters ==
  ASSUME [Next]_vars
  PROVE  \/ UNCHANGED order
         \/ \E p \in Procs, o \in Orders : \E side, s : UpdateStatus(p, o, side, s)
         \/ \E p \in Procs : \/ Compensate(p) \/ OpenDispute(p) \/ CloseDispute(p)
                            \/ MoveShipment(p) \/ Finance(p)
<1>1. ASSUME NEW p \in Procs, NEW x \in Orders, Begin(p, x)
      PROVE  UNCHANGED order \/ \E side, s : UpdateStatus(p, x, side, s)
  BY <1>1, Zenon DEF Begin, CreateOrder, PayOrder, ConfirmDelivery, ReleaseEscrowAdmin,
     CheckDispute, CheckResolve, AcceptShipment, CheckShipment, CheckQr, CheckScan,
     SweepOrder, ListShipment
<1>2. ASSUME NEW p \in Procs, GoOn(p) \/ Die(p)
      PROVE  \/ UNCHANGED order \/ Compensate(p) \/ OpenDispute(p) \/ CloseDispute(p)
             \/ MoveShipment(p) \/ Finance(p)
  BY <1>2, Zenon DEF GoOn, Die, Crash, Resolve, AssignBeneficiary, SweepShipment, SignQr,
     ScanPickup
<1>3. ASSUME NEW x \in Orders, OneShot(x) PROVE order' = order
  BY <1>3 DEF OneShot, NegotiatedOrder, CancelShipment, ledgerVars
<1> QED BY <1>1, <1>2, <1>3, Zenon DEF Next, vars

\* Nobody opens a dispute, makes an order DISPUTED or resolves anything
LEMMA UndisputedStep ==
  ASSUME PlainSale, FlowInv, Undisputed, [Next]_vars
  PROVE  Undisputed'
<1>0. call \in [Procs -> Call] /\ order \in [Orders -> OrderStatus]
  BY DEF FlowInv, Books, Inv, Shape
<1>1. \A p \in Procs : ~OpenDispute(p) /\ ~CloseDispute(p) /\ ~Resolve(p)
  BY DEF Undisputed, Disputing, Resolving, OpenDispute, CloseDispute, Resolve, At
<1>2. ASSUME NEW o \in Orders, order'[o] = "DISPUTED" PROVE FALSE
  <2>0. order[o] # "DISPUTED"
    BY DEF Undisputed
  <2>1. ASSUME NEW x, NEW s, SetOrder(x, s), s # "DISPUTED" PROVE FALSE
    BY <1>0, <1>2, <2>0, <2>1 DEF SetOrder
  <2>2. ASSUME NEW p, NEW x, NEW side, NEW s, UpdateStatus(p, x, side, s) PROVE FALSE
    <3>1. SetOrder(x, s) /\ s \in StatusWrites
      BY <2>2 DEF UpdateStatus
    <3> QED BY <2>1, <3>1 DEF PlainSale
  <2>3. ASSUME NEW p, Finance(p) PROVE FALSE
    <3>1. UNCHANGED order \/ \E x : SetOrder(x, "ACCEPTED") \/ SetOrder(x, "COMPLETED")
      BY <2>3, Zenon DEF Finance, ProcessPayin, RefusePayin, ConfirmPayment, StockGone,
         ReadRelease, NothingToRelease, CommitRelease, AbortRelease, ReadRefund, CommitRefund,
         CommitSplit, AbortRefund, SetOrder
    <3> QED BY <1>2, <2>0, <2>1, <3>1
  <2>4. ASSUME NEW p, Compensate(p) \/ MoveShipment(p) PROVE FALSE
    <3>1. UNCHANGED order \/ \E x : SetOrder(x, "CANCELLED") \/ SetOrder(x, "DELIVERED")
      BY <2>4, Zenon DEF Compensate, MoveShipment
    <3> QED BY <1>2, <2>0, <2>1, <3>1
  <2> QED BY <1>1, <1>2, <2>0, <2>2, <2>3, <2>4, StatusWriters
<1>3. ASSUME NEW d \in Disputes PROVE dispute'[d].status # "OPEN"
  BY <1>2, OpenedBy DEF Undisputed
<1> DEFINE Clean(c) == /\ c.at \notin Disputing
                       /\ c.then \in {"idle", "compensate"} /\ c.catch \in {"idle", "compensate"}
<1>4. ASSUME NEW q \in Procs PROVE Clean(call'[q])
  <2>0. Clean(call[q]) /\ Clean(Idle)
    BY DEF Undisputed, Idle, Disputing, Resolving
  <2>1. ASSUME NEW c, Go(q, c), Clean(c) PROVE Clean(call'[q])
    BY <1>0, <2>1 DEF Go
  <2>2. CASE call'[q] = call[q]
    BY <2>0, <2>2
  <2>3. ASSUME NEW o \in Orders, Begin(q, o) PROVE Clean(call'[q])
    <3>1. ASSUME NEW step, NEW a, step \in OwnSteps \ Disputing, Go(q, Own(step, o, a))
          PROVE  Clean(call'[q])
      <4>1. Clean(Own(step, o, a))
        BY <3>1 DEF Own, Idle
      <4> QED BY <2>1, <3>1, <4>1
    <3>2. ASSUME NEW step \in {"payin", "release", "refund"}, NEW kinds,
                 NEW u \in {"idle", "compensate"},
                 Go(q, Request(step, o, kinds, 0, "idle", u))
          PROVE  Clean(call'[q])
      <4>1. Clean(Request(step, o, kinds, 0, "idle", u))
        BY <3>2 DEF Request, Idle, Disputing, Resolving
      <4> QED BY <2>1, <3>2, <4>1
    <3>3. /\ "assign" \in OwnSteps \ Disputing /\ "signQr" \in OwnSteps \ Disputing
          /\ "scan" \in OwnSteps \ Disputing /\ "compensate" \in OwnSteps \ Disputing
          /\ "sweepShipment" \in OwnSteps \ Disputing
          /\ ShipmentStatus \subseteq OwnSteps \ Disputing
      BY DEF OwnSteps, Disputing, Resolving, ShipmentStatus
    <3>4. ~On("openDispute") /\ \A step : ~CheckResolve(q, o, step)
      BY DEF On, PlainSale, CheckResolve, OpenDisputes, Undisputed
    <3>5. CASE CreateOrder(q, o) \/ PayOrder(q, o)
      BY <3>2, <3>5, Zenon DEF CreateOrder, PayOrder
    <3>6. ASSUME NEW side, NEW s, UpdateStatus(q, o, side, s) PROVE Clean(call'[q])
      BY <2>0, <2>1, <3>2, <3>6 DEF UpdateStatus, CallRelease, CallRefund
    <3>7. CASE ConfirmDelivery(q, o) \/ \E kinds : ReleaseEscrowAdmin(q, o, kinds)
      BY <3>2, <3>7, Zenon DEF ConfirmDelivery, ReleaseEscrowAdmin, CallRelease
    <3>8. CASE \E t : AcceptShipment(q, o, t)
      BY <3>1, <3>3, <3>8, Zenon DEF AcceptShipment
    <3>9. CASE \E s \in ShipmentStatus : CheckShipment(q, o, s)
      BY <3>1, <3>3, <3>9 DEF CheckShipment
    <3>10. CASE CheckQr(q, o) \/ CheckScan(q, o) \/ SweepOrder(q, o) \/ ListShipment(q, o)
      BY <3>1, <3>3, <3>10, Zenon DEF CheckQr, CheckScan, SweepOrder, ListShipment
    <3> QED BY <2>3, <3>4, <3>5, <3>6, <3>7, <3>8, <3>9, <3>10, Zenon DEF Begin
  <2>4. CASE HandlerStep(q)
    <3>1. Go(q, Idle) \/ \E o : \/ Go(q, CallRefund(o))
                                \/ \E kinds : Go(q, CallRelease(o, kinds, "idle"))
      BY <1>1, <2>4, Zenon DEF HandlerStep, Compensate, AssignBeneficiary, MoveShipment,
         SweepShipment, SignQr, ScanPickup
    <3>2. \A o, kinds : Clean(CallRefund(o)) /\ Clean(CallRelease(o, kinds, "idle"))
      BY DEF CallRefund, CallRelease, Request, Idle, Disputing, Resolving
    <3> QED BY <2>0, <2>1, <3>1, <3>2
  <2>5. ~Die(q)
    BY DEF Die, PlainSale
  <2>6. CASE Finance(q)
    <3>1. ASSUME NEW step \in {"idle", "compensate"}, Resume(q, step) PROVE Clean(call'[q])
      <4>1. Clean([Idle EXCEPT !.at = step, !.order = call[q].order])
        BY DEF Idle, Disputing, Resolving
      <4> QED BY <1>0, <2>0, <3>1, <4>1 DEF Resume
    <3>2. CASE Return(q) \/ Throw(q)
      BY <2>0, <3>1, <3>2 DEF Return, Throw
    <3>3. CASE ProcessPayin(q)
      BY <1>0, <2>0, <3>3 DEF ProcessPayin, Call, Disputing, Resolving
    <3>4. CASE ReadRelease(q)
      BY <1>0, <2>0, <3>4 DEF ReadRelease, Call, Disputing, Resolving
    <3>5. CASE ReadRefund(q) /\ ~Return(q)
      BY <1>0, <2>0, <3>5 DEF ReadRefund, Call, Disputing, Resolving
    <3> QED BY <2>6, <3>2, <3>3, <3>4, <3>5, FinanceGoes
  <2>7. call'[q] = call[q] \/ Moving(q)
    BY Moves, OthersStay
  <2> QED BY <2>2, <2>3, <2>4, <2>5, <2>6, <2>7 DEF Moving
<1> QED BY <1>2, <1>3, <1>4 DEF Undisputed

-----------------------------------------------------------------------------
\* Steps that settle no row leave the LOCKED rows as they are
LEMMA LockedStay ==
  ASSUME UNCHANGED payin, \A r \in Rows : escrow'[r].status = escrow[r].status
  PROVE  \A o : LockedRows(o)' = LockedRows(o)
BY DEF LockedRows, RowsOf

\* An order's debt stays met when its rows are only settled, and the request that moves and
\* was to settle them goes on to do so
LEMMA DueKept ==
  ASSUME FlowInv, NEW o \in Orders, DueOf(o), order'[o] = order[o],
         LockedRows(o)' \subseteq LockedRows(o), NEW p \in Procs, Moving(p) \/ Finance(p),
         Settling(p, o) => LockedRows(o)' = {} \/ Settling(p, o)'
  PROVE  DueOf(o)'
<1>1. ASSUME NEW q \in Procs, Settling(q, o) PROVE LockedRows(o)' = {} \/ Settling(q, o)'
  <2>1. CASE q = p
    BY <1>1, <2>1
  <2>2. CASE q # p
    <3>1. call'[q] = call[q]
      BY <2>2, OthersStay
    <3> QED BY <1>1, <3>1 DEF Settling
  <2> QED BY <2>1, <2>2
<1>2. LockedRows(o) = {} => LockedRows(o)' = {}
  OBVIOUS
<1> QED BY <1>1, <1>2 DEF DueOf

\* A request that begins: updateStatus calls refundBuyer for what was paid, releaseEscrow for
\* what was delivered
LEMMA BeginDue ==
  ASSUME PlainSale, FlowInv, Undisputed, Aside, NEW o \in Orders, DueOf(o),
         NEW p \in Procs, NEW x \in Orders, Begin(p, x)
  PROVE  DueOf(o)'
<1>0. /\ call \in [Procs -> Call] /\ order \in [Orders -> OrderStatus]
      /\ LockedRows(o)' = LockedRows(o) /\ Moving(p)
  BY LockedStay DEF FlowInv, Books, Inv, Shape, Aside, Moving
<1>1. CASE order'[o] = order[o]
  <2>1. call[p].at = "idle"
    BY Zenon DEF Begin, CreateOrder, PayOrder, UpdateStatus, ConfirmDelivery, ReleaseEscrowAdmin,
       CheckDispute, CheckResolve, AcceptShipment, CheckShipment, CheckQr, CheckScan,
       SweepOrder, ListShipment, Free
  <2>2. ~Settling(p, o)
    BY <2>1 DEF Settling
  <2> QED BY <1>0, <1>1, <2>2, DueKept
<1>2. CASE order'[o] # order[o]
  <2>1. UNCHANGED order \/ \E side, s : UpdateStatus(p, x, side, s)
    BY Zenon DEF Begin, CreateOrder, PayOrder, ConfirmDelivery, ReleaseEscrowAdmin,
       CheckDispute, CheckResolve, AcceptShipment, CheckShipment, CheckQr, CheckScan,
       SweepOrder, ListShipment
  <2>2. PICK side, s : UpdateStatus(p, x, side, s)
    BY <1>2, <2>1
  <2>3. x = o /\ order'[o] = s
    BY <1>0, <1>2, <2>2 DEF UpdateStatus, SetOrder
  <2>4. /\ s \in AllowedTransitions[order[o]] /\ s # "DISPUTED" /\ order[o] # "DISPUTED"
        /\ order[o] \in OrderStatus
    BY <1>0, <2>2, <2>3 DEF UpdateStatus, PlainSale, Undisputed
  <2>5. CASE order[o] = "SENT"
    BY <1>0, <2>5 DEF DueOf
  <2>6. CASE s = "CANCELLED" /\ WasPaid(order[o])
    <3>1. Go(p, CallRefund(o))
      BY <2>2, <2>3, <2>6 DEF UpdateStatus
    <3>2. CallRefund(o).at = "refund" /\ CallRefund(o).order = o
      BY DEF CallRefund, Request, Idle
    <3>3. Settling(p, o)'
      BY <1>0, <3>1, <3>2 DEF Go, Settling
    <3> QED BY <2>3, <2>6, <3>3 DEF DueOf
  <2>7. CASE s = "COMPLETED" /\ order[o] = "DELIVERED"
    <3>1. Go(p, CallRelease(o, Kinds, "idle"))
      BY <2>2, <2>3, <2>7 DEF UpdateStatus
    <3>2. /\ CallRelease(o, Kinds, "idle").at = "release"
          /\ CallRelease(o, Kinds, "idle").order = o
          /\ "PRODUCT" \in CallRelease(o, Kinds, "idle").kinds
      BY DEF CallRelease, Request, Idle, Kinds
    <3>3. Settling(p, o)'
      BY <1>0, <3>1, <3>2 DEF Go, Settling
    <3> QED BY <2>3, <2>7, <3>3 DEF DueOf
  <2>8. CASE s \in {"IN_PROGRESS", "DELIVERED"}
    BY <2>3, <2>8 DEF DueOf
  <2> QED BY <2>4, <2>5, <2>6, <2>7, <2>8 DEF AllowedTransitions, OrderStatus, WasPaid
<1> QED BY <1>1, <1>2

\* A handler that goes on: cancelOrderCompensation calls refundBuyer for what was paid
LEMMA HandlerDue ==
  ASSUME PlainSale, FlowInv, Undisputed, Aside, NEW o \in Orders, DueOf(o),
         NEW p \in Procs, HandlerStep(p)
  PROVE  DueOf(o)'
<1>0. /\ call \in [Procs -> Call] /\ order \in [Orders -> OrderStatus]
      /\ LockedRows(o)' = LockedRows(o) /\ Moving(p)
  BY LockedStay DEF FlowInv, Books, Inv, Shape, Aside, Moving
<1>1. ~OpenDispute(p) /\ ~CloseDispute(p) /\ ~Resolve(p)
  BY DEF Undisputed, Disputing, Resolving, OpenDispute, CloseDispute, Resolve, At
<1>2. CASE order'[o] = order[o]
  <2>1. call[p].at \in {"compensate", "assign", "sweepShipment", "signQr", "scan"}
                       \cup ShipmentStatus
    BY <1>1 DEF HandlerStep, Compensate, AssignBeneficiary, MoveShipment, SweepShipment,
       SignQr, ScanPickup, At
  <2>2. ~Settling(p, o)
    BY <2>1 DEF Settling, ShipmentStatus
  <2> QED BY <1>0, <1>2, <2>2, DueKept
<1>3. CASE order'[o] # order[o]
  <2>1. Compensate(p) \/ MoveShipment(p)
    BY <1>1, <1>3, Zenon DEF HandlerStep, AssignBeneficiary, SweepShipment, SignQr, ScanPickup
  <2>2. CASE MoveShipment(p)
    <3>1. order'[o] = "DELIVERED"
      BY <1>0, <1>3, <2>2 DEF MoveShipment, SetOrder
    <3> QED BY <3>1 DEF DueOf
  <2>3. CASE Compensate(p)
    <3>1. call[p].order = o /\ order'[o] = "CANCELLED" /\ order[o] \notin {"CANCELLED", "COMPLETED"}
      BY <1>0, <1>3, <2>3 DEF Compensate, SetOrder
    <3>2. CASE WasPaid(order[o])
      <4>1. Go(p, CallRefund(o))
        BY <2>3, <3>1, <3>2 DEF Compensate
      <4>2. CallRefund(o).at = "refund" /\ CallRefund(o).order = o
        BY DEF CallRefund, Request, Idle
      <4>3. Settling(p, o)'
        BY <1>0, <4>1, <4>2 DEF Go, Settling
      <4> QED BY <3>1, <4>3 DEF DueOf
    <3>3. CASE ~WasPaid(order[o])
      <4>1. order[o] \in {"SENT", "REJECTED"}
        BY <1>0, <3>1, <3>3 DEF WasPaid, OrderStatus, Undisputed
      <4> QED BY <1>0, <4>1 DEF DueOf
    <3> QED BY <3>2, <3>3
  <2> QED BY <2>1, <2>2, <2>3
<1> QED BY <1>2, <1>3

\* A copy of the LOCKED rows misses none: they are all PRODUCT rows
LEMMA CopyIsWhole ==
  ASSUME SellersRows, NEW o, NEW kinds, "PRODUCT" \in kinds
  PROVE  LockedRows(o) \subseteq RowsIn(Snapshot(o, kinds))
<1> SUFFICES ASSUME NEW r \in LockedRows(o) PROVE r \in RowsIn(Snapshot(o, kinds))
  OBVIOUS
<1>1. r \in {x \in LockedRows(o) : x[2] \in kinds}
  BY DEF SellersRows, LockedRows, RowsOf
<1>2. [row |-> r, benef |-> escrow[r].benef] \in Snapshot(o, kinds)
  BY <1>1 DEF Snapshot
<1>3. [row |-> r, benef |-> escrow[r].benef].row = r
  OBVIOUS
<1> QED BY <1>2, <1>3 DEF RowsIn

\* What a commit settles is LOCKED no more
LEMMA SettledRows ==
  ASSUME FlowInv, NEW rows, NEW status, status # "LOCKED", Settle(rows, status), UNCHANGED payin,
         NEW o
  PROVE  LockedRows(o)' = LockedRows(o) \ rows
<1>1. escrow \in [Rows -> [status : RowStatus, benef : Users \cup {NoUser}]]
  BY DEF FlowInv, Books, Inv, Shape
<1>2. ASSUME NEW r \in Rows
      PROVE  escrow'[r].status = "LOCKED" <=> escrow[r].status = "LOCKED" /\ r \notin rows
  BY <1>1 DEF Settle
<1> QED BY <1>2 DEF LockedRows, RowsOf

\* A finance method settles, finds nothing LOCKED, or goes on to settle; it gives up only
\* what another request settled
LEMMA FinanceDue ==
  ASSUME FlowInv, SellersRows, Undisputed, PaidOnce, EscrowCovered,
         NEW o \in Orders, DueOf(o), NEW p \in Procs, Finance(p)
  PROVE  DueOf(o)'
<1>0. /\ call \in [Procs -> Call] /\ order \in [Orders -> OrderStatus]
      /\ payin \in [Payins -> [order : Orders \cup {NoOrder},
                               status : {"NONE", "PENDING", "ESCROW"}]]
      /\ call[p].at \notin {"split", "splitCommit"}
  BY DEF FlowInv, Books, Inv, Shape, Undisputed, Disputing
<1>1. CASE ProcessPayin(p)
  <2>1. PICK i \in Payins :
          /\ payin[i].status = "NONE"
          /\ payin' = [payin EXCEPT ![i] = [order |-> call[p].order, status |-> "PENDING"]]
    BY <1>1 DEF ProcessPayin
  <2>2. ASSUME NEW r \in LockedRows(o)' PROVE r \in LockedRows(o)
    <3>1. r \in Rows /\ r[1] \in Payins /\ escrow[r].status = "LOCKED" /\ payin'[r[1]].order = o
      BY <1>1, <2>2 DEF LockedRows, RowsOf, ProcessPayin, Rows
    <3>2. r[1] # i
      BY <2>1, <3>1 DEF FlowInv, Books, Inv, RowsFollowPayin
    <3> QED BY <1>0, <2>1, <3>1, <3>2 DEF LockedRows, RowsOf
  <2>3. order'[o] = order[o] /\ ~Settling(p, o)
    BY <1>1 DEF ProcessPayin, Settling
  <2> QED BY <2>2, <2>3, DueKept
<1>2. CASE RefusePayin(p) \/ StockGone(p)
  <2>1. /\ LockedRows(o)' = LockedRows(o) /\ order'[o] = order[o]
        /\ ~Settling(p, o)
    BY <1>2, LockedStay DEF RefusePayin, StockGone, Settling
  <2> QED BY <2>1, DueKept
<1>3. CASE ConfirmPayment(p)
  <2>1. PICK i \in Payins, x \in Orders :
          /\ i = call[p].payin /\ x = call[p].order /\ payin[i].order = x
          /\ payin' = [payin EXCEPT ![i].status = "ESCROW"]
          /\ order' = [order EXCEPT ![x] = "ACCEPTED"]
          /\ \A r \in Rows : r[1] # i => escrow'[r] = escrow[r]
    <3>1. call[p].at = "confirm" /\ Inv
      BY <1>3 DEF ConfirmPayment, FlowInv, Books
    <3>2. call[p].order \in Orders
      BY <3>1, AtWork DEF FinanceSteps
    <3>3. call[p].payin \in Payins /\ payin[call[p].payin].order = call[p].order
      <4>1. /\ call[p].payin \in Payins
            /\ payin[call[p].payin] = [order |-> call[p].order, status |-> "PENDING"]
        BY <3>1, Zenon DEF Inv, OneConfirmer
      <4> QED BY <4>1
    <3> QED BY <1>3, <3>2, <3>3 DEF ConfirmPayment
  <2>2. CASE x = o
    <3>1. order'[o] = "ACCEPTED"
      BY <1>0, <2>1, <2>2
    <3> QED BY <3>1 DEF DueOf
  <2>3. CASE x # o
    <3>1. order'[o] = order[o] /\ ~Settling(p, o)
      BY <1>0, <2>1, <2>3 DEF Settling
    <3>2. ASSUME NEW r \in LockedRows(o)' PROVE r \in LockedRows(o)
      <4>1. r \in Rows /\ r[1] \in Payins /\ escrow'[r].status = "LOCKED" /\ payin'[r[1]].order = o
        BY <3>2 DEF LockedRows, RowsOf, Rows
      <4>2. r[1] # i /\ payin[r[1]].order = o
        BY <1>0, <2>1, <2>3, <4>1
      <4> QED BY <2>1, <4>1, <4>2 DEF LockedRows, RowsOf
    <3> QED BY <3>1, <3>2, DueKept
  <2> QED BY <2>2, <2>3
<1>4. CASE ReadRelease(p) \/ NothingToRelease(p)
  <2>1. LockedRows(o)' = LockedRows(o) /\ order'[o] = order[o]
    BY <1>4, LockedStay DEF ReadRelease, NothingToRelease
  <2>2. ASSUME Settling(p, o) PROVE LockedRows(o) = {} \/ Settling(p, o)'
    <3>1. /\ call[p].order = o
          /\ LockedRows(o) \subseteq RowsIn(Snapshot(o, call[p].kinds))
      BY <1>4, <2>2, CopyIsWhole DEF Settling, ReadRelease, NothingToRelease
    <3>2. CASE NothingToRelease(p)
      BY <3>1, <3>2 DEF NothingToRelease, RowsIn
    <3>3. CASE ReadRelease(p)
      <4>1. /\ call'[p].order = o /\ call'[p].at = "releaseCommit"
            /\ call'[p].rows = Snapshot(o, call[p].kinds)
        BY <1>0, <3>1, <3>3 DEF ReadRelease, Call
      <4>2. LockedRows(o)' \subseteq RowsIn(call[p].rows)'
        BY <2>1, <3>1, <4>1 DEF RowsIn
      <4> QED BY <4>1, <4>2 DEF Settling
    <3> QED BY <1>4, <3>2, <3>3
  <2> QED BY <2>1, <2>2, DueKept
<1>5. CASE CommitRelease(p)
  <2>1. PICK x, rows :
          /\ x = call[p].order /\ rows = RowsIn(call[p].rows) /\ Settle(rows, "RELEASED")
          /\ UNCHANGED payin
          /\ \/ order' = order
             \/ LockedRows(x) \subseteq rows /\ order' = [order EXCEPT ![x] = "COMPLETED"]
    BY <1>5, Zenon DEF CommitRelease
  <2>2. LockedRows(o)' = LockedRows(o) \ rows
    BY <2>1, SettledRows
  <2>3. CASE order'[o] = order[o]
    <3>1. Settling(p, o) => LockedRows(o)' = {}
      BY <1>5, <2>1, <2>2 DEF Settling, CommitRelease
    <3> QED BY <2>2, <2>3, <3>1, DueKept
  <2>4. CASE order'[o] # order[o]
    <3>1. x = o /\ LockedRows(o) \subseteq rows
      BY <1>0, <2>1, <2>4
    <3> QED BY <2>2, <3>1 DEF DueOf
  <2> QED BY <2>3, <2>4
<1>6. CASE ReadRefund(p)
  <2>1. LockedRows(o)' = LockedRows(o) /\ order'[o] = order[o] /\ call[p].at = "refund"
    BY <1>0, <1>6, LockedStay DEF ReadRefund
  <2>2. ASSUME Settling(p, o) PROVE LockedRows(o) = {} \/ Settling(p, o)'
    <3>1. /\ call[p].order = o
          /\ LockedRows(o) \subseteq RowsIn(Snapshot(o, Kinds))
      BY <2>2, CopyIsWhole DEF Settling, Kinds
    <3>2. CASE Snapshot(o, Kinds) = {}
      BY <3>1, <3>2 DEF RowsIn
    <3>3. CASE Snapshot(o, Kinds) # {}
      <4>1. /\ call'[p].order = o /\ call'[p].at = "refundCommit"
            /\ call'[p].rows = Snapshot(o, Kinds)
        BY <1>0, <1>6, <2>1, <3>1, <3>3 DEF ReadRefund, Call
      <4>2. LockedRows(o)' \subseteq RowsIn(call[p].rows)'
        BY <2>1, <3>1, <4>1 DEF RowsIn
      <4> QED BY <4>1, <4>2 DEF Settling
    <3> QED BY <3>2, <3>3
  <2> QED BY <2>1, <2>2, DueKept
<1>7. CASE CommitRefund(p)
  <2>1. PICK rows : /\ rows = RowsIn(call[p].rows) /\ Settle(rows, "REFUNDED")
                    /\ UNCHANGED <<order, payin>> /\ call[p].at = "refundCommit"
    BY <1>7, Zenon DEF CommitRefund
  <2>2. LockedRows(o)' = LockedRows(o) \ rows
    BY <2>1, SettledRows
  <2>3. Settling(p, o) => LockedRows(o)' = {}
    BY <2>1, <2>2 DEF Settling
  <2> QED BY <2>1, <2>2, <2>3, DueKept
<1>8. CASE AbortRelease(p) \/ AbortRefund(p)
  <2>1. LockedRows(o)' = LockedRows(o) /\ order'[o] = order[o]
    BY <1>8, LockedStay DEF AbortRelease, AbortRefund
  <2>2. AbortRelease(p) \/ (call[p].at = "refundCommit" /\ AbortRefund(p))
    BY <1>0, <1>8 DEF AbortRefund
  <2>3. LockedRows(call[p].order) = {}
    BY <2>2, GivenUp
  <2>4. Settling(p, o) => LockedRows(o) = {}
    BY <2>3 DEF Settling
  <2> QED BY <2>1, <2>4, DueKept
<1>9. ~CommitSplit(p)
  BY <1>0 DEF CommitSplit
<1> QED BY <1>1, <1>2, <1>3, <1>4, <1>5, <1>6, <1>7, <1>8, <1>9 DEF Finance

\* ... so no step leaves an order's debt unmet
LEMMA DueStep ==
  ASSUME PlainSale, FlowInv, DueInv, PaidOnce, EscrowCovered, [Next]_vars
  PROVE  DueInv'
<1>1. SellersRows' /\ Undisputed'
  BY SellersRowsStep, UndisputedStep DEF DueInv
<1>2. ASSUME NEW o \in Orders PROVE DueOf(o)'
  <2>0. DueOf(o) /\ SellersRows /\ Undisputed
    BY DEF DueInv, Due
  <2>1. ASSUME NEW p \in Procs, Finance(p) PROVE DueOf(o)'
    BY <2>0, <2>1, FinanceDue
  <2>2. Aside \/ \E p \in Procs : Finance(p)
    BY <2>0, AsideSteps, SweepsNothing
  <2>3. CASE Aside
    <3>1. CASE UNCHANGED <<order, payin, wallet, call>>
      <4>1. \A x : LockedRows(x)' = LockedRows(x)
        BY <2>3, LockedStay DEF Aside
      <4> QED BY <2>0, <3>1, <4>1 DEF DueOf, Settling
    <3>2. ASSUME NEW p \in Procs, Moving(p) PROVE DueOf(o)'
      <4>1. ~Die(p)
        BY DEF Die, PlainSale
      <4> QED BY <2>0, <2>1, <2>3, <3>2, <4>1, BeginDue, HandlerDue DEF Moving
    <3> QED BY <3>1, <3>2, Moves
  <2> QED BY <2>1, <2>2, <2>3
<1> QED BY <1>1, <1>2 DEF DueInv, Due

\* At first nothing is owed
LEMMA DueInit ==
  ASSUME Init
  PROVE  DueInv
<1>1. \A o : LockedRows(o) = {}
  BY DEF Init, LedgerInit, LockedRows, RowsOf
<1>2. SellersRows
  BY DEF Init, LedgerInit, SellersRows, Idle
<1>3. Undisputed
  BY DEF Init, LedgerInit, Undisputed, Disputing, Resolving, Idle
<1> QED BY <1>1, <1>2, <1>3 DEF DueInv, Due, DueOf

\* The escrow of a buyer is what the LOCKED rows are worth at most, as nothing is swept
LEMMA BackedOn ==
  ASSUME FlowInv, SellersRows, EscrowBacked, [Next]_vars
  PROVE  EscrowBacked'
<1>1. CASE Aside
  <2>1. FlowInv'
    BY FlowNextInv
  <2>2. Moneyless /\ listing' \in [Listings -> Shelf]
    BY <1>1, <2>1 DEF Aside, Moneyless, FlowInv, Books, Balanced
  <2> QED BY <2>2, MoneylessStep DEF FlowInv, Books, BooksKept
<1>2. ASSUME NEW p \in Procs, Finance(p) PROVE EscrowBacked'
  BY <1>2, FinanceMoney DEF FlowInv, Books, BooksKept
<1>3. Aside \/ \E p \in Procs : Finance(p)
  BY AsideSteps, SweepsNothing
<1> QED BY <1>1, <1>2, <1>3

\* Once the requests have ended nobody is about to settle
LEMMA SettledAtRest ==
  ASSUME DueInv
  PROVE  CancelledIsUndone /\ CompletedIsPaid
<1>1. Quiet => \A p \in Procs, o \in Orders : ~Settling(p, o)
  BY DEF Quiet, Free, Settling
<1> QED BY <1>1 DEF DueInv, Due, DueOf, CancelledIsUndone, CompletedIsPaid

\* When goods are sold without transport, nobody disputes an order and the process does not
\* die, the requests of orders may overlap as they like, crons included: as long as an order
\* is paid once and every LOCKED row is covered, a cancelled order is refunded and a completed
\* one is paid once the requests have ended, and nothing is stranded in escrow.
THEOREM OrdersAreSettled ==
  ASSUME PlainSale
  PROVE  Spec /\ [](PaidOnce /\ EscrowCovered) => []OrdersSound
<1>1. Init => DueInv /\ EscrowBacked
  BY DueInit, InitMoney DEF Init
<1>2. FlowInv /\ DueInv /\ PaidOnce /\ EscrowCovered /\ EscrowBacked /\ [Next]_vars
        => DueInv' /\ EscrowBacked'
  <2> SUFFICES ASSUME FlowInv, DueInv, PaidOnce, EscrowCovered, EscrowBacked, [Next]_vars
               PROVE  DueInv' /\ EscrowBacked'
    OBVIOUS
  <2>1. SellersRows
    BY DEF DueInv
  <2> QED BY <2>1, DueStep, BackedOn
<1>3. FlowSound /\ DueInv /\ EscrowBacked => OrdersSound
  BY SettledAtRest DEF OrdersSound
<1> QED BY <1>1, <1>2, <1>3, FlowInvariance, FlowIsSound, PTL DEF Spec

\* When besides requests do not overlap both hold of themselves
THEOREM LoneOrdersAreSettled ==
  ASSUME PlainSale, \A p, q \in Procs : p = q
  PROVE  Spec => []OrdersSound
<1>1. Spec => []PaidOnce
  BY PaidInOnce
<1>2. Spec => []EscrowCovered
  <2>1. AloneInv => EscrowCovered
    BY DEF AloneInv
  <2> QED BY <2>1, AloneInvariance, PTL
<1> QED BY <1>1, <1>2, OrdersAreSettled, PTL

-----------------------------------------------------------------------------
\* No buyer has two orders
OneOrderPerBuyer == \A o, x \in Orders : Buyer[o] = Buyer[x] => o = x

\* A commit that finds a row settled by somebody else leaves its order nothing LOCKED: its
\* buyer, who has no other order, owes nothing any more, and nobody else's money moved
LEMMA SettledTwice ==
  ASSUME OneOrderPerBuyer, FlowInv, FlowInv', SellersRows, PaidOnce, EscrowCovered,
         NEW p \in Procs, CommitRelease(p) \/ CommitRefund(p), ~HoldsLocked(p)
  PROVE  EscrowCovered'
<1>0. /\ call[p].at \in FinanceSteps /\ Inv /\ wallet' \in [Users -> Purse]
      /\ LockedTotal \in [Orders -> Nat] /\ LockedTotal' \in [Orders -> Nat]
      /\ wallet \in [Users -> Purse]
  BY LockedTotalIs, LockedTotalNext
     DEF FlowInv, Books, Balanced, CommitRelease, CommitRefund, FinanceSteps
<1>1. PICK o \in Orders : o = call[p].order
  BY <1>0, AtWork
<1>2. PICK rows, status, d :
        /\ rows = RowsIn(call[p].rows) /\ Settle(rows, status) /\ status # "LOCKED"
        /\ UNCHANGED payin
        /\ \A u \in Users : wallet'[u].escrow = wallet[u].escrow - (IF u = Buyer[o] THEN d ELSE 0)
  <2>1. PICK d : d = Total(RowsIn(call[p].rows))
    OBVIOUS
  <2>2. CASE CommitRelease(p)
    BY <1>1, <2>1, <2>2 DEF CommitRelease, Pay
  <2>3. CASE CommitRefund(p)
    BY <1>1, <2>1, <2>3 DEF CommitRefund, Pay
  <2> QED BY <2>2, <2>3
<1>3. LockedRows(o) = {}
  <2>1. PICK s \in call[p].rows : escrow[s.row].status # "LOCKED"
    BY DEF HoldsLocked
  <2>2. s.row \in Rows /\ payin[s.row[1]].order = o /\ escrow[s.row].status # "NONE"
    BY <1>0, <1>1 DEF Inv, Shape, Call, Snapshots, OwnRows
  <2>3. ASSUME NEW r \in LockedRows(o) PROVE FALSE
    <3>1. r \in Rows /\ escrow[r].status = "LOCKED" /\ payin[r[1]].order = o
      BY DEF LockedRows, RowsOf
    <3>2. r = s.row
      BY <2>2, <3>1, OneRow
    <3> QED BY <2>1, <3>1, <3>2
  <2> QED BY <2>3
<1>4. \A x \in Orders : LockedRows(x)' \subseteq LockedRows(x)
  BY <1>2, SettledRows
<1>5. ASSUME NEW x \in Orders, x # o PROVE LockedTotal'[x] = LockedTotal[x]
  <2>1. LockedRows(x)' = LockedRows(x)
    <3>1. LockedRows(x)' = LockedRows(x) \ rows
      BY <1>2, SettledRows
    <3>2. \A r \in rows : payin[r[1]].order = o
      BY <1>0, <1>1, <1>2 DEF RowsIn, Inv, OwnRows
    <3> QED BY <1>5, <3>1, <3>2 DEF LockedRows, RowsOf
  <2> QED BY <2>1, LockedTotalIs, LockedTotalNext
<1>6. LockedTotal'[o] = 0
  <2>1. LockedRows(o)' = {}
    BY <1>3, <1>4
  <2> QED BY <2>1, LockedTotalNext, SumEmpty
<1>7. ASSUME NEW u \in Users PROVE wallet'[u].escrow >= Claimed(u, LockedTotal')
  <2> DEFINE f == [x \in Orders |-> IF Buyer[x] = u THEN LockedTotal[x] ELSE 0]
             g == [x \in Orders |-> IF Buyer[x] = u THEN LockedTotal'[x] ELSE 0]
  <2>1. CASE u = Buyer[o]
    <3>1. \A x \in Orders : g[x] = 0
      BY <1>6, <2>1 DEF OneOrderPerBuyer
    <3>2. IsFiniteSet(Orders) /\ Claimed(u, LockedTotal') = SumFunctionOnSet(g, Orders)
      BY LedgerAssumption DEF Claimed
    <3> HIDE DEF g
    <3>3. Claimed(u, LockedTotal') = 0
      BY <3>1, <3>2, SumZero
    <3>4. wallet'[u].escrow \in Nat
      BY <1>0 DEF Purse
    <3> QED BY <3>3, <3>4
  <2>2. CASE u # Buyer[o]
    <3>1. f = g
      BY <1>5, <2>2
    <3>2. Claimed(u, LockedTotal') = Claimed(u, LockedTotal)
      BY <3>1 DEF Claimed
    <3>3. wallet[u].escrow >= Claimed(u, LockedTotal)
      BY CoveredIs
    <3>4. wallet'[u].escrow = wallet[u].escrow
      <4>1. wallet'[u].escrow = wallet[u].escrow - 0 /\ wallet[u].escrow \in Nat
        BY <1>0, <1>2, <2>2 DEF Purse
      <4> QED BY <4>1
    <3> QED BY <3>2, <3>3, <3>4
  <2> QED BY <2>1, <2>2
<1> QED BY <1>7, CoveredIs

\* The other steps keep what is LOCKED covered whoever overlaps
LEMMA SoleCovered ==
  ASSUME OneOrderPerBuyer, FlowInv, FlowInv', SellersRows, Undisputed, PaidOnce, EscrowCovered,
         [Next]_vars
  PROVE  EscrowCovered'
<1>0. Inv /\ Written /\ Balanced /\ Copied /\ NoDrift /\ listing' \in [Listings -> Shelf]
  BY DEF FlowInv, Books, Balanced
<1>1. CASE Aside
  <2>1. Moneyless
    BY <1>1 DEF Aside, Moneyless
  <2> QED BY <1>0, <2>1, MoneylessStep DEF CoverKept
<1>2. ASSUME NEW p \in Procs, Finance(p) PROVE EscrowCovered'
  <2>1. CASE HoldsLocked(p)
    BY <1>0, <1>2, <2>1, FinanceMoney DEF CoverKept
  <2>2. CASE CommitRelease(p) \/ CommitRefund(p)
    BY <2>1, <2>2, SettledTwice
  <2>3. CASE ConfirmPayment(p)
    BY <1>0, <2>3, ConfirmMoney DEF CoverKept
  <2>4. CASE ProcessPayin(p)
    <3>1. PICK i \in Payins :
            /\ payin[i].status = "NONE"
            /\ payin' = [payin EXCEPT ![i] = [order |-> call[p].order, status |-> "PENDING"]]
      BY <2>4 DEF ProcessPayin
    <3>2. call[p].order \in Orders
      BY <1>0, <2>4, AtWork DEF ProcessPayin, FinanceSteps
    <3>3. Moneyless
      BY <1>0, <2>4, <3>1, <3>2 DEF ProcessPayin, Moneyless, Inv, Shape
    <3> QED BY <1>0, <3>3, MoneylessStep DEF CoverKept
  <2>5. CASE RefusePayin(p) \/ StockGone(p) \/ ReadRelease(p) \/ NothingToRelease(p)
             \/ AbortRelease(p) \/ ReadRefund(p) \/ AbortRefund(p)
    <3>1. Moneyless
      BY <2>5 DEF RefusePayin, StockGone, ReadRelease, NothingToRelease, AbortRelease,
                  ReadRefund, AbortRefund, Moneyless
    <3> QED BY <1>0, <3>1, MoneylessStep DEF CoverKept
  <2>6. ~CommitSplit(p)
    BY DEF CommitSplit, Undisputed, Disputing
  <2> QED BY <1>2, <2>2, <2>3, <2>4, <2>5, <2>6 DEF Finance
<1>3. Aside \/ \E p \in Procs : Finance(p)
  BY AsideSteps, SweepsNothing
<1> QED BY <1>1, <1>2, <1>3

\* When besides no buyer has two orders, each row is covered of itself, however releases and
\* refunds of the same order overlap: it is enough that the order is paid once
THEOREM SoleOrdersAreSettled ==
  ASSUME PlainSale, OneOrderPerBuyer
  PROVE  Spec /\ []PaidOnce => []OrdersSound
<1>1. Init => DueInv /\ EscrowCovered
  BY DueInit, InitMoney DEF Init
<1>2. FlowInv /\ FlowInv' /\ DueInv /\ PaidOnce /\ EscrowCovered /\ [Next]_vars
        => DueInv' /\ EscrowCovered'
  <2> SUFFICES ASSUME FlowInv, FlowInv', DueInv, PaidOnce, EscrowCovered, [Next]_vars
               PROVE  DueInv' /\ EscrowCovered'
    OBVIOUS
  <2>1. SellersRows /\ Undisputed
    BY DEF DueInv
  <2> QED BY <2>1, DueStep, SoleCovered
<1>3. Spec /\ []PaidOnce => []EscrowCovered
  BY <1>1, <1>2, FlowInvariance, PTL DEF Spec
<1>4. Spec /\ [](PaidOnce /\ EscrowCovered) => []OrdersSound
  BY OrdersAreSettled
<1> QED BY <1>3, <1>4, PTL

=============================================================================
