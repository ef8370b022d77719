---------------------------- MODULE Reservations ----------------------------
(***************************************************************************)
(* One harvest forecast (previsions_production), the reservations buyers   *)
(* take on it against a deposit of 10 %, its conversion into a listing,    *)
(* the payment of the balance, and the hourly expiry.                      *)
(*                                                                         *)
(* Each actor has at most one request in flight: the farmer, the           *)
(* cooperative that validates, each buyer's client, the cron.  Reserving   *)
(* and converting lock the forecast's row and are one step; every          *)
(* movement of money is a transaction of its own, with steps of others in  *)
(* between.  The buyers share one wallet, the worst case for an escrow     *)
(* that several deposits fill.                                             *)
(***************************************************************************)
EXTENDS Integers, FiniteSetsExt

CONSTANTS
  Resas,        \* rows of reservations_previsions
  Kg,           \* quantite_kg of each
  Sizes,        \* the quantities a farmer announces
  Buyers,      \* the buyers' requests; the other actors are strings
  Deposit, Balance,   \* 10 % and 90 % of a reservation's price
  StartScore, MinScore, Penalties,  \* reliability_score
  RefundPolicy  \* RESERVATION_EXPIRED_DEPOSIT_POLICY = REFUND_BUYER

ASSUME ResaAssumption ==
  /\ IsFiniteSet(Resas) /\ Kg \in [Resas -> Nat] /\ Sizes \subseteq Nat
  /\ {"farmer", "coop", "cron"} \cap Buyers = {}
  /\ Deposit \in Nat /\ Balance \in Nat
  /\ StartScore \in Nat /\ Penalties \subseteq Nat

VARIABLES
  forecast,  \* previsions_production: status, coop_status, quantite_prev_kg
  resa,      \* status, deposit_transaction_id # null, expires_at < now
  forSale,   \* annonces_vente of the converted forecast: quantite_kg
  final,     \* the commande that pays a reservation's balance, by reservation
  purse,     \* the buyers' wallet: balance_escrow, and what left it to whom
  score,     \* users.reliability_score of the farmer
  job,       \* the request of each actor
  odd        \* history: the overlaps and orders of steps the code does not meet

resaVars == <<forecast, resa, forSale, final, purse, score, job, odd>>

Actors == Buyers \cup {"farmer", "coop", "cron"}
ResaStatus == {"NONE", "PENDING", "CONFIRMED", "AWAITING_FINAL", "COMPLETED",
               "EXPIRED", "CANCELLED"}
NoForecast == [status |-> "NONE", coop |-> "NONE", kg |-> 0]
NoResa == [status |-> "NONE", paid |-> FALSE, due |-> FALSE]
JobSteps == {"idle", "deposit", "confirm", "drop", "balance", "consume", "undo",
             "shrink", "validate", "clear", "cancel", "penalise", "erase",
             "settle", "release"}
NoJob == [at |-> "idle", of |-> {}, one |-> {}]

Busy(a, step) == job[a].at = step
Deleting == job["farmer"].at \in {"clear", "cancel", "erase"}
Paying(steps) == \E c \in Buyers : job[c].at \in steps
DepositInFlight == Paying({"deposit", "confirm", "drop"})
Note(what, happens) == odd' = IF happens THEN odd \cup {what} ELSE odd
Begins(a, step, rows) == job' = [job EXCEPT ![a] = [at |-> step, of |-> rows, one |-> {}]]
Finish(a) == job' = [job EXCEPT ![a] = NoJob]
\* The reservation a client's request is about
Mine(a) == CHOOSE r \in Resas : job[a].of = {r}

InStatus(S) == {r \in Resas : resa[r].status \in S}
Kilos(rows) == SumFunctionOnSet(Kg, rows)
Mark(r, s) == resa' = [resa EXCEPT ![r].status = s]

-----------------------------------------------------------------------------
(* The farmer and the cooperative                                          *)

\* createPrevision: refused below the threshold of reliability
CreatePrevision(kg, coop) ==
  /\ Busy("farmer", "idle") /\ forecast.status = "NONE"
  /\ score >= MinScore
  /\ forecast' = [status |-> "OPEN", coop |-> coop, kg |-> kg]
  /\ UNCHANGED <<resa, forSale, final, purse, score, job, odd>>

FarmerHasIt == forecast.status \in {"OPEN", "CONVERTED"} /\ forecast.coop # "VALIDATED"

\* updatePrevision reads the cooperative's decision, then writes the quantity
CheckUpdate ==
  /\ Busy("farmer", "idle") /\ FarmerHasIt
  /\ Begins("farmer", "shrink", {})
  /\ UNCHANGED <<forecast, resa, forSale, final, purse, score, odd>>

UpdatePrevision(kg) ==
  /\ Busy("farmer", "shrink")
  /\ forecast' = [forecast EXCEPT !.kg = kg]
  /\ Finish("farmer")
  /\ Note("shrunk", kg < forecast.kg)
  /\ UNCHANGED <<resa, forSale, final, purse, score>>

\* validatePrevision reads PENDING, then writes VALIDATED
CheckValidate ==
  /\ Busy("coop", "idle") /\ forecast.coop = "PENDING"
  /\ Begins("coop", "validate", {})
  /\ UNCHANGED <<forecast, resa, forSale, final, purse, score, odd>>

ValidatePrevision ==
  /\ Busy("coop", "validate")
  /\ IF forecast.status = "DELETED" THEN UNCHANGED forecast
     ELSE forecast' = [forecast EXCEPT !.coop = "VALIDATED"]
  /\ Finish("coop")
  /\ UNCHANGED <<resa, forSale, final, purse, score, odd>>

\* rejectPrevision asks for no status: a validated forecast can be rejected
RejectPrevision ==
  /\ Busy("coop", "idle") /\ forecast.coop # "NONE"
  /\ forecast' = [forecast EXCEPT !.coop = "REJECTED"]
  /\ UNCHANGED <<resa, forSale, final, purse, score, job, odd>>

Bookable == forecast.status = "OPEN" /\ forecast.coop \notin {"PENDING", "REJECTED"}

\* convertPrevision: one transaction under the forecast's lock
ConvertPrevision ==
  LET promised == InStatus({"CONFIRMED", "PENDING"}) IN
  /\ Busy("farmer", "idle") /\ Bookable
  /\ forecast' = [forecast EXCEPT !.status = "CONVERTED"]
  /\ forSale' = Max({forecast.kg - Kilos(promised), 0})
  /\ resa' = [r \in Resas |-> IF r \in promised
                              THEN [resa[r] EXCEPT !.status = "AWAITING_FINAL", !.due = FALSE]
                              ELSE resa[r]]
  /\ Note("early", DepositInFlight)
  /\ UNCHANGED <<final, purse, score, job>>

\* deletePrevision, its reads: refused to the cooperative's validated forecast
\* and within three days of the harvest (the farmer's choice not to begin)
BeginDelete ==
  /\ Busy("farmer", "idle") /\ FarmerHasIt
  /\ Begins("farmer", "clear", InStatus({"PENDING", "CONFIRMED"}))
  /\ odd' = odd \cup (IF DepositInFlight THEN {"clash"} ELSE {})
                \cup (IF forecast.status = "CONVERTED" THEN {"erased"} ELSE {})
  /\ UNCHANGED <<forecast, resa, forSale, final, purse, score>>

\* Mutant: the CHECK constraint is not there
RefundDepositUnchecked(r) ==
  purse' = [purse EXCEPT !.escrow = @ - Deposit, !.back = @ + Deposit]

\* refundReservationDeposit: it looks for the deposit transaction and not at
\* the status; CHECK (balance_escrow >= 0)
RefundDeposit(r) ==
  /\ purse.escrow >= Deposit
  /\ purse' = [purse EXCEPT !.escrow = @ - Deposit, !.back = @ + Deposit]

\* ... for each reservation it listed: without a deposit transaction, or once
\* the deposit is refunded, CANCELLED; if the refund throws, it is logged
ClearResa(r) ==
  /\ Busy("farmer", "clear") /\ r \in job["farmer"].of
  /\ LET owed == resa[r].status # "NONE" /\ resa[r].paid IN
     \/ /\ owed /\ RefundDeposit(r)
        /\ job' = [job EXCEPT !["farmer"].at = "cancel", !["farmer"].one = {r}]
     \/ /\ ~owed /\ UNCHANGED purse
        /\ job' = [job EXCEPT !["farmer"].at = "cancel", !["farmer"].one = {r}]
     \/ /\ owed /\ purse.escrow < Deposit /\ UNCHANGED purse
        /\ job' = [job EXCEPT !["farmer"].of = @ \ {r}]
  /\ UNCHANGED <<forecast, resa, forSale, final, score, odd>>

CancelResa(r) ==
  /\ Busy("farmer", "cancel") /\ job["farmer"].one = {r}
  /\ IF resa[r].status = "NONE" THEN UNCHANGED resa ELSE Mark(r, "CANCELLED")
  /\ job' = [job EXCEPT !["farmer"] = [at |-> "clear", of |-> @.of \ {r}, one |-> {}]]
  /\ UNCHANGED <<forecast, forSale, final, purse, score, odd>>

\* reliabilityPenaltyForDeletion, clamped at 0
Penalise ==
  /\ Busy("farmer", "clear") /\ job["farmer"].of = {}
  /\ \E pts \in Penalties : score' = Max({score - pts, 0})
  /\ Begins("farmer", "erase", {})
  /\ UNCHANGED <<forecast, resa, forSale, final, purse, odd>>

\* The row is deleted, and its reservations with it (ON DELETE CASCADE); the listing it
\* was converted into remains
Erase ==
  /\ Busy("farmer", "erase")
  /\ forecast' = [NoForecast EXCEPT !.status = "DELETED"]
  /\ resa' = [r \in Resas |-> NoResa]
  /\ Finish("farmer")
  /\ UNCHANGED <<forSale, final, purse, score, odd>>

-----------------------------------------------------------------------------
(* The buyers                                                              *)

Holding == {"CONFIRMED", "PENDING", "AWAITING_FINAL"}

\* Mutant: only CONFIRMED reservations count against the forecast
ReserverPrevisionLoose(c, r) ==
  /\ Busy(c, "idle") /\ resa[r].status = "NONE" /\ final[r] = "NONE" /\ Bookable
  /\ Note("clash", Deleting)
  /\ Kg[r] <= forecast.kg - Kilos(InStatus({"CONFIRMED"}))
  /\ resa' = [resa EXCEPT ![r] = [NoResa EXCEPT !.status = "PENDING"]]
  /\ Begins(c, "deposit", {r})
  /\ UNCHANGED <<forecast, forSale, final, purse, score>>

\* reserverPrevision, its transaction under the forecast's lock
ReserverPrevision(c, r) ==
  /\ Busy(c, "idle") /\ resa[r].status = "NONE" /\ final[r] = "NONE" /\ Bookable
  /\ Note("clash", Deleting)
  /\ Kg[r] <= forecast.kg - Kilos(InStatus(Holding))
  /\ resa' = [resa EXCEPT ![r] = [NoResa EXCEPT !.status = "PENDING"]]
  /\ Begins(c, "deposit", {r})
  /\ UNCHANGED <<forecast, forSale, final, purse, score>>

\* processPayinReservation returns, or throws
PayDeposit(c) ==
  /\ Busy(c, "deposit")
  /\ \/ purse' = [purse EXCEPT !.escrow = @ + Deposit] /\ Begins(c, "confirm", job[c].of)
     \/ UNCHANGED purse /\ Begins(c, "drop", job[c].of)
  /\ UNCHANGED <<forecast, resa, forSale, final, score, odd>>

\* CONFIRMED is written over whatever the status has become.  If the row is
\* gone the update throws, and so does the delete that follows.
ConfirmResa(c) ==
  LET r == Mine(c) IN
  /\ Busy(c, "confirm")
  /\ IF resa[r].status = "NONE" THEN UNCHANGED resa
     ELSE resa' = [resa EXCEPT ![r].status = "CONFIRMED", ![r].paid = TRUE]
  /\ Finish(c)
  /\ UNCHANGED <<forecast, forSale, final, purse, score, odd>>

\* Mutant: a failed deposit leaves the reservation
DropResaNot(c) ==
  /\ Busy(c, "drop") /\ Finish(c)
  /\ UNCHANGED <<forecast, resa, forSale, final, purse, score, odd>>

DropResa(c) ==
  /\ Busy(c, "drop")
  /\ resa' = [resa EXCEPT ![Mine(c)] = NoResa]
  /\ Finish(c)
  /\ UNCHANGED <<forecast, forSale, final, purse, score, odd>>

\* resolveOrderSource for RESERVATION_CONFIRMED and createOrder: awaiting the
\* balance, in time, no other active order of the buyer on that listing, and
\* the listing must show the quantity, although it was set aside.
Payable(r) ==
  /\ resa[r].status = "AWAITING_FINAL" /\ ~resa[r].due
  /\ \A x \in Resas : final[x] \notin {"SENT", "PAID"}
  /\ forSale > 0 /\ Kg[r] <= forSale

OrderFinal(c, r) ==
  /\ Busy(c, "idle") /\ Payable(r)
  /\ final' = [final EXCEPT ![r] = "SENT"]
  /\ Begins(c, "balance", {r})
  /\ UNCHANGED <<forecast, resa, forSale, purse, score, odd>>

\* processPayin charges the total less the deposit; confirmPayment takes no
\* stock for an order that comes from a reservation.
PayBalance(c) ==
  LET r == Mine(c) IN
  /\ Busy(c, "balance")
  /\ \/ /\ purse' = [purse EXCEPT !.escrow =
                       @ + Balance + (IF resa[r].status = "NONE" THEN Deposit ELSE 0)]
        /\ final' = [final EXCEPT ![r] = "PAID"]
        /\ Begins(c, "consume", {r})
     \/ Begins(c, "undo", {r}) /\ UNCHANGED <<purse, final, odd>>
  /\ UNCHANGED <<forecast, resa, forSale, score, odd>>

\* consumeReservationDeposit: COMPLETED, whatever the status; it throws if the
\* row is gone
ConsumeDeposit(c) ==
  LET r == Mine(c) IN
  /\ Busy(c, "consume")
  /\ IF resa[r].status = "NONE"
     THEN Begins(c, "undo", {r}) /\ UNCHANGED resa
     ELSE Mark(r, "COMPLETED") /\ Finish(c)
  /\ UNCHANGED <<forecast, forSale, final, purse, score, odd>>

\* cancelOrderCompensation: a paid order returns its stock and is refunded; a
\* refund the CHECK constraint refuses is logged
UndoFinal(c) ==
  LET r == Mine(c)
      paid == final[r] = "PAID" IN
  /\ Busy(c, "undo")
  /\ final' = [final EXCEPT ![r] = "NONE"]
  /\ purse' = IF paid /\ purse.escrow >= Deposit + Balance
              THEN [purse EXCEPT !.escrow = @ - Deposit - Balance,
                                         !.back = @ + Deposit + Balance]
              ELSE purse
  /\ forSale' = IF paid THEN forSale + Kg[r] ELSE forSale
  /\ Finish(c)
  /\ UNCHANGED <<forecast, resa, score, odd>>

-----------------------------------------------------------------------------
(* Time and the expiry                                                     *)

\* RESERVATION_FINAL_PAYMENT_DAYS pass; a deposit takes seconds
Deadline(r) ==
  /\ resa[r].status = "AWAITING_FINAL" /\ ~resa[r].due
  /\ ~DepositInFlight
  /\ resa' = [resa EXCEPT ![r].due = TRUE]
  /\ Note("late", Paying({"balance", "consume", "undo"}))
  /\ UNCHANGED <<forecast, forSale, final, purse, score, job>>

Expired == {r \in InStatus({"AWAITING_FINAL"}) : resa[r].due}

\* expireReservations lists, then settles one by one
ListExpired ==
  /\ Busy("cron", "idle") /\ Expired # {}
  /\ Begins("cron", "settle", Expired)
  /\ UNCHANGED <<forecast, resa, forSale, final, purse, score, odd>>

\* Mutant: the last deposit of a wallet cannot leave it
SettleDepositStrict(r) ==
  /\ Busy("cron", "settle") /\ r \in job["cron"].of
  /\ IF purse.escrow > Deposit /\ resa[r].status # "NONE"
     THEN /\ purse' = IF RefundPolicy /\ resa[r].paid
                      THEN [purse EXCEPT !.escrow = @ - Deposit, !.back = @ + Deposit]
                      ELSE [purse EXCEPT !.escrow = @ - Deposit, !.farmer = @ + Deposit]
          /\ job' = [job EXCEPT !["cron"].at = "release", !["cron"].one = {r}]
     ELSE UNCHANGED purse /\ job' = [job EXCEPT !["cron"].of = @ \ {r}]
  /\ UNCHANGED <<forecast, resa, forSale, final, score, odd>>

\* forfeitReservationDeposit or refundReservationDeposit; a throw skips the row
SettleDeposit(r) ==
  /\ Busy("cron", "settle") /\ r \in job["cron"].of
  /\ IF purse.escrow >= Deposit /\ resa[r].status # "NONE"
     THEN /\ purse' = IF RefundPolicy /\ resa[r].paid
                      THEN [purse EXCEPT !.escrow = @ - Deposit, !.back = @ + Deposit]
                      ELSE [purse EXCEPT !.escrow = @ - Deposit, !.farmer = @ + Deposit]
          /\ job' = [job EXCEPT !["cron"].at = "release", !["cron"].one = {r}]
     ELSE UNCHANGED purse /\ job' = [job EXCEPT !["cron"].of = @ \ {r}]
  /\ UNCHANGED <<forecast, resa, forSale, final, score, odd>>

\* The quantity goes back on sale and the reservation is EXPIRED, whatever its
\* status has become
ReleaseKilos(r) ==
  /\ Busy("cron", "release") /\ job["cron"].one = {r}
  /\ IF resa[r].status = "NONE" THEN UNCHANGED <<resa, forSale>>
     ELSE forSale' = forSale + Kg[r] /\ Mark(r, "EXPIRED")
  /\ job' = [job EXCEPT !["cron"] = [at |-> "settle", of |-> @.of \ {r}, one |-> {}]]
  /\ UNCHANGED <<forecast, final, purse, score, odd>>

EndExpiry ==
  /\ Busy("cron", "settle") /\ job["cron"].of = {}
  /\ Finish("cron")
  /\ UNCHANGED <<forecast, resa, forSale, final, purse, score, odd>>

ResaInit ==
  /\ forecast = NoForecast
  /\ resa = [r \in Resas |-> NoResa]
  /\ forSale = 0
  /\ final = [r \in Resas |-> "NONE"]
  /\ purse = [escrow |-> 0, back |-> 0, farmer |-> 0]
  /\ score = StartScore
  /\ job = [a \in Actors |-> NoJob]
  /\ odd = {}

ClientStep(c) ==
  PayDeposit(c) \/ ConfirmResa(c) \/ DropResa(c) \/ PayBalance(c)
    \/ ConsumeDeposit(c) \/ UndoFinal(c)

Expiry == \/ ListExpired \/ EndExpiry
          \/ \E r \in Resas : SettleDeposit(r) \/ ReleaseKilos(r)

ResaNext ==
  \/ \E kg \in Sizes : UpdatePrevision(kg) \/ \E c \in {"NONE", "PENDING"} : CreatePrevision(kg, c)
  \/ CheckUpdate \/ ConvertPrevision \/ BeginDelete \/ Penalise \/ Erase
  \/ CheckValidate \/ ValidatePrevision \/ RejectPrevision
  \/ \E r \in Resas : ClearResa(r) \/ CancelResa(r) \/ Deadline(r)
  \/ \E c \in Buyers : ClientStep(c) \/ \E r \in Resas : ReserverPrevision(c, r) \/ OrderFinal(c, r)
  \/ Expiry

ResaSpec == ResaInit /\ [][ResaNext]_resaVars

\* Requests end, deadlines pass, the hourly cron comes back
ResaFairness ==
  /\ \A c \in Buyers : WF_resaVars(ClientStep(c))
  /\ \A r \in Resas : WF_resaVars(Deadline(r))
  /\ WF_resaVars(Expiry)

ResaLiveSpec == ResaSpec /\ ResaFairness

-----------------------------------------------------------------------------
(* Properties                                                              *)

ResaTypeOK ==
  /\ forecast \in [status : {"NONE", "OPEN", "CONVERTED", "DELETED"},
                   coop : {"NONE", "PENDING", "VALIDATED", "REJECTED"}, kg : Nat]
  /\ resa \in [Resas -> [status : ResaStatus, paid : BOOLEAN, due : BOOLEAN]]
  /\ forSale \in Nat /\ score \in Nat
  /\ final \in [Resas -> {"NONE", "SENT", "PAID"}]
  /\ purse \in [escrow : Nat, back : Nat, farmer : Nat]
  /\ job \in [Actors -> [at : JobSteps, of : SUBSET Resas, one : SUBSET Resas]]
  /\ odd \subseteq {"shrunk", "clash", "early", "erased", "late"}

\* The same kilo is never promised twice: what is on sale and what is reserved
\* stay within the forecast, while reservations, the conversion, the deletion,
\* payments and the expiry overlap; but for a forecast its farmer shrank, a deletion
\* that meets a deposit in flight and a balance paid across its deadline.
NotOversold == odd \cap {"shrunk", "clash", "late"} = {} =>
  /\ forecast.status = "OPEN" => Kilos(InStatus(Holding)) <= forecast.kg
  /\ forecast.status = "CONVERTED" =>
       forSale + Kilos(InStatus(Holding \cup {"COMPLETED"})) <= forecast.kg

\* Nobody is about to move money or has moved it and not yet written why
Quiet == \A a \in Actors : Busy(a, "idle")

\* No overlap the money of deposits is known not to survive (README)
Regular == odd \cap {"clash", "early", "erased", "late"} = {}

\* The escrow holds the deposit of each live reservation and the price of each
\* final order, and nothing else: a deposit leaves it once, with its reservation;
\* but for a conversion or deletion that meets a deposit in flight, the deletion
\* of a converted forecast and a balance paid across its deadline.
DepositFollowsResa ==
  Quiet /\ Regular => purse.escrow =
    Deposit * Cardinality(InStatus({"CONFIRMED", "AWAITING_FINAL"}))
    + (Deposit + Balance) * Cardinality({r \in Resas : final[r] = "PAID"})

\* A converted forecast leaves no reservation undecided for ever: it is paid or it
\* expires.  (An escrow that lost another's deposit makes every expiry throw.)
FinalDecided ==
  \A r \in Resas :
    resa[r].status = "AWAITING_FINAL" ~> (resa[r].status # "AWAITING_FINAL" \/ ~Regular)

\* What was set aside at the conversion can be bought until the deadline ("le
\* stock réservé est garanti aux buyers en attente, tant qu'ils paient")
StockGuaranteed ==
  Quiet => \A r \in Resas :
    resa[r].status = "AWAITING_FINAL" /\ ~resa[r].due => Kg[r] <= forSale

\* No kilo is promised twice and the escrow holds just the deposits of live reservations
\* and the price of final orders, but for the overlaps named above
ResaSafety == ResaTypeOK /\ NotOversold /\ DepositFollowsResa

=============================================================================
