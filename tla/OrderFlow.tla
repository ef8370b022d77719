----------------------------- MODULE OrderFlow -----------------------------
(***************************************************************************)
(* The life of an order: OrdersService and LogisticsService, composed with *)
(* the finance methods of EscrowLedger that they call.                     *)
(*                                                                         *)
(* Every handler is an HTTP request or a cron pass p.  A handler that      *)
(* locks the row it changes (updateStatus, acceptShipment, ...) is one     *)
(* step; one that reads a row, decides, and writes later is two.  What a   *)
(* handler does after its own transaction (refundBuyer after a             *)
(* cancellation, releaseEscrow after a confirmation) is a further step of  *)
(* the same request, so that anything may happen in between.               *)
(***************************************************************************)
EXTENDS EscrowLedger

CONSTANTS
  Disputes,  \* rows of disputes; their number bounds the disputes
  Handlers,  \* the endpoints and crons a run exercises
  MayCrash   \* whether the process may die between two steps of a request

VARIABLES
  born,      \* the orders created so far
  shipment,  \* shipments, one per order with transport
  dispute    \* disputes: which order, which status

flowVars == <<born, shipment, dispute>>
vars == <<wallet, order, payin, escrow, listing, withdrawn, call, flowVars>>

ShipmentStatus == {"REQUESTED", "ACCEPTED", "LOADING", "IN_TRANSIT",
                   "DELIVERED", "CANCELLED"}

\* Where a request of this module can be between two of its steps
OwnSteps == {"idle", "compensate", "dispute", "resolvePay", "resolveRefund",
             "resolveSplit", "markCompleted", "markCancelled", "assign",
             "sweepShipment", "signQr", "scan"}
            \cup ShipmentStatus

Endpoints == {"createOrder", "acceptNegotiation", "payOrder", "updateStatus",
              "confirmDelivery", "releaseEscrowAdmin", "openDispute",
              "resolveDispute", "acceptShipment", "moveShipment",
              "cancelShipment", "pickupQr", "cleanupOrders", "cleanupShipments"}

ASSUME FlowAssumption ==
  /\ CallerSteps = OwnSteps
  /\ Transporters \cup Disputes \subseteq Args
  /\ Handlers \subseteq Endpoints /\ MayCrash \in BOOLEAN

\* ALLOWED_TRANSITIONS
AllowedTransitions ==
  [SENT |-> {"ACCEPTED", "REJECTED", "CANCELLED"},
   ACCEPTED |-> {"IN_PROGRESS", "CANCELLED"},
   IN_PROGRESS |-> {"DELIVERED", "DISPUTED", "CANCELLED"},
   DELIVERED |-> {"COMPLETED", "DISPUTED"},
   REJECTED |-> {}, COMPLETED |-> {}, CANCELLED |-> {},
   DISPUTED |-> {"COMPLETED", "CANCELLED"}]

\* TRANSITION_ACTOR: what each side may ask for
ActorMay ==
  [buyer |-> {"COMPLETED", "DISPUTED", "CANCELLED"},
   seller |-> {"ACCEPTED", "REJECTED", "IN_PROGRESS", "DELIVERED", "DISPUTED",
               "CANCELLED"}]

\* SHIPMENT_TRANSITIONS
ShipmentTransitions ==
  [REQUESTED |-> {"ACCEPTED", "CANCELLED"}, ACCEPTED |-> {"LOADING", "CANCELLED"},
   LOADING |-> {"IN_TRANSIT", "CANCELLED"}, IN_TRANSIT |-> {"DELIVERED", "CANCELLED"},
   DELIVERED |-> {}, CANCELLED |-> {}]

\* Mutant: a payment that was only just confirmed is forgotten
WasPaidLater(status) == status \in {"IN_PROGRESS", "DELIVERED"}

\* The statuses in which the handlers take the order to be paid
WasPaid(status) == status \in {"ACCEPTED", "IN_PROGRESS", "DELIVERED"}

HasShipment(o) == Carriage[o] > 0


-----------------------------------------------------------------------------
(* Shorthands for the steps of a request                                   *)

On(handler) == handler \in Handlers
Free(p) == call[p].at = "idle"
At(p, step) == call[p].at = step
Go(p, request) == call' = [call EXCEPT ![p] = request]

\* A request of this module's own, about order o, with user or dispute a
Own(step, o, a) == [Idle EXCEPT !.at = step, !.order = o, !.arg = a]

CallRelease(o, kinds, then) == Request("release", o, kinds, 0, then, "idle")
\* "Refund echoue" is logged and swallowed
CallRefund(o) == Request("refund", o, {}, 0, "idle", "idle")

SetOrder(o, s) == order' = [order EXCEPT ![o] = s]
SetShipment(o, field) == shipment' = [shipment EXCEPT ![o] = field]

-----------------------------------------------------------------------------
(* Creating and paying                                                     *)

\* createOrder: the commande and its shipment are created SENT and REQUESTED,
\* then the payin is tried; if it throws, cancelOrderCompensation follows.
CreateOrder(p, o) ==
  /\ Free(p) /\ o \notin born
  /\ listing[Listing[o]].open /\ listing[Listing[o]].kg >= Quantity[o]
  /\ born' = born \cup {o}
  /\ Go(p, Request("payin", o, {}, 0, "idle", "compensate"))
  /\ UNCHANGED <<wallet, order, payin, escrow, listing, withdrawn, shipment, dispute>>

\* An accepted negotiation creates the commande SENT, without transport and
\* without a payin: the buyer pays it later with payOrder.
NegotiatedOrder(o) ==
  /\ o \notin born /\ ~HasShipment(o)
  /\ born' = born \cup {o}
  /\ UNCHANGED <<ledgerVars, shipment, dispute>>

\* payOrder: SENT and no LOCKED row, both read without a lock; a failed payin
\* leaves the order SENT.
PayOrder(p, o) ==
  /\ Free(p) /\ o \in born
  /\ order[o] = "SENT" /\ LockedRows(o) = {}
  /\ Go(p, Request("payin", o, {}, 0, "idle", "idle"))
  /\ UNCHANGED <<wallet, order, payin, escrow, listing, withdrawn, flowVars>>

\* The transaction of cancelOrderCompensation, then refundBuyer if the order
\* was taken to be paid.
Compensate(p) ==
  LET o == call[p].order IN
  /\ At(p, "compensate")
  /\ IF order[o] \in {"CANCELLED", "COMPLETED"}
     THEN /\ Go(p, Idle)
          /\ UNCHANGED <<order, listing>>
     ELSE /\ SetOrder(o, "CANCELLED")
          /\ IF WasPaid(order[o])
             THEN listing' = Restocked(o) /\ Go(p, CallRefund(o))
             ELSE UNCHANGED listing /\ Go(p, Idle)
  /\ UNCHANGED <<wallet, payin, escrow, withdrawn, flowVars>>

\* Mutant: only orders for which a payment was tried are listed
SweepOrderTried(p, o) ==
  /\ Free(p) /\ o \in born /\ order[o] = "SENT"
  /\ \E i \in Payins : payin[i].order = o
  /\ Go(p, Own("compensate", o, NoArg))
  /\ UNCHANGED <<wallet, order, payin, escrow, listing, withdrawn, flowVars>>

\* cleanupOrphanOrders, for one order that was SENT when the cron listed it
SweepOrder(p, o) ==
  /\ Free(p) /\ o \in born /\ order[o] = "SENT"
  /\ Go(p, Own("compensate", o, NoArg))
  /\ UNCHANGED <<wallet, order, payin, escrow, listing, withdrawn, flowVars>>

-----------------------------------------------------------------------------
(* Status changes by the parties                                           *)

\* Mutant: completing an order does not release its escrow
UpdateStatusUnreleased(p, o, side, next) ==
  LET current == order[o]
      cancelled == next = "CANCELLED" /\ WasPaid(current)
  IN
  /\ Free(p) /\ o \in born
  /\ next \in AllowedTransitions[current] \cap ActorMay[side] \cap StatusWrites
  /\ SetOrder(o, next)
  /\ listing' = IF cancelled THEN Restocked(o) ELSE listing
  /\ Go(p, IF cancelled THEN CallRefund(o) ELSE Idle)
  /\ UNCHANGED <<wallet, payin, escrow, withdrawn, flowVars>>

\* updateStatus: transition and actor are checked under the row lock; the
\* refund or the release follows outside the transaction.
UpdateStatus(p, o, side, next) ==
  LET current == order[o]
      cancelled == next = "CANCELLED" /\ WasPaid(current)
  IN
  /\ Free(p) /\ o \in born
  /\ next \in AllowedTransitions[current] \cap ActorMay[side] \cap StatusWrites
  /\ SetOrder(o, next)
  /\ listing' = IF cancelled THEN Restocked(o) ELSE listing
  /\ Go(p, IF cancelled THEN CallRefund(o)
           ELSE IF current = "DELIVERED" /\ next = "COMPLETED"
           THEN CallRelease(o, Kinds, "idle") ELSE Idle)
  /\ UNCHANGED <<wallet, payin, escrow, withdrawn, flowVars>>

\* Mutant: the order's status is not tested
ConfirmDeliveryAnytime(p, o) ==
  /\ Free(p) /\ o \in born
  /\ Go(p, CallRelease(o, Kinds, "idle"))
  /\ UNCHANGED <<wallet, order, payin, escrow, listing, withdrawn, flowVars>>

\* confirmDelivery: the buyer confirms a DELIVERED order; releaseEscrow makes
\* it COMPLETED.
ConfirmDelivery(p, o) ==
  /\ Free(p) /\ o \in born /\ order[o] = "DELIVERED"
  /\ Go(p, CallRelease(o, Kinds, "idle"))
  /\ UNCHANGED <<wallet, order, payin, escrow, listing, withdrawn, flowVars>>

\* releaseEscrowAdmin: no status is required
ReleaseEscrowAdmin(p, o, kinds) ==
  /\ Free(p) /\ o \in born
  /\ Go(p, CallRelease(o, kinds, "idle"))
  /\ UNCHANGED <<wallet, order, payin, escrow, listing, withdrawn, flowVars>>

-----------------------------------------------------------------------------
(* Disputes                                                                *)

OpenDisputes(o) == {d \in Disputes : dispute[d] = [order |-> o, status |-> "OPEN"]}

\* openDispute, its checks; then its transaction
CheckDispute(p, o) ==
  /\ Free(p) /\ o \in born
  /\ order[o] \in {"IN_PROGRESS", "DELIVERED"} /\ OpenDisputes(o) = {}
  /\ Go(p, Own("dispute", o, NoArg))
  /\ UNCHANGED <<wallet, order, payin, escrow, listing, withdrawn, flowVars>>

OpenDispute(p) ==
  LET o == call[p].order IN
  /\ At(p, "dispute")
  /\ \E d \in Disputes :
       /\ dispute[d].status = "NONE"
       /\ dispute' = [dispute EXCEPT ![d] = [order |-> o, status |-> "OPEN"]]
  /\ SetOrder(o, "DISPUTED")
  /\ Go(p, Idle)
  /\ UNCHANGED <<wallet, payin, escrow, listing, withdrawn, born, shipment>>

\* resolveDispute reads an OPEN dispute
CheckResolve(p, o, step) ==
  /\ Free(p)
  /\ \E d \in OpenDisputes(o) : Go(p, Own(step, o, d))
  /\ UNCHANGED <<wallet, order, payin, escrow, listing, withdrawn, flowVars>>

\* ... marks it RESOLVED, still OPEN or not, and calls the finance method of
\* the resolution; only if that returns is the order's status written.
Resolve(p) ==
  LET o == call[p].order IN
  /\ \/ At(p, "resolvePay") /\ Go(p, CallRelease(o, Kinds, "markCompleted"))
     \/ At(p, "resolveRefund")
        /\ Go(p, Request("refund", o, {}, 0, "markCancelled", "idle"))
     \/ /\ At(p, "resolveSplit")
        /\ \E pct \in Splits : Go(p, Request("split", o, {}, pct, "markCompleted", "idle"))
  /\ dispute' = [dispute EXCEPT ![call[p].arg].status = "RESOLVED"]
  /\ UNCHANGED <<wallet, order, payin, escrow, listing, withdrawn, born, shipment>>

CloseDispute(p) ==
  /\ \/ At(p, "markCompleted") /\ SetOrder(call[p].order, "COMPLETED")
     \/ At(p, "markCancelled") /\ SetOrder(call[p].order, "CANCELLED")
  /\ Go(p, Idle)
  /\ UNCHANGED <<wallet, payin, escrow, listing, withdrawn, flowVars>>

-----------------------------------------------------------------------------
(* Shipments                                                               *)

\* Mutant: a mission that was accepted may be accepted again
AcceptShipmentAgain(p, o, t) ==
  /\ Free(p) /\ o \in born /\ HasShipment(o)
  /\ shipment[o].status \in {"REQUESTED", "ACCEPTED"}
  /\ SetShipment(o, [shipment[o] EXCEPT !.driver = t, !.status = "ACCEPTED"])
  /\ Go(p, Own("assign", o, t))
  /\ UNCHANGED <<wallet, order, payin, escrow, listing, withdrawn, born, dispute>>

\* Mutant: assignTransportEscrowBeneficiary is not given the transporter
AcceptShipmentNameless(p, o, t) ==
  /\ Free(p) /\ o \in born /\ HasShipment(o)
  /\ shipment[o].driver = NoUser /\ shipment[o].status = "REQUESTED"
  /\ SetShipment(o, [shipment[o] EXCEPT !.driver = t, !.status = "ACCEPTED"])
  /\ Go(p, Own("assign", o, NoArg))
  /\ UNCHANGED <<wallet, order, payin, escrow, listing, withdrawn, born, dispute>>

\* acceptShipment, under the row lock; then assignTransportEscrowBeneficiary
AcceptShipment(p, o, t) ==
  /\ Free(p) /\ o \in born /\ HasShipment(o)
  /\ shipment[o].driver = NoUser /\ shipment[o].status = "REQUESTED"
  /\ SetShipment(o, [shipment[o] EXCEPT !.driver = t, !.status = "ACCEPTED"])
  /\ Go(p, Own("assign", o, t))
  /\ UNCHANGED <<wallet, order, payin, escrow, listing, withdrawn, born, dispute>>

AssignBeneficiary(p) ==
  /\ At(p, "assign")
  /\ escrow' = Assigned(call[p].order, call[p].arg)
  /\ Go(p, Idle)
  /\ UNCHANGED <<wallet, order, payin, listing, withdrawn, flowVars>>

\* startLoading, markInTransit (any status is accepted) and markDelivered read
\* the shipment without a lock; markDelivered is told apart by its actor.
CheckShipment(p, o, target) ==
  /\ Free(p) /\ o \in born /\ shipment[o].driver # NoUser
  /\ target \in ShipmentTransitions[shipment[o].status]
  /\ \E handler \in {NoArg} \cup IF target = "DELIVERED" THEN {shipment[o].driver} ELSE {} :
       Go(p, Own(target, o, handler))
  /\ UNCHANGED <<wallet, order, payin, escrow, listing, withdrawn, flowVars>>

\* ... and write it; markDelivered also writes the order, whatever its status
MoveShipment(p) ==
  LET o == call[p].order IN
  /\ call[p].at \in ShipmentStatus
  /\ SetShipment(o, [shipment[o] EXCEPT !.status = call[p].at])
  /\ IF call[p].arg # NoArg THEN SetOrder(o, "DELIVERED") ELSE UNCHANGED order
  /\ Go(p, Idle)
  /\ UNCHANGED <<wallet, payin, escrow, listing, withdrawn, born, dispute>>

\* cancelShipment, one transaction under the row lock
CancelShipment(o) ==
  /\ o \in born /\ shipment[o].driver # NoUser
  /\ "CANCELLED" \in ShipmentTransitions[shipment[o].status]
  /\ SetShipment(o, [shipment[o] EXCEPT !.driver = NoUser, !.status = "CANCELLED"])
  /\ escrow' = Unassigned(o, shipment[o].driver)
  /\ UNCHANGED <<wallet, order, payin, listing, withdrawn, call, born, dispute>>

\* Mutant: only the missions whose transport is paid are listed
ListShipmentPaid(p, o) ==
  /\ Free(p) /\ o \in born /\ HasShipment(o) /\ LockedRows(o) # {}
  /\ shipment[o].status = "REQUESTED" /\ shipment[o].driver = NoUser
  /\ Go(p, Own("sweepShipment", o, NoArg))
  /\ UNCHANGED <<wallet, order, payin, escrow, listing, withdrawn, flowVars>>

\* cleanupOrphanShipments lists the REQUESTED shipments without transporter
ListShipment(p, o) ==
  /\ Free(p) /\ o \in born /\ HasShipment(o)
  /\ shipment[o].status = "REQUESTED" /\ shipment[o].driver = NoUser
  /\ Go(p, Own("sweepShipment", o, NoArg))
  /\ UNCHANGED <<wallet, order, payin, escrow, listing, withdrawn, flowVars>>

\* ... and cancels each, as it may be by now: the TRANSPORT rows become
\* REFUNDED, the buyer's wallet is not touched.
SweepShipment(p) ==
  LET o == call[p].order IN
  /\ At(p, "sweepShipment")
  /\ SetShipment(o, [shipment[o] EXCEPT !.status = "CANCELLED"])
  /\ Settle({r \in LockedRows(o) : r[2] = "TRANSPORT"}, "REFUNDED")
  /\ Go(p, Idle)
  /\ UNCHANGED <<wallet, order, payin, listing, withdrawn, born, dispute>>

\* generatePickupQrToken: the shipment is read ACCEPTED, then a new token is
\* written, which replaces the former one.
CheckQr(p, o) ==
  /\ Free(p) /\ o \in born /\ shipment[o].status = "ACCEPTED"
  /\ Go(p, Own("signQr", o, NoArg))
  /\ UNCHANGED <<wallet, order, payin, escrow, listing, withdrawn, flowVars>>

SignQr(p) ==
  LET o == call[p].order IN
  /\ At(p, "signQr")
  /\ SetShipment(o, [shipment[o] EXCEPT !.qr = TRUE])
  /\ Go(p, Idle)
  /\ UNCHANGED <<wallet, order, payin, escrow, listing, withdrawn, born, dispute>>

\* scanPickup, its checks: the driver, the current token, not yet scanned; the
\* shipment's status is not one of them.
CheckScan(p, o) ==
  /\ Free(p) /\ o \in born
  /\ shipment[o].driver # NoUser /\ shipment[o].qr /\ ~shipment[o].scanned
  /\ Go(p, Own("scan", o, shipment[o].driver))
  /\ UNCHANGED <<wallet, order, payin, escrow, listing, withdrawn, flowVars>>

\* ... its transaction, then releaseEscrow on the PRODUCT row; an error of the
\* release is logged and swallowed.
ScanPickup(p) ==
  LET o == call[p].order IN
  /\ At(p, "scan")
  /\ SetShipment(o, [shipment[o] EXCEPT !.status = "LOADING", !.scanned = TRUE])
  /\ Go(p, CallRelease(o, {"PRODUCT"}, "idle"))
  /\ UNCHANGED <<wallet, order, payin, escrow, listing, withdrawn, born, dispute>>

-----------------------------------------------------------------------------

Init ==
  /\ LedgerInit
  /\ born = {}
  /\ shipment = [o \in Orders |-> [status |-> "REQUESTED", driver |-> NoUser,
                                   qr |-> FALSE, scanned |-> FALSE]]
  /\ dispute = [d \in Disputes |-> [order |-> NoOrder, status |-> "NONE"]]

\* The steps that begin a request
Begin(p, o) ==
  \/ On("createOrder") /\ CreateOrder(p, o)
  \/ On("payOrder") /\ PayOrder(p, o)
  \/ On("updateStatus") /\
       \E side \in {"buyer", "seller"}, s \in OrderStatus : UpdateStatus(p, o, side, s)
  \/ On("confirmDelivery") /\ ConfirmDelivery(p, o)
  \/ On("releaseEscrowAdmin") /\
       \E kinds \in {Kinds, {"PRODUCT"}, {"TRANSPORT"}} : ReleaseEscrowAdmin(p, o, kinds)
  \/ On("openDispute") /\ CheckDispute(p, o)
  \/ On("resolveDispute") /\
       \E step \in {"resolvePay", "resolveRefund", "resolveSplit"} : CheckResolve(p, o, step)
  \/ On("acceptShipment") /\ \E t \in Transporters : AcceptShipment(p, o, t)
  \/ On("moveShipment") /\ \E s \in ShipmentStatus : CheckShipment(p, o, s)
  \/ On("pickupQr") /\ (CheckQr(p, o) \/ CheckScan(p, o))
  \/ On("cleanupOrders") /\ SweepOrder(p, o)
  \/ On("cleanupShipments") /\ ListShipment(p, o)

\* The requests of a single step
OneShot(o) ==
  \/ On("acceptNegotiation") /\ NegotiatedOrder(o)
  \/ On("cancelShipment") /\ CancelShipment(o)

\* The steps by which a request goes on
GoOn(p) ==
  \/ Finance(p) /\ UNCHANGED flowVars
  \/ Compensate(p) \/ OpenDispute(p) \/ Resolve(p) \/ CloseDispute(p)
  \/ AssignBeneficiary(p) \/ MoveShipment(p) \/ SweepShipment(p)
  \/ SignQr(p) \/ ScanPickup(p)

Die(p) == MayCrash /\ Crash(p) /\ UNCHANGED flowVars

Next ==
  \/ \E p \in Procs : (\E o \in Orders : Begin(p, o)) \/ GoOn(p) \/ Die(p)
  \/ \E o \in Orders : OneShot(o)

Spec == Init /\ [][Next]_vars

-----------------------------------------------------------------------------
(* Properties                                                              *)

(* Liveness is stated for requests that do not die: each goes on to its    *)
(* end, and the hourly crons run again and again.                          *)
LiveSpec ==
  /\ Spec
  /\ \A p \in Procs : WF_vars(GoOn(p))
  /\ \A o \in Orders :
       /\ SF_vars(\E p \in Procs : On("cleanupOrders") /\ SweepOrder(p, o))
       /\ SF_vars(\E p \in Procs : On("cleanupShipments") /\ ListShipment(p, o))

\* Types
FlowTypeOK ==
  /\ TypeOK
  /\ born \subseteq Orders
  /\ shipment \in [Orders -> [status : ShipmentStatus, driver : Transporters \cup {NoUser},
                              qr : BOOLEAN, scanned : BOOLEAN]]
  /\ dispute \in [Disputes -> [order : Orders \cup {NoOrder},
                               status : {"NONE", "OPEN", "RESOLVED"}]]

\* No request is in flight
Quiet == \A p \in Procs : Free(p)

\* A cancelled order is undone: once the requests have ended, nothing of it
\* is LOCKED, whichever of the parties, the failed payment or the cron
\* cancelled it and whatever ran meanwhile.  (updateStatus,
\* cancelOrderCompensation: the refund is outside their transaction.)
CancelledIsUndone ==
  Quiet => \A o \in Orders : order[o] = "CANCELLED" => LockedRows(o) = {}

\* A COMPLETED order has been settled: nothing of it is LOCKED once the
\* requests have ended.
CompletedIsPaid ==
  Quiet => \A o \in Orders : order[o] = "COMPLETED" => LockedRows(o) = {}

\* First come, first served: a mission never passes from one transporter to
\* another; it is freed in between (acceptShipment locks the row).
OneMission ==
  [][\A o \in Orders : shipment'[o].driver # shipment[o].driver
       => NoUser \in {shipment[o].driver, shipment'[o].driver}]_vars

\* The seller is paid for goods that left: a PRODUCT row is RELEASED only
\* after a pickup scan or a delivery, although neither the scan nor the
\* confirmation holds a lock on what it read.
PaidAfterHandover ==
  [][\A r \in Rows :
       r[2] = "PRODUCT" /\ escrow[r].status = "LOCKED" /\ escrow'[r].status = "RELEASED"
         => LET o == payin[r[1]].order
            IN  \/ shipment[o].scanned \/ shipment[o].status = "DELIVERED"
                \/ order[o] \in {"DELIVERED", "COMPLETED", "DISPUTED"}]_vars

\* An order is paid in once at most
PaidOnce ==
  \A i, j \in Payins :
    payin[i].status = "ESCROW" /\ payin[j].status = "ESCROW" /\ i # j
      => payin[i].order # payin[j].order

\* The cleanup cron leaves no order unpaid for ever: each order that is SENT
\* is eventually paid, answered or cancelled.
OrphanCleared ==
  \A o \in Orders : o \in born /\ order[o] = "SENT" ~> order[o] # "SENT"

\* ... and no mission without a transporter for ever
MissionCleared ==
  \A o \in Orders : o \in born /\ HasShipment(o) /\ shipment[o].status = "REQUESTED"
                     ~> shipment[o].status # "REQUESTED"

\* The types, and no drift, whatever orders and logistics ask of the ledger
FlowSound == FlowTypeOK /\ NoDrift

\* One request at a time, with crashes between its steps: every LOCKED row keeps its money
FlowCovered == FlowSound /\ EscrowCovered

\* Whatever requests overlap: nothing is stranded in escrow, a cancelled order is refunded
\* and a completed one is paid once the requests have ended
OrdersSound == FlowSound /\ EscrowBacked /\ CancelledIsUndone /\ CompletedIsPaid

=============================================================================
