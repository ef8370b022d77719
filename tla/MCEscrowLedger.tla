--------------------------- MODULE MCEscrowLedger ---------------------------
(* EscrowLedger for TLC: one or two orders of one
   buyer, two requests in flight. *)
EXTENDS EscrowLedger, TLC

CONSTANTS o1, o2, l1, buyer, seller, driver

\* By order, for as many orders as the cfg declares
Of(x) == [o \in Orders |-> x]
MCBuyer == Of(buyer)
MCSeller == Of(seller)
MCListing == Of(l1)
MCQuantity == Of(1)
MCGoods == [o \in Orders |-> IF o = o1 THEN 100 ELSE 60]
MCCarriage == Of(20)
MCNoCarriage == Of(0)
MCInitialKg == l1 :> 1
MCTwoKg == l1 :> 2

\* Requests and payin rows are interchangeable
MCSymmetry == Permutations(Procs) \cup Permutations(Payins)
=============================================================================
