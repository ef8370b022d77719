---------------------------- MODULE MCOrderFlow ----------------------------
(* OrderFlow for TLC: one or two orders of one buyer.                       *)
EXTENDS OrderFlow, TLC

CONSTANTS o1, o2, l1, buyer, seller, driver, driver2

\* By order, for as many orders as the cfg declares
Of(x) == [o \in Orders |-> x]
MCBuyer == Of(buyer)
MCSeller == Of(seller)
MCListing == Of(l1)
MCQuantity == Of(1)
MCGoods == Of(100)
MCCarriage == Of(20)
MCNoCarriage == Of(0)
MCOneKg == l1 :> 1
MCTwoKg == l1 :> 2
MCSteps == OwnSteps
MCAll == Endpoints

MCSymmetry == Permutations(Procs) \cup Permutations(Payins)
              \cup Permutations(Disputes)
=============================================================================
