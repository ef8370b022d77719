------------------------------- MODULE MCTrade -------------------------------
(***************************************************************************)
(* How goods come to be offered and sold, for TLC: offers on an open       *)
(* market or to one seller, the sale of a cooperative, its members, and    *)
(* its calls for a harvest.  They share no state, so a behaviour is about  *)
(* one of them, its focus, and the others rest in one of their initial     *)
(* states.                                                                 *)
(***************************************************************************)
EXTENDS Negotiation, CoopSale, Membership, Sollicitations, TLC

VARIABLE focus  \* the component a behaviour is about

\* A listing of two kilos, of one, and one that is no longer on sale
Market == {[open |-> TRUE, kg |-> 2], [open |-> TRUE, kg |-> 1], [open |-> FALSE, kg |-> 1]}

\* The clients that make the requests in flight, and the two buyers or cooperatives
Interchangeable == Permutations(Tabs) \cup Permutations(Makers)

tradeVars == <<focus, negoVars, saleVars, memberVars, solliVars>>

NegoAtRest == kind = "candidature" /\ source = [open |-> TRUE, kg |-> 2]

Init ==
  /\ focus \in {"nego", "sale", "member", "solli"}
  /\ NegoInit /\ SaleInit /\ MemberInit /\ SolliInit
  /\ focus # "nego" => NegoAtRest
  /\ focus # "member" => managed = [f \in Farmers |-> {}]

Next ==
  \/ focus = "nego" /\ NegoNext /\ UNCHANGED <<focus, saleVars, memberVars, solliVars>>
  \/ focus = "sale" /\ SaleNext /\ UNCHANGED <<focus, negoVars, memberVars, solliVars>>
  \/ focus = "member" /\ MemberNext /\ UNCHANGED <<focus, negoVars, saleVars, solliVars>>
  \/ focus = "solli" /\ SolliNext /\ UNCHANGED <<focus, negoVars, saleVars, memberVars>>

Spec == Init /\ [][Next]_tradeVars

\* What was decided stays decided, whatever answers were under way: an offer that lost
\* the race stays lost and a sollicitation that was closed stays closed
DecidedStays == LosersStayLost /\ ClosedStaysClosed

=============================================================================
