------------------------------ MODULE MCMarket ------------------------------
(***************************************************************************)
(* Forecasts and their reservations, for TLC, with what surrounds them on  *)
(* the market: the timers of the periodic jobs, the treatments sellers     *)
(* declare, the lots of warehouses, and the lists everyone reads page by   *)
(* page.  They share no state here, so a behaviour is about one of them,   *)
(* its focus, and the others rest in one of their initial states.          *)
(***************************************************************************)
EXTENDS Reservations, Crons, Declarations, Lots, Pages, TLC

VARIABLE focus  \* the component a behaviour is about

\* Two reservations of one kilo
OneKilo == [r \in Resas |-> 1]

EveryJob == {ExpireReservations, CleanupOrders, CleanupShipments, Reconcile, RemindHarvests}

\* A name that is in those of two products, and the declarations made
NamesOfTwo == [spray |-> {"p1", "p2"}]
Leaflets == {<<>>, <<"p1">>, <<"p1", "spray">>, <<"spray", "p2", "p3">>, <<"p3", Blank>>}

EveryList ==
  {AnnoncesVente, AnnoncesAchat, PublicationsCoop, NewsForUser, AllNews, AllUsers,
   AllTransactions, AllOrders, Cooperatives, Treatments, MyOrders, MyTransactions,
   MyNotifications, MyConversations, ConversationMessages, MyAnalyses, MyB2bOrders, MyOffres,
   CoopMembers, CoopAnyMembers, AssignedAnnonces, AssignedPrevisions, Advances,
   SollicitationsOfCoop, MemberAnnonces, MemberOrders}

marketVars == <<focus, resaVars, cronsVars, declarationsVars, lotsVars, pagesVars>>

Init ==
  /\ focus \in {"reservations", "crons", "declarations", "lots", "pages"}
  /\ ResaInit /\ CronsInit /\ DeclarationsInit /\ LotsInit /\ PagesInit
  /\ focus # "crons" => cron = Reconcile
  /\ focus # "lots" => \A f \in Farmers : coopOf[f] = Nobody
  /\ focus # "pages" => list = AllNews /\ limit = 1 /\ rows = <<>>
  \* a list of one's own rows begins with them alone
  /\ list.of = "asker" => \A r \in DOMAIN rows : rows[r].owner = Reader

Next ==
  \/ /\ focus = "reservations" /\ ResaNext
     /\ UNCHANGED <<focus, cronsVars, declarationsVars, lotsVars, pagesVars>>
  \/ /\ focus = "crons" /\ CronsNext
     /\ UNCHANGED <<focus, resaVars, declarationsVars, lotsVars, pagesVars>>
  \/ /\ focus = "declarations" /\ DeclarationsNext
     /\ UNCHANGED <<focus, resaVars, cronsVars, lotsVars, pagesVars>>
  \/ /\ focus = "lots" /\ LotsNext
     /\ UNCHANGED <<focus, resaVars, cronsVars, declarationsVars, pagesVars>>
  \/ /\ focus = "pages" /\ PagesNext
     /\ UNCHANGED <<focus, resaVars, cronsVars, declarationsVars, lotsVars>>

\* Deadlines and the cron could go on beside the others, so their fairness is asked of the
\* behaviours about them
ResaTurn(A) == focus = "reservations" /\ A

Spec ==
  /\ Init /\ [][Next]_marketVars
  /\ \A c \in Buyers : WF_resaVars(ResaTurn(ClientStep(c)))
  /\ \A r \in Resas : WF_resaVars(ResaTurn(Deadline(r)))
  /\ WF_resaVars(ResaTurn(Expiry))

\* Goods and lots of the market: declared in full, shown to whom they belong
GoodsSafety == DeclarationsSafety /\ LotsSafety

=============================================================================
