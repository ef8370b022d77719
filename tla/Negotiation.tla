---------------------------- MODULE Negotiation ----------------------------
(***************************************************************************)
(* The three negotiations: a buyer's candidature on a listing, a seller's  *)
(* proposition on a purchase request, a buyer's contre-offre on a          *)
(* cooperative's publication.  They differ in what an acceptance does, so  *)
(* the kind is fixed at the start and the offers are all on one source.    *)
(*                                                                         *)
(* Every request reads the offer and checks it outside the transaction     *)
(* that writes it by its id.  A request is any tab of either party: two of *)
(* them overlap, and the transaction that closes an offer locks only the   *)
(* source.                                                                 *)
(***************************************************************************)
EXTENDS Naturals, Sequences, FiniteSets

CONSTANTS
  Offers,    \* 1..n: rows of candidatures_achat, propositions_vente or contre_offres_coop
  Makers,    \* their buyer_id, vendeur_id or acheteur_id
  Terms,     \* quantite_kg (the price goes with it)
  Sources,   \* what the source may be: open (ACTIVE, is_active) and its quantity
  Answers,   \* the decisions the parties take
  Tabs       \* requests in flight

VARIABLES
  kind,      \* which negotiation
  source,    \* the listing, request or publication
  offer,     \* status, terms and maker of each offer
  orders,    \* the commandes whose idempotency_key is the offer's id: their quantity
  tab,       \* the request of each tab
  stale      \* history: offers written on a reading that was no longer true

negoVars == <<kind, source, offer, orders, tab, stale>>

Kinds == {"candidature", "proposition", "contreOffre"}
OpenStatus == {"PENDING", "COUNTER_OFFER"}
Decisions == {"ACCEPTED", "REJECTED", "COUNTER_OFFER", "CANCELLED"}
ASSUME AnswersAssumption == Answers \subseteq Decisions
NegotiationStatus == OpenStatus \cup Decisions \cup {"NONE", "REJECTED_BY_RACE"}

NoOffer == [status |-> "NONE", kg |-> 0, by |-> {}]
NoTab == [at |-> "idle", of |-> {}, act |-> "ACCEPTED", kg |-> 0, saw |-> NoOffer, seen |-> {}]
Free(q) == tab' = [tab EXCEPT ![q] = NoTab]
The(q) == CHOOSE o \in Offers : tab[q].of = {o}
Fresh(o) == offer[o].status = "NONE" /\ \A q \in Tabs : tab[q].of # {o}
LiveOf(m) == {o \in Offers : offer[o].by = {m} /\ offer[o].status \in OpenStatus}

-----------------------------------------------------------------------------

\* Mutant: an offer that was answered by a counter-offer is not "en cours"
EnCoursPending(m) == {o \in Offers : offer[o].by = {m} /\ offer[o].status = "PENDING"}

EnCours(m) == LiveOf(m)

\* The checks of a new offer.  Rows are numbered in the order of their requests.
CheckOffer(q, m, o, kg) ==
  /\ tab[q].at = "idle"
  /\ Fresh(o) /\ \A p \in Offers : p < o => ~Fresh(p)
  /\ source.open /\ kg <= source.kg
  /\ EnCours(m) = {}
  /\ tab' = [tab EXCEPT ![q] = [NoTab EXCEPT !.at = "create", !.of = {o}, !.kg = kg,
                            !.saw = [NoOffer EXCEPT !.by = {m}], !.seen = LiveOf(m)]]
  /\ UNCHANGED <<kind, source, offer, orders, stale>>

\* On a listing outside the cooperatives' sale, for no more than is left of it
CreateCandidatureAchat(q, m, o, kg) == kind = "candidature" /\ CheckOffer(q, m, o, kg)

\* To an active purchase request whose audience the seller belongs to
CreatePropositionVente(q, m, o, kg) == kind = "proposition" /\ CheckOffer(q, m, o, kg)

\* On a cooperative's publication
CreateContreOffreCoop(q, m, o, kg) == kind = "contreOffre" /\ CheckOffer(q, m, o, kg)

\* The transaction that inserts it
CreateOffer(q) ==
  LET o == The(q) IN
  /\ tab[q].at = "create"
  /\ offer' = [offer EXCEPT ![o] = [status |-> "PENDING", kg |-> tab[q].kg, by |-> tab[q].saw.by]]
  /\ stale' = IF \E m \in tab[q].saw.by : LiveOf(m) = tab[q].seen
              THEN stale ELSE stale \cup {o}
  /\ Free(q)
  /\ UNCHANGED <<kind, source, orders>>

\* Mutant: a status the table does not list allows everything
AssertTransitionOpen(status, act) == status \notin {"NONE", "ACCEPTED", "REJECTED", "CANCELLED"}

\* assertTransition over ALLOWED_TRANSITIONS
AssertTransition(status, act) == status \in OpenStatus

\* The read and the transition.  The party that received the offer accepts, rejects
\* or counters, its maker cancels or counters; a counter-offer brings new terms.
CheckDecision(q, o, act, kg) ==
  /\ tab[q].at = "idle" /\ offer[o].status # "NONE"
  /\ AssertTransition(offer[o].status, act)
  /\ tab' = [tab EXCEPT ![q] = [NoTab EXCEPT !.at = "decide", !.of = {o}, !.act = act,
                                             !.kg = kg, !.saw = offer[o]]]
  /\ UNCHANGED <<kind, source, offer, orders, stale>>

\* Mutant: an accepted contre-offre makes an order too
MakesOrderEach(q) == tab[q].act = "ACCEPTED"

\* An acceptance makes an order, but for a contre-offre
MakesOrder(q) == tab[q].act = "ACCEPTED" /\ kind # "contreOffre"

\* Under the source's lock; only a candidature is held against the stock
Acceptable(q) ==
  source.open /\ (kind = "candidature" => tab[q].saw.kg <= source.kg)

\* Mutant: each acceptance makes an order
NewOrderAgain(o, kg) == Append(orders[o], kg)

\* One order per offer: idempotency_key is looked up first
NewOrder(o, kg) == IF orders[o] = <<>> THEN <<kg>> ELSE orders[o]

\* Mutant: the order is for what the request carries
AgreedOfRequest(q) == tab[q].kg

\* The order is for the terms that were read before the transaction
Agreed(q) == tab[q].saw.kg

\* The transaction of an answer: the status is written by id, whatever it has become;
\* an acceptance makes the order and rejects the live offers on the same source
Decide(q) ==
  LET o == The(q)
      act == tab[q].act
      kg == IF act = "COUNTER_OFFER" THEN tab[q].kg ELSE offer[o].kg
      lost == {p \in Offers \ {o} : offer[p].status \in OpenStatus} IN
  /\ tab[q].at = "decide"
  /\ MakesOrder(q) => Acceptable(q)
  /\ offer' = [p \in Offers |->
       IF p = o THEN [offer[p] EXCEPT !.status = act, !.kg = kg]
       ELSE IF MakesOrder(q) /\ p \in lost THEN [offer[p] EXCEPT !.status = "REJECTED_BY_RACE"]
       ELSE offer[p]]
  /\ orders' = IF MakesOrder(q) THEN [orders EXCEPT ![o] = NewOrder(o, Agreed(q))] ELSE orders
  /\ stale' = IF offer[o] = tab[q].saw THEN stale ELSE stale \cup {o}
  /\ Free(q)
  /\ UNCHANGED <<kind, source>>

\* An answer to a buyer's offer on a listing
TraiterCandidatureAchat(q) == kind = "candidature" /\ Decide(q)

\* An answer to a seller's proposition, of which the request's stock is not taken
TraiterPropositionVente(q) == kind = "proposition" /\ Decide(q)

\* An answer to a contre-offre, whose acceptance closes it and no more
TraiterContreOffreCoop(q) == kind = "contreOffre" /\ Decide(q)

\* The transaction rolls back: the source closed or has not enough, or two
\* acceptances wait for each other's rows and the database ends one
AbortDecision(q) ==
  /\ tab[q].at = "decide" /\ MakesOrder(q)
  /\ ~Acceptable(q) \/ \E p \in Tabs \ {q} : tab[p].at = "decide" /\ MakesOrder(p)
  /\ Free(q)
  /\ UNCHANGED <<kind, source, offer, orders, stale>>

\* The owner changes, closes or reopens the source; payments take from it
ChangeSource(s) ==
  /\ source' = s
  /\ UNCHANGED <<kind, offer, orders, tab, stale>>

NegoInit ==
  /\ kind \in Kinds
  /\ source \in Sources
  /\ offer = [o \in Offers |-> NoOffer]
  /\ orders = [o \in Offers |-> <<>>]
  /\ tab = [q \in Tabs |-> NoTab]
  /\ stale = {}

NegoNext ==
  \/ \E q \in Tabs :
       \/ CreateOffer(q) \/ AbortDecision(q)
       \/ TraiterCandidatureAchat(q) \/ TraiterPropositionVente(q) \/ TraiterContreOffreCoop(q)
  \/ \E q \in Tabs, o \in Offers, kg \in Terms :
       \/ \E m \in Makers :
            \/ CreateCandidatureAchat(q, m, o, kg) \/ CreatePropositionVente(q, m, o, kg)
            \/ CreateContreOffreCoop(q, m, o, kg)
       \/ \E act \in Answers :
            CheckDecision(q, o, act, IF act = "COUNTER_OFFER" THEN kg ELSE 0)
  \/ \E s \in Sources : ChangeSource(s)

NegoSpec == NegoInit /\ [][NegoNext]_negoVars

-----------------------------------------------------------------------------
(* Properties                                                              *)

OfferRows == [status : NegotiationStatus, kg : Terms \cup {0}, by : SUBSET Makers]

NegoTypeOK ==
  /\ kind \in Kinds
  /\ source \in Sources
  /\ offer \in [Offers -> OfferRows]
  /\ orders \in [Offers -> Seq(Terms)]
  /\ tab \in [Tabs -> [at : {"idle", "create", "decide"}, of : SUBSET Offers,
                       act : Decisions, kg : Terms \cup {0}, saw : OfferRows,
                       seen : SUBSET Offers]]
  /\ stale \subseteq Offers

\* However many acceptances of one offer overlap, it has at most one order
OneOrderPerOffer == \A o \in Offers : Len(orders[o]) <= 1

\* The order is the offer's last terms, and only an accepted offer has one; but
\* for offers that were written on a stale reading
TermsHonoured ==
  \A o \in Offers \ stale :
    IF offer[o].status = "ACCEPTED" /\ kind # "contreOffre"
    THEN orders[o] = <<offer[o].kg>> ELSE orders[o] = <<>>

\* The same party has one offer under way on a source, unless two of its
\* requests overlapped or a stale answer brought an old one back
OneLiveOffer ==
  \A o, p \in Offers \ stale :
    offer[o].by = offer[p].by /\ offer[o].status \in OpenStatus /\ offer[p].status \in OpenStatus => o = p

\* An offer that lost the race stays lost, but for an answer already under way
LosersStayLost ==
  [][\A o \in Offers : offer[o].status = "REJECTED_BY_RACE" /\ o \notin stale'
       => offer'[o] = offer[o]]_negoVars

\* An offer makes one order at most, of its last terms and once accepted, and a party has
\* one offer under way, but for those written on a stale reading
NegoSafety == NegoTypeOK /\ OneOrderPerOffer /\ TermsHonoured /\ OneLiveOffer

=============================================================================
