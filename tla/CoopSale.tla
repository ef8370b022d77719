------------------------------ MODULE CoopSale ------------------------------
(***************************************************************************)
(* Selling through a cooperative: a member's listing is entrusted to it,   *)
(* weighed and validated, aggregated into a publication; advances are paid *)
(* on it, and what the publication sold for is shared among the members.   *)
(*                                                                         *)
(* Every operation reads and checks outside the transaction that writes,   *)
(* and writes by id.  The farmer has one request in flight; the            *)
(* cooperative has several (its staff, or one person's double click).      *)
(***************************************************************************)
EXTENDS Integers, FiniteSetsExt

CONSTANTS
  Listings,     \* 1..n: annonces_vente of the members
  Pubs,         \* 1..n: publications_stock_coop
  Declared, Weights,   \* the quantities members declare, and those weighed
  Lots,         \* the quantities buyers order
  Price,        \* prix_par_kg, of listings and publications
  Rate,         \* commission_rate, percent
  Advance,      \* amount of an advance
  Funds,        \* balance of the cooperative's wallet at the start
  Staff         \* the cooperative's requests

ASSUME SaleAssumption ==
  /\ IsFiniteSet(Listings) /\ Listings \subseteq Nat /\ Pubs \subseteq Nat
  /\ Declared \subseteq Nat /\ Weights \subseteq Nat \ {0} /\ Lots \subseteq Nat
  /\ Price \in Nat /\ Rate \in 0 .. 100 /\ Advance \in Nat /\ Funds \in Nat
  /\ "member" \notin Staff

VARIABLES
  listing,   \* coop_status, quantite_kg, quantite_kg_validee
  pub,       \* is_active, quantite_kg left; history: kilos sold, amount shared
  contrib,   \* publication_contributions; history: the gross share
  adv,       \* coop_advance_payments of a listing: PAID, REIMBURSED
  got,       \* what distributions credited, by listing
  chest,     \* balance of the cooperative's wallet
  desk,      \* the request of each actor
  twist      \* history: overlaps and orders of steps the code does not meet

saleVars == <<listing, pub, contrib, adv, got, chest, desk, twist>>

Desks == Staff \cup {"member"}
CoopStatus == {"NULL", "PENDING", "VALIDATED", "INCLUDED", "REJECTED"}
NoListing == [coop |-> "GONE", kg |-> 0, weighed |-> 0]
NoPub == [at |-> "NONE", kg |-> 0, sold |-> 0, shared |-> -1]
NewPub(kg) == [NoPub EXCEPT !.at = "ACTIVE", !.kg = kg]
NoOrder == [do |-> "idle", of |-> {}, pub |-> {}, kg |-> 0, saw |-> {}]

\* Bound: no request begins after the first twist
Ready(d) == desk[d].do = "idle" /\ twist = {}
Ask(d, do, of, p, kg, saw) ==
  desk' = [desk EXCEPT ![d] = [do |-> do, of |-> of, pub |-> p, kg |-> kg, saw |-> saw]]
Answer(d) == desk' = [desk EXCEPT ![d] = NoOrder]
Doing(d, do) == desk[d].do = do
It(d) == CHOOSE l \in Listings : desk[d].of = {l}
Rows(ls) == {<<l, listing[l]>> : l \in ls}
\* The rows read are no longer what they were
Twist(d, now) == twist' = IF desk[d].saw = now THEN twist ELSE twist \cup {"overlap"}
Entrusted == {"PENDING", "VALIDATED", "INCLUDED"}
Amounts(cs) == SumFunctionOnSet([c \in cs |-> c.amount], cs)
\* Math.round
Rounded(n, d) == (2 * n + d) \div (2 * d)

-----------------------------------------------------------------------------
(* The member                                                              *)

\* A new row has an identifier of its own, which no request under way is about
Unused(l) == listing[l] = NoListing /\ got[l] = 0 /\ \A d \in Desks : l \notin desk[d].of

\* createAnnonceVente, for the cooperative: it inserts a free listing
InsertListing(l, kg) ==
  /\ Ready("member") /\ Unused(l) /\ \A m \in Listings : m < l => ~Unused(m)
  /\ listing' = [listing EXCEPT ![l] = [coop |-> "NULL", kg |-> kg, weighed |-> 0]]
  /\ Ask("member", "attach", {l}, {}, 0, {})
  /\ UNCHANGED <<pub, contrib, adv, got, chest, twist>>

\* ... and attachAnnonceToCoop entrusts it, or it is deleted: not a member
AttachListing ==
  /\ Doing("member", "attach")
  /\ LET l == It("member") IN
     \/ listing' = [listing EXCEPT ![l].coop = "PENDING"]
     \/ listing' = [listing EXCEPT ![l] = NoListing]
  /\ Answer("member")
  /\ UNCHANGED <<pub, contrib, adv, got, chest, twist>>

\* updateAnnonceVente, deleteAnnonceVente: refused while it is entrusted
CheckListing(l, do, kg) ==
  /\ Ready("member") /\ listing[l] # NoListing /\ listing[l].coop \notin Entrusted
  /\ Ask("member", do, {l}, {}, kg, Rows({l}))
  /\ UNCHANGED <<listing, pub, contrib, adv, got, chest, twist>>

UpdateListing ==
  LET l == It("member") IN
  /\ Doing("member", "update")
  /\ listing' = [listing EXCEPT ![l].kg = desk["member"].kg]
  /\ Twist("member", Rows({l})) /\ Answer("member")
  /\ UNCHANGED <<pub, contrib, adv, got, chest>>

\* The contributions go with the row; its advances lose their listing
DeleteListing ==
  LET l == It("member") IN
  /\ Doing("member", "delete")
  /\ listing' = [listing EXCEPT ![l] = NoListing]
  /\ contrib' = {c \in contrib : c.of # l}
  /\ adv' = [adv EXCEPT ![l] = [due |-> 0, back |-> 0]]
  /\ Twist("member", Rows({l})) /\ Answer("member")
  /\ UNCHANGED <<pub, got, chest>>

-----------------------------------------------------------------------------
(* The cooperative: weighing and aggregation                               *)

\* validateAnnonce, rejectAnnonce
CheckValidate(d, l, kg) ==
  /\ Ready(d) /\ listing[l].coop = "PENDING"
  /\ Ask(d, "validate", {l}, {}, kg, Rows({l}))
  /\ UNCHANGED <<listing, pub, contrib, adv, got, chest, twist>>

\* A refusal asks only that the listing is not INCLUDED
CheckReject(d, l) ==
  /\ Ready(d) /\ listing[l].coop \in {"PENDING", "VALIDATED", "REJECTED"}
  /\ Ask(d, "reject", {l}, {}, 0, Rows({l}))
  /\ UNCHANGED <<listing, pub, contrib, adv, got, chest, twist>>

Judge(d) ==
  LET l == It(d) IN
  /\ \/ Doing(d, "validate") /\ listing[l] # NoListing
        /\ listing' = [listing EXCEPT ![l].coop = "VALIDATED", ![l].weighed = desk[d].kg]
     \/ Doing(d, "reject") /\ listing[l] # NoListing
        /\ listing' = [listing EXCEPT ![l].coop = "REJECTED"]
     \/ desk[d].do \in {"validate", "reject"} /\ listing[l] = NoListing
        /\ UNCHANGED listing
  /\ Twist(d, Rows({l})) /\ Answer(d)
  /\ UNCHANGED <<pub, contrib, adv, got, chest>>

\* aggregateIntoPublication: its reads
CheckAggregate(d, ls) ==
  /\ Ready(d) /\ ls # {} /\ \A l \in ls : listing[l].coop = "VALIDATED"
  /\ Ask(d, "aggregate", ls, {}, 0, Rows(ls))
  /\ UNCHANGED <<listing, pub, contrib, adv, got, chest, twist>>

\* Mutant: the listings stay VALIDATED
IncludedNot(ls) == listing

Included(ls) ==
  [l \in Listings |-> IF l \in ls /\ listing[l] # NoListing
                      THEN [listing[l] EXCEPT !.coop = "INCLUDED"] ELSE listing[l]]

\* Mutant: the part of what was declared, not of what was weighed
PartDeclared(row, total) == Rounded(10000 * row.kg, total)

Part(row, total) == Rounded(10000 * row.weighed, total)

\* ... and its transaction: the parts, to the fourth decimal, of what was read;
\* it fails if a listing is gone
Aggregate(d, p) ==
  LET read == desk[d].saw
      total == SumFunctionOnSet([r \in read |-> r[2].weighed], read) IN
  /\ Doing(d, "aggregate")
  /\ pub[p].at = "NONE" /\ \A q \in Pubs : q < p => pub[q].at # "NONE"
  /\ \A l \in desk[d].of : listing[l] # NoListing
  /\ pub' = [pub EXCEPT ![p] = NewPub(total)]
  /\ contrib' = contrib \cup
       {[pub |-> p, of |-> r[1], part |-> Part(r[2], total),
         paid |-> FALSE, amount |-> 0, gross |-> 0] : r \in read}
  /\ listing' = Included(desk[d].of)
  /\ Twist(d, Rows(desk[d].of)) /\ Answer(d)
  /\ UNCHANGED <<adv, got, chest>>

AggregateFails(d) ==
  /\ Doing(d, "aggregate") /\ \E l \in desk[d].of : listing[l] = NoListing
  /\ Answer(d)
  /\ UNCHANGED <<listing, pub, contrib, adv, got, chest, twist>>

-----------------------------------------------------------------------------
(* Publications                                                            *)

\* deletePublicationCoop: its contributions go, its listings stay INCLUDED
DeletePublicationCoop(p) ==
  /\ pub[p].at \in {"ACTIVE", "SOLD"}
  /\ pub' = [pub EXCEPT ![p] = [NoPub EXCEPT !.at = "DELETED"]]
  /\ contrib' = {c \in contrib : c.pub # p}
  /\ twist' = twist \cup {"deleted"}
  /\ UNCHANGED <<listing, adv, got, chest, desk>>

\* An order on the publication is paid and settled: confirmPayment takes the
\* kilos from quantite_kg, the release credits the cooperative
SellPublication(p, kg) ==
  /\ pub[p].at = "ACTIVE" /\ kg <= pub[p].kg
  /\ pub' = [pub EXCEPT ![p].kg = @ - kg, ![p].sold = @ + kg,
                        ![p].at = IF pub[p].kg = kg THEN "SOLD" ELSE @]
  /\ chest' = chest + Price * kg
  /\ UNCHANGED <<listing, contrib, adv, got, desk, twist>>

-----------------------------------------------------------------------------
(* Advances and distribution                                               *)

\* Mutant: the ceiling does not count the advances already paid
CeilingFull(l) ==
  Price * (IF listing[l].weighed > 0 THEN listing[l].weighed ELSE listing[l].kg)

\* payAdvance: the value of the listing, less the advances still PAID on it
Ceiling(l) ==
  Price * (IF listing[l].weighed > 0 THEN listing[l].weighed ELSE listing[l].kg)
    - adv[l].due

\* Advances and unpaid contributions of a publication or of a listing, as read
Dues(ls) == {<<l, [due |-> adv[l].due]>> : l \in ls}

CheckAdvance(d, l) ==
  /\ Ready(d) /\ listing[l].coop \in {"PENDING", "VALIDATED", "INCLUDED"}
  /\ Advance <= Ceiling(l)
  /\ Ask(d, "advance", {l}, {}, 0, Dues({l}))
  /\ UNCHANGED <<listing, pub, contrib, adv, got, chest, twist>>

\* Mutant: the balance is not looked at, and there is no CHECK
CoversAny(amount) == TRUE

\* The cooperative's balance suffices; CHECK (balance >= 0)
Covers(amount) == chest >= amount

\* Its transaction, or it throws
PayAdvance(d) ==
  LET l == It(d)
      late == \E c \in contrib : c.of = l /\ c.paid IN
  /\ Doing(d, "advance")
  /\ IF Covers(Advance) /\ listing[l] # NoListing
     THEN /\ chest' = chest - Advance
          /\ adv' = [adv EXCEPT ![l].due = @ + Advance]
          /\ twist' = twist \cup (IF Dues({l}) = desk[d].saw THEN {} ELSE {"overlap"})
                            \cup (IF late THEN {"late"} ELSE {})
     ELSE UNCHANGED <<chest, adv, twist>>
  /\ Answer(d)
  /\ UNCHANGED <<listing, pub, contrib, got>>

\* Mutant: contributions that were paid are paid again
UnpaidAll(p) == {c \in contrib : c.pub = p}

Unpaid(p) == {c \in contrib : c.pub = p /\ ~c.paid}

\* distributePublication: the quantity the row holds, at its price, less the
\* commission
Distributable(p) ==
  LET total == pub[p].kg * Price IN total - Rounded(total * Rate, 100)

Gross(c, amount) == Rounded(amount * c.part, 10000)

\* Mutant: advances are not deducted
NetGross(c, amount) == Gross(c, amount)

\* The share less the advances, capped at 0
Net(c, amount) == Max({0, Gross(c, amount) - adv[c.of].due})

\* The breakdown that is read and computed before the transaction
Breakdown(p) ==
  {<<c.of, [due |-> adv[c.of].due,
            line |-> [c EXCEPT !.paid = TRUE, !.amount = Net(c, Distributable(p)),
                               !.gross = Gross(c, Distributable(p))]]>> : c \in Unpaid(p)}

CheckDistribute(d, p) ==
  /\ Ready(d) /\ Unpaid(p) # {}
  /\ Ask(d, "distribute", {}, {p}, Distributable(p), Breakdown(p))
  /\ UNCHANGED <<listing, pub, contrib, adv, got, chest, twist>>

\* The transaction pays that breakdown; it throws if the balance does not
\* suffice or a contribution is gone
Distribute(d) ==
  LET p == CHOOSE x \in Pubs : desk[d].pub = {x}
      lines == {r[2].line : r \in desk[d].saw}
      sum == Amounts(lines)
      Line(l) == {c \in lines : c.of = l} IN
  /\ Doing(d, "distribute")
  /\ IF Covers(sum) /\ \A c \in lines : \E x \in contrib : x.pub = p /\ x.of = c.of
     THEN /\ chest' = chest - sum
          /\ contrib' = {c \in contrib : c.pub # p \/ Line(c.of) = {}} \cup lines
          /\ got' = [l \in Listings |-> got[l] + Amounts(Line(l))]
          /\ adv' = [l \in Listings |->
                       IF Line(l) = {} THEN adv[l]
                       ELSE [due |-> 0, back |-> adv[l].back + adv[l].due]]
          /\ pub' = [pub EXCEPT ![p].shared = desk[d].kg]
          /\ Twist(d, Breakdown(p))
     ELSE UNCHANGED <<pub, contrib, adv, got, chest, twist>>
  /\ Answer(d)
  /\ UNCHANGED listing

SaleInit ==
  /\ listing = [l \in Listings |-> NoListing]
  /\ pub = [p \in Pubs |-> NoPub]
  /\ contrib = {}
  /\ adv = [l \in Listings |-> [due |-> 0, back |-> 0]]
  /\ got = [l \in Listings |-> 0]
  /\ chest = Funds
  /\ desk = [d \in Desks |-> NoOrder]
  /\ twist = {}

SaleNext ==
  \/ \E l \in Listings, kg \in Declared :
       InsertListing(l, kg) \/ CheckListing(l, "update", kg)
  \/ AttachListing \/ UpdateListing \/ DeleteListing
  \/ \E l \in Listings :
       \/ CheckListing(l, "delete", 0)
       \/ \E d \in Staff : \/ CheckReject(d, l) \/ CheckAdvance(d, l)
                          \/ \E kg \in Weights : CheckValidate(d, l, kg)
  \/ \E d \in Staff :
       \/ Judge(d) \/ AggregateFails(d) \/ PayAdvance(d) \/ Distribute(d)
       \/ \E ls \in SUBSET Listings : CheckAggregate(d, ls)
       \/ \E p \in Pubs : Aggregate(d, p) \/ CheckDistribute(d, p)
  \/ \E p \in Pubs :
       \/ DeletePublicationCoop(p)
       \/ \E kg \in Lots : SellPublication(p, kg)

SaleSpec == SaleInit /\ [][SaleNext]_saleVars

-----------------------------------------------------------------------------
(* Properties                                                              *)

SaleTypeOK ==
  /\ listing \in [Listings -> [coop : CoopStatus \cup {"GONE"}, kg : Nat, weighed : Nat]]
  /\ pub \in [Pubs -> [at : {"NONE", "ACTIVE", "SOLD", "DELETED"}, kg : Nat, sold : Nat,
                       shared : Int]]
  /\ \A c \in contrib : c.pub \in Pubs /\ c.of \in Listings /\ c.part \in Nat
                        /\ c.amount \in Nat /\ c.gross \in Nat /\ c.paid \in BOOLEAN
  /\ adv \in [Listings -> [due : Nat, back : Nat]]
  /\ got \in [Listings -> Nat] /\ chest \in Nat
  /\ twist \subseteq {"overlap", "deleted", "late"}

\* The kilos of a listing are sold through one publication only, while
\* validations, refusals and aggregations follow each other in any order; but
\* for requests that overlap and a publication that was deleted
AggregatedOnce ==
  "overlap" \notin twist =>
    \A c, e \in contrib : c.of = e.of => c.pub = e.pub

\* What distributions credited to a member is what his contributions record:
\* no share is paid twice, however often a publication is distributed
SharePaidOnce ==
  twist = {} => \A l \in Listings :
    got[l] = Amounts({c \in contrib : c.of = l})

\* A member ends with his share or his advances, whichever is more: an advance
\* is deducted once and the two are never both paid; but for an advance paid
\* after the distribution
AdvanceDeducted ==
  twist = {} => \A c \in contrib :
    c.paid => c.amount = Max({0, c.gross - adv[c.of].back}) /\ adv[c.of].due = 0

\* The shares add up to what was to be distributed, to half a franc each and half of the
\* fourth decimal of a part: the cooperative keeps its commission
SharesAddUp ==
  twist = {} => \A p \in Pubs :
    LET cs == {c \in contrib : c.pub = p /\ c.paid}
        total == SumFunctionOnSet([c \in cs |-> c.gross], cs)
        slack == Cardinality(cs) * (10000 + pub[p].shared) IN
    pub[p].shared >= 0 /\ cs # {} =>
      20000 * total \in 20000 * pub[p].shared - slack .. 20000 * pub[p].shared + slack

\* The advances on a listing stay within its value
AdvanceWithinValue ==
  twist = {} => \A l \in Listings :
    listing[l].coop \in {"VALIDATED", "INCLUDED"} /\ listing[l].weighed >= listing[l].kg
      => adv[l].due <= Price * listing[l].weighed

\* A distribution shares what the publication sold for ("Total reçu = quantité
\* vendue × prix unitaire")
SharesOfSales ==
  twist = {} => \A p \in Pubs :
    pub[p].shared >= 0 =>
      LET total == pub[p].sold * Price IN pub[p].shared = total - Rounded(total * Rate, 100)

\* From the listing to the share: kilos are aggregated once, advances stay within what
\* they are advanced on and are deducted, and shares add up and are paid once
SaleSafety ==
  SaleTypeOK /\ AggregatedOnce /\ SharePaidOnce /\ AdvanceDeducted /\ SharesAddUp
  /\ AdvanceWithinValue

=============================================================================
