---------------------------- MODULE Declarations ----------------------------
(***************************************************************************)
(* createPublicationCoop and createAnnonceVente: the goods are put on sale *)
(* first, then the treatments the seller declares are looked up one by one *)
(* in the catalogue of produits_traitement and written together, then a    *)
(* listing meant for a cooperative is assigned to it.  None of it is in a  *)
(* transaction: what fails half way deletes the goods, which buyers have   *)
(* seen, and the administrators work on the catalogue in the meantime.     *)
(***************************************************************************)
EXTENDS Sequences, FiniteSets

CONSTANTS
  Goods,     \* publications_stock_coop or annonces_vente
  Products,  \* produits_traitement
  Called,    \* for each name a seller may write, the products it is contained in
  Sheets     \* the declarations: sequences of products, names and Blank

\* What a seller may write for a treatment
Entries == UNION {{sheet[i] : i \in DOMAIN sheet} : sheet \in Sheets}

ASSUME DeclarationsAssumption == Sheets \subseteq Seq(Entries)

VARIABLES
  catalogue,  \* the products of the catalogue
  goods,      \* whether each is there, on sale, assigned, ordered, and its treatments
  making,     \* the request that creates it
  declared    \* history: the declaration it was made with

declarationsVars == <<catalogue, goods, making, declared>>

Blank == "neither id nor name"
BeingMade == {"resolving", "attaching", "undoing"}

Absent == [in |-> FALSE, active |-> FALSE, assigned |-> FALSE, ordered |-> FALSE, treats |-> {}]

DeclarationsInit ==
  /\ catalogue = Products
  /\ goods = [g \in Goods |-> Absent]
  /\ making = [g \in Goods |-> [state |-> "idle", todo |-> <<>>, found |-> {}, coop |-> FALSE]]
  /\ declared = [g \in Goods |-> <<>>]

\* What the market shows: listings of a cooperative's members are sold by the cooperative
OnMarket(g) == goods[g].in /\ goods[g].active /\ ~goods[g].assigned

\* INSERT INTO publications_stock_coop, annonces_vente
PutOnSale(g) ==
  /\ making[g].state = "idle"
  /\ \E sheet \in Sheets, coop \in BOOLEAN :
       /\ making' = [making EXCEPT ![g] = [state |-> "resolving", todo |-> sheet,
                                           found |-> {}, coop |-> coop]]
       /\ declared' = [declared EXCEPT ![g] = sheet]
  /\ goods' = [goods EXCEPT ![g].in = TRUE, ![g].active = TRUE]
  /\ UNCHANGED catalogue

\* Mutant: a name that is in no product's stands for itself
FoundOrName(entry) ==
  IF entry \in Products THEN {entry} \cap catalogue
  ELSE IF entry \in DOMAIN Called /\ Called[entry] \cap catalogue # {}
    THEN Called[entry] \cap catalogue
    ELSE {entry}

\* The products an entry may stand for: the one of its id, or any whose name contains it
Found(entry) ==
  IF entry \in Products THEN {entry} \cap catalogue
  ELSE IF entry \in DOMAIN Called THEN Called[entry] \cap catalogue
  ELSE {}

\* One turn of the loop over the treatments
Resolve(g) ==
  /\ making[g].state = "resolving" /\ making[g].todo # <<>>
  /\ LET entry == Head(making[g].todo) IN
       \/ \E p \in Found(entry) :
            making' = [making EXCEPT ![g].todo = Tail(@), ![g].found = @ \cup {p}]
       \/ /\ Found(entry) = {}
          /\ making' = [making EXCEPT ![g].state = "undoing"]
  /\ UNCHANGED <<catalogue, goods, declared>>

\* Mutant: those that are still there
TreatmentRowsPartly(g) == making[g].found \cap catalogue

\* createMany, all of them or, when a foreign key is refused, none
TreatmentRows(g) == making[g].found

WriteTreatments(g) ==
  /\ making[g].state = "resolving" /\ making[g].todo = <<>>
  /\ \/ /\ TreatmentRows(g) = {} \/ (goods[g].in /\ TreatmentRows(g) \subseteq catalogue)
        /\ goods' = [goods EXCEPT ![g].treats = TreatmentRows(g)]
        /\ making' = [making EXCEPT ![g].state =
                        IF making[g].coop THEN "attaching" ELSE "created"]
     \/ /\ TreatmentRows(g) # {} /\ ~(goods[g].in /\ TreatmentRows(g) \subseteq catalogue)
        /\ making' = [making EXCEPT ![g].state = "failed"]
        /\ UNCHANGED goods
  /\ UNCHANGED <<catalogue, declared>>

\* attachAnnonceToCoop, for a farmer who is an active member or not
Attach(g) ==
  /\ making[g].state = "attaching"
  /\ \/ /\ goods[g].in
        /\ goods' = [goods EXCEPT ![g].assigned = TRUE]
        /\ making' = [making EXCEPT ![g].state = "created"]
     \/ making' = [making EXCEPT ![g].state = "undoing"] /\ UNCHANGED goods
  /\ UNCHANGED <<catalogue, declared>>

\* Mutant: answered without the delete
UndoNot(g) ==
  /\ making[g].state = "undoing"
  /\ making' = [making EXCEPT ![g].state = "refused"]
  /\ UNCHANGED <<catalogue, goods, declared>>

\* delete, which an order placed in the meantime refuses, as does a delete before it
Undo(g) ==
  /\ making[g].state = "undoing"
  /\ IF goods[g].in /\ ~goods[g].ordered
       THEN /\ goods' = [goods EXCEPT ![g] = Absent]
            /\ making' = [making EXCEPT ![g].state = "refused"]
       ELSE making' = [making EXCEPT ![g].state = "failed"] /\ UNCHANGED goods
  /\ UNCHANGED <<catalogue, declared>>

\* The process stops
Interrupted(g) ==
  /\ making[g].state \in BeingMade
  /\ making' = [making EXCEPT ![g].state = "lost"]
  /\ UNCHANGED <<catalogue, goods, declared>>

\* createOrder by a buyer who has seen it
OrderGood(g) ==
  /\ OnMarket(g) /\ ~goods[g].ordered
  /\ goods' = [goods EXCEPT ![g].ordered = TRUE]
  /\ UNCHANGED <<catalogue, making, declared>>

\* updatePublicationCoop: is_active
UpdatePublication(g) ==
  /\ goods[g].in /\ \E b \in BOOLEAN : goods' = [goods EXCEPT ![g].active = b]
  /\ UNCHANGED <<catalogue, making, declared>>

\* deletePublicationCoop; orders have a foreign key on it, its treatments go with it
DeletePublication(g) ==
  /\ goods[g].in /\ ~goods[g].ordered
  /\ goods' = [goods EXCEPT ![g] = Absent]
  /\ UNCHANGED <<catalogue, making, declared>>

CreateProduct(p) ==
  /\ p \notin catalogue /\ catalogue' = catalogue \cup {p}
  /\ UNCHANGED <<goods, making, declared>>

\* Mutant: whether or not goods carry it
DeleteProductAnyway(p) ==
  /\ p \in catalogue /\ catalogue' = catalogue \ {p}
  /\ UNCHANGED <<goods, making, declared>>

\* delete of the catalogue, refused by the foreign key of the treatments declared
DeleteProduct(p) ==
  /\ p \in catalogue /\ \A g \in Goods : p \notin goods[g].treats
  /\ catalogue' = catalogue \ {p}
  /\ UNCHANGED <<goods, making, declared>>

DeclarationsNext ==
  \/ \E g \in Goods :
       \/ PutOnSale(g) \/ Resolve(g) \/ WriteTreatments(g) \/ Attach(g) \/ Undo(g)
       \/ Interrupted(g) \/ OrderGood(g) \/ UpdatePublication(g) \/ DeletePublication(g)
  \/ \E p \in Products : CreateProduct(p) \/ DeleteProduct(p)

DeclarationsSpec == DeclarationsInit /\ [][DeclarationsNext]_declarationsVars

-----------------------------------------------------------------------------

DeclarationsTypeOK ==
  /\ catalogue \subseteq Products
  /\ goods \in [Goods -> [in : BOOLEAN, active : BOOLEAN, assigned : BOOLEAN,
                          ordered : BOOLEAN, treats : SUBSET Products]]
  /\ \A g \in Goods :
       /\ making[g].state \in BeingMade \cup {"idle", "created", "refused", "failed", "lost"}
       /\ making[g].found \subseteq Products

\* Whether an entry of the declaration is among these products
Stands(entry, treats) ==
  entry \in treats \/ (entry \in DOMAIN Called /\ Called[entry] \cap treats # {})

\* The goods of a creation answered 201 carry all that was declared for them, and no
\* others carry a part of it: the treatments are all there or not at all.
AllOrNone ==
  \A g \in Goods : goods[g].in =>
    \/ \A i \in DOMAIN declared[g] : Stands(declared[g][i], goods[g].treats)
    \/ goods[g].treats = {} /\ making[g].state # "created"

\* A creation answered with a refusal leaves nothing on sale.
RefusedIsGone == \A g \in Goods : making[g].state = "refused" => ~goods[g].in

\* A treatment declared for goods stays in the catalogue, whatever administrators
\* delete while it is being written.
Catalogued == \A g \in Goods : goods[g].treats \subseteq catalogue

\* The treatments declared for goods are on them all or not at all, stay in the catalogue,
\* and what is refused is no longer on sale
DeclarationsSafety == DeclarationsTypeOK /\ AllOrNone /\ RefusedIsGone /\ Catalogued

=============================================================================
