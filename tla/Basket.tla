------------------------------ MODULE Basket ------------------------------
(***************************************************************************)
(* What a buyer keeps before he orders: his basket, PanierService, and his *)
(* favourites, InteractionsService.  The listing is read first, then the   *)
(* basket is written, while its seller changes or deletes it.              *)
(***************************************************************************)
EXTENDS Integers, FiniteSets

CONSTANTS
  Wares,      \* annonces_vente
  Stocks,     \* quantite_kg a seller may set
  Prices,     \* prix_par_kg a seller may set
  Helpings,   \* kilograms a request adds
  Shoppers,   \* requests of the buyer in flight
  MaxEdits    \* bound on the changes of a listing

VARIABLES
  ware,       \* the listings: status, quantite_kg, prix_par_kg, the changes made
  hasBasket,  \* the row of panier, unique per user
  item,       \* panier_items, unique per listing: quantite_kg, prix_unitaire
  likes,      \* favoris, unique per listing
  cart,       \* the request in each hand
  dated,      \* history: listings that changed since one was put in the basket, or under it
  toggles     \* history: the answers "added" less the answers "removed", per listing

\* Kilograms are counted in whole units
ASSUME BasketAssumption == Stocks \subseteq Nat /\ Helpings \subseteq Nat

basketVars == <<ware, hasBasket, item, likes, cart, dated, toggles>>

NoItem == [kg |-> 0, price |-> 0]
NoCart == [do |-> "idle", of |-> "none", kg |-> 0, stock |-> 0, price |-> 0]

OnSale(w) == ware[w].status = "ACTIVE"
Listed(w) == ware[w].status # "DELETED"
Resting(r) == cart[r].do = "idle"
Leaves(r) == cart' = [cart EXCEPT ![r] = NoCart]

-----------------------------------------------------------------------------
(* The seller                                                              *)

\* updateAnnonceVente: quantity, price or status; a sale takes from the quantity too
EditWare(w, stock, price, status) ==
  /\ Listed(w) /\ ware[w].edits < MaxEdits
  /\ ware' = [ware EXCEPT ![w] = [status |-> status, stock |-> stock, price |-> price,
                                  edits |-> @.edits + 1]]
  /\ dated' = dated \cup {w}
  /\ UNCHANGED <<hasBasket, item, likes, cart, toggles>>

\* Mutant: the items of a deleted listing stay in the baskets
DeleteWareOnly(w) ==
  /\ Listed(w)
  /\ ware' = [ware EXCEPT ![w].status = "DELETED"]
  /\ likes' = likes \ {w} /\ toggles' = [toggles EXCEPT ![w] = 0]
  /\ UNCHANGED <<hasBasket, item, cart, dated>>

\* deleteAnnonceVente: items and favourites go with it
DeleteWare(w) ==
  /\ Listed(w)
  /\ ware' = [ware EXCEPT ![w].status = "DELETED"]
  /\ item' = [item EXCEPT ![w] = NoItem]
  /\ likes' = likes \ {w} /\ toggles' = [toggles EXCEPT ![w] = 0]
  /\ UNCHANGED <<hasBasket, cart, dated>>

-----------------------------------------------------------------------------
(* The basket                                                              *)

\* getMonPanier makes the row; of two that cross, the unique index refuses one
OpenBasket ==
  /\ ~hasBasket
  /\ hasBasket' = TRUE
  /\ UNCHANGED <<ware, item, likes, cart, dated, toggles>>

\* ajouterArticle: the listing is active and has as much
BeginAdd(r, w, kg) ==
  /\ Resting(r) /\ OnSale(w) /\ kg <= ware[w].stock
  /\ cart' = [cart EXCEPT ![r] = [do |-> "add", of |-> w, kg |-> kg,
                                  stock |-> ware[w].stock, price |-> ware[w].price]]
  /\ dated' = IF item[w].kg = 0 /\ \A q \in Shoppers : cart[q].of # w THEN dated \ {w} ELSE dated
  /\ UNCHANGED <<ware, hasBasket, item, likes, toggles>>

\* Mutant: what the basket holds already is not counted
OvershootOne(r) == cart[r].kg > cart[r].stock

\* the sum exceeds the quantity read before
Overshoot(r) == item[cart[r].of].kg + cart[r].kg > cart[r].stock

\* ... then, in a transaction, basket and item are written: refused when the sum is too
\* much, or the listing is gone
AddItem(r) ==
  LET c == cart[r] IN
  /\ c.do = "add" /\ Listed(c.of) /\ ~Overshoot(r)
  /\ hasBasket' = TRUE
  /\ item' = [item EXCEPT ![c.of] = [kg |-> @.kg + c.kg, price |-> c.price]]
  /\ Leaves(r)
  /\ UNCHANGED <<ware, likes, dated, toggles>>

RefuseItem(r) ==
  /\ cart[r].do = "add" /\ (~Listed(cart[r].of) \/ Overshoot(r))
  /\ Leaves(r)
  /\ UNCHANGED <<ware, hasBasket, item, likes, dated, toggles>>

\* supprimerArticle
RemoveItem(w) ==
  /\ item[w].kg > 0
  /\ item' = [item EXCEPT ![w] = NoItem]
  /\ UNCHANGED <<ware, hasBasket, likes, cart, dated, toggles>>

-----------------------------------------------------------------------------
(* Favourites                                                              *)

\* toggleFavori: the insertion succeeds ...
Like(w) ==
  /\ Listed(w) /\ w \notin likes
  /\ likes' = likes \cup {w}
  /\ toggles' = [toggles EXCEPT ![w] = @ + 1]
  /\ UNCHANGED <<ware, hasBasket, item, cart, dated>>

\* ... or the unique index refuses it ...
BeginUnlike(r, w) ==
  /\ Resting(r) /\ w \in likes
  /\ cart' = [cart EXCEPT ![r] = [NoCart EXCEPT !.do = "unlike", !.of = w]]
  /\ UNCHANGED <<ware, hasBasket, item, likes, dated, toggles>>

\* Mutant: a row that is gone counts as removed
EndUnlikeAnyway(r) ==
  LET w == cart[r].of IN
  /\ cart[r].do = "unlike"
  /\ likes' = likes \ {w}
  /\ toggles' = [toggles EXCEPT ![w] = @ - 1]
  /\ Leaves(r)
  /\ UNCHANGED <<ware, hasBasket, item, dated>>

\* ... and the row is deleted, an error when another request did it
EndUnlike(r) ==
  LET w == cart[r].of IN
  /\ cart[r].do = "unlike"
  /\ likes' = likes \ {w}
  /\ toggles' = [toggles EXCEPT ![w] = IF w \in likes THEN @ - 1 ELSE @]
  /\ Leaves(r)
  /\ UNCHANGED <<ware, hasBasket, item, dated>>

BasketInit ==
  /\ ware \in [Wares -> [status : {"ACTIVE"}, stock : Stocks, price : Prices, edits : {0}]]
  /\ hasBasket = FALSE
  /\ item = [w \in Wares |-> NoItem]
  /\ likes = {} /\ dated = {}
  /\ cart = [r \in Shoppers |-> NoCart]
  /\ toggles = [w \in Wares |-> 0]

BasketNext ==
  \/ OpenBasket
  \/ \E w \in Wares :
       \/ DeleteWare(w) \/ RemoveItem(w) \/ Like(w)
       \/ \E stock \in Stocks, price \in Prices, status \in {"ACTIVE", "SUSPENDED"} :
            EditWare(w, stock, price, status)
       \/ \E r \in Shoppers :
            \/ BeginUnlike(r, w)
            \/ \E kg \in Helpings : BeginAdd(r, w, kg)
  \/ \E r \in Shoppers : AddItem(r) \/ RefuseItem(r) \/ EndUnlike(r)

BasketSpec == BasketInit /\ [][BasketNext]_basketVars

-----------------------------------------------------------------------------
(* Properties                                                              *)

\* Types; an item lies in a basket and is of a listing that exists
BasketTypeOK ==
  /\ \A w \in Wares : item[w].kg > 0 => hasBasket /\ Listed(w)
  /\ \A w \in likes : Listed(w)
  /\ \A r \in Shoppers : cart[r].do \in {"idle", "add", "unlike"}

\* However many requests add to it, the basket holds no more of a listing than its
\* stock, at its price, unless the listing changed since
BasketCovered ==
  \A w \in Wares \ dated :
    item[w].kg > 0 => item[w].kg <= ware[w].stock /\ item[w].price = ware[w].price

\* A favourite is one that the answers of its toggles say it is, even when they crossed
LikesAsAnswered == \A w \in Wares : toggles[w] = IF w \in likes THEN 1 ELSE 0

\* The basket holds what is on sale, no more than the stock, and favourites are what the
\* answers of their toggles say
BasketSafety == BasketTypeOK /\ BasketCovered /\ LikesAsAnswered

=============================================================================
