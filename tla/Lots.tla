-------------------------------- MODULE Lots --------------------------------
(***************************************************************************)
(* StockService: lots and the warehouses they are kept in, behind guards   *)
(* that believe the access token.  A token carries the role and the        *)
(* cooperative its user had when it was issued, and nothing revokes it     *)
(* before it expires, so a farmer removed from a cooperative still speaks  *)
(* for it until then.  Every handler reads first and writes, or reads      *)
(* again, in a second statement.                                           *)
(***************************************************************************)
EXTENDS Integers, FiniteSets

CONSTANTS
  Farmers,
  Coops,     \* cooperatives, each with the account that has its name
  LotRows,   \* rows of lots
  Houses,    \* rows of entrepots
  Clients,   \* requests in flight
  Lifetime,  \* life of an access token, in ticks of the clock
  Nobody,
  Gone       \* the owner of a warehouse that was deleted

ASSUME LotsAssumption ==
  /\ Farmers \cap Coops = {} /\ Lifetime \in Nat \ {0}
  /\ {Nobody, Gone} \cap (Farmers \cup Coops) = {} /\ Nobody # Gone

VARIABLES
  coopOf,  \* the cooperative of each farmer
  left,    \* history: ticks since a farmer was last in each cooperative
  token,   \* the access token each user holds: its claims and its age
  lot,     \* farmer_id, cooperative_id
  house,   \* owner_id
  stock,   \* which lots are kept in which warehouse
  asking     \* the requests in flight

lotsVars == <<coopOf, left, token, lot, house, stock, asking>>

People == Farmers \cup Coops
RoleOf(u) == IF u \in Farmers THEN "FARMER" ELSE "COOPERATIVE"
CoopNow(u) == IF u \in Farmers THEN coopOf[u] ELSE u

NoLot == [state |-> "new", farmer |-> Nobody, coop |-> Nobody]
NoToken == [held |-> FALSE, coop |-> Nobody, age |-> 0]
Idle == [state |-> "idle", who |-> Nobody, of |-> Nobody]

LotsInit ==
  /\ coopOf \in [Farmers -> Coops \cup {Nobody}]
  /\ left = [f \in Farmers |-> [c \in Coops |-> IF coopOf[f] = c THEN 0 ELSE Lifetime]]
  /\ token = [u \in People |-> NoToken]
  /\ lot = [l \in LotRows |-> NoLot]
  /\ house = [h \in Houses |-> Nobody]
  /\ stock = {}
  /\ asking = [x \in Clients |-> Idle]

\* Mutant: the cooperative it had, if it had one
ClaimOfBefore(u) == IF token[u].held THEN token[u].coop ELSE CoopNow(u)

\* genererTokens: cooperative_id
Claim(u) == CoopNow(u)

\* A login, or a refresh
IssueToken(u) ==
  /\ token' = [token EXCEPT ![u] = [held |-> TRUE, coop |-> Claim(u), age |-> 0]]
  /\ UNCHANGED <<coopOf, left, lot, house, stock, asking>>

\* JwtAuthGuard: signature and expiry
Valid(u) == token[u].held /\ token[u].age < Lifetime

\* The token gets older, and so does the day a farmer left
ClockTick ==
  /\ \A x \in Clients : asking[x].state = "idle"
  /\ token' = [u \in People |->
                 IF token[u].held /\ token[u].age < Lifetime
                   THEN [token[u] EXCEPT !.age = @ + 1] ELSE token[u]]
  /\ left' = [f \in Farmers |-> [c \in Coops |->
                IF coopOf[f] = c \/ left[f][c] = Lifetime THEN left[f][c] ELSE left[f][c] + 1]]
  /\ UNCHANGED <<coopOf, lot, house, stock, asking>>

\* Membership: a farmer joins, or leaves
JoinCoop(f, c) ==
  /\ coopOf[f] = Nobody
  /\ coopOf' = [coopOf EXCEPT ![f] = c] /\ left' = [left EXCEPT ![f][c] = 0]
  /\ UNCHANGED <<token, lot, house, stock, asking>>

LeaveCoop(f) ==
  /\ coopOf[f] # Nobody /\ coopOf' = [coopOf EXCEPT ![f] = Nobody]
  /\ UNCHANGED <<left, token, lot, house, stock, asking>>

\* Mutant: a member's lot is its cooperative's too
NewLotOfBoth(u) ==
  [state |-> "in", farmer |-> IF RoleOf(u) = "FARMER" THEN u ELSE Nobody, coop |-> token[u].coop]

\* INDIVIDUAL for a farmer, COOPERATIVE for a cooperative
NewLot(u) ==
  [state |-> "in", farmer |-> IF RoleOf(u) = "FARMER" THEN u ELSE Nobody,
   coop |-> IF RoleOf(u) = "COOPERATIVE" THEN token[u].coop ELSE Nobody]

CreateLot(u, l) ==
  /\ Valid(u) /\ lot[l].state = "new"
  /\ lot' = [lot EXCEPT ![l] = NewLot(u)]
  /\ UNCHANGED <<coopOf, left, token, house, stock, asking>>

\* The lots of the farmer, and those of the cooperative when the token names one
HasLot(u, l) ==
  /\ lot[l].state = "in"
  /\ lot[l].farmer = u \/ (token[u].coop # Nobody /\ lot[l].coop = token[u].coop)

\* updateLot, deleteLot: findFirst among the farmer's lots and those of its cooperative ...
FindLot(x, u, l) ==
  /\ asking[x].state = "idle" /\ Valid(u) /\ HasLot(u, l)
  /\ \E s \in {"updating", "deleting"} :
       asking' = [asking EXCEPT ![x] = [state |-> s, who |-> u, of |-> l]]
  /\ UNCHANGED <<coopOf, left, token, lot, house, stock>>

\* ... then update, which fails when it has gone ...
UpdateLot(x) ==
  /\ asking[x].state = "updating" /\ asking' = [asking EXCEPT ![x] = Idle]
  /\ UNCHANGED <<coopOf, left, token, lot, house, stock>>

\* ... or delete; its place in a warehouse stays, with no lot
DeleteLot(x) ==
  /\ asking[x].state = "deleting" /\ asking' = [asking EXCEPT ![x] = Idle]
  /\ lot' = [lot EXCEPT ![asking[x].of].state = "gone"]
  /\ stock' = {s \in stock : s[2] # asking[x].of}
  /\ UNCHANGED <<coopOf, left, token, house>>

CreateHouse(u, h) ==
  /\ Valid(u) /\ house[h] = Nobody /\ house' = [house EXCEPT ![h] = u]
  /\ UNCHANGED <<coopOf, left, token, lot, stock, asking>>

\* deleteEntrepot, by its owner; refused by the foreign key while it keeps something
DeleteHouse(u, h) ==
  /\ Valid(u) /\ house[h] = u /\ \A s \in stock : s[1] # h
  /\ house' = [house EXCEPT ![h] = Gone]
  /\ UNCHANGED <<coopOf, left, token, lot, stock, asking>>

\* environment: the rows of stock, which nothing here writes
Keep(h, l) ==
  /\ house[h] \in People /\ lot[l].state = "in" /\ \A s \in stock : s[2] # l
  /\ stock' = stock \cup {<<h, l>>}
  /\ UNCHANGED <<coopOf, left, token, lot, house, asking>>

TakeOut(h, l) ==
  /\ <<h, l>> \in stock /\ stock' = stock \ {<<h, l>>}
  /\ UNCHANGED <<coopOf, left, token, lot, house, asking>>

\* A lot of this cooperative is kept there
KeepsLotOf(h, coop) == \E s \in stock : s[1] = h /\ lot[s[2]].coop = coop

\* Mutant: whoever speaks for the cooperative
MayOpenAsMember(u, h) ==
  house[h] = u \/ (token[u].coop # Nobody /\ KeepsLotOf(h, token[u].coop))

\* ownsEntrepot
MayOpen(u, h) ==
  \/ house[h] = u
  \/ RoleOf(u) = "COOPERATIVE" /\ token[u].coop # Nobody /\ KeepsLotOf(h, token[u].coop)

\* listLotsByEntrepot: the owner of the warehouse, or a cooperative with a lot in it ...
OpenHouse(x, u, h) ==
  /\ asking[x].state = "idle" /\ Valid(u) /\ house[h] \in People /\ MayOpen(u, h)
  /\ asking' = [asking EXCEPT ![x] = [state |-> "opening", who |-> u, of |-> h]]
  /\ UNCHANGED <<coopOf, left, token, lot, house, stock>>

\* ... is shown every lot it keeps by then
LotsShown(x) == {l \in LotRows : <<asking[x].of, l>> \in stock}

ListLots(x) ==
  /\ asking[x].state = "opening" /\ asking' = [asking EXCEPT ![x] = Idle]
  /\ UNCHANGED <<coopOf, left, token, lot, house, stock>>

LotsNext ==
  \/ ClockTick
  \/ \E f \in Farmers : LeaveCoop(f) \/ \E c \in Coops : JoinCoop(f, c)
  \/ \E u \in People :
       \/ IssueToken(u)
       \/ \E l \in LotRows : CreateLot(u, l) \/ \E x \in Clients : FindLot(x, u, l)
       \/ \E h \in Houses :
            CreateHouse(u, h) \/ DeleteHouse(u, h) \/ \E x \in Clients : OpenHouse(x, u, h)
  \/ \E h \in Houses, l \in LotRows : Keep(h, l) \/ TakeOut(h, l)
  \/ \E x \in Clients : UpdateLot(x) \/ DeleteLot(x) \/ ListLots(x)

LotsSpec == LotsInit /\ [][LotsNext]_lotsVars

-----------------------------------------------------------------------------

\* Every lot is a farmer's or a cooperative's, and never both.
LotsTypeOK ==
  /\ coopOf \in [Farmers -> Coops \cup {Nobody}]
  /\ token \in [People -> [held : BOOLEAN, coop : Coops \cup {Nobody}, age : 0 .. Lifetime]]
  /\ \A l \in LotRows : lot[l].state # "new" =>
       \/ lot[l].farmer \in Farmers /\ lot[l].coop = Nobody
       \/ lot[l].farmer = Nobody /\ lot[l].coop \in Coops
  /\ house \in [Houses -> People \cup {Nobody, Gone}]
  /\ \A s \in stock : house[s[1]] \in People

\* Whoever changes or deletes a lot is its farmer, its cooperative, or a farmer who was a
\* member of that cooperative less than the life of a token ago.
SpeaksForItself ==
  \A x \in Clients : asking[x].state \in {"updating", "deleting"} =>
    LET u == asking[x].who  l == lot[asking[x].of] IN
      l.farmer = u \/ l.coop = u \/ (u \in Farmers /\ l.coop \in Coops /\ left[u][l.coop] < Lifetime)

\* Whoever is shown the lots of a warehouse has it, even when it changed after the check;
\* a cooperative may also be shown those of others, where it had a lot when it asked.
OpensOwnWarehouse ==
  \A x \in Clients : asking[x].state = "opening" /\ LotsShown(x) # {} =>
    asking[x].who \in Coops \/ house[asking[x].of] = asking[x].who

\* Lots are changed by those they belong to, or did until a token's life ago, and shown to
\* those whose warehouse they are in
LotsSafety == LotsTypeOK /\ SpeaksForItself /\ OpensOwnWarehouse

=============================================================================
