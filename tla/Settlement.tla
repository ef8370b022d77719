----------------------------- MODULE Settlement -----------------------------
(***************************************************************************)
(* What the escrow promises about one payment, whatever requests it takes: *)
(* it is made for one order and taken once, which opens its claims; claims *)
(* are closed together with others of their order only, and a closed claim *)
(* is never open again.  EscrowLedger is shown to implement it.            *)
(***************************************************************************)
CONSTANTS Orders, NoOrder, Payments, Kinds

VARIABLES
  owner,  \* the order of each payment
  taken,  \* the payments whose money was taken
  claim   \* of each payment and kind: "none", "open" or "closed"

settlementVars == <<owner, taken, claim>>

Claims == Payments \X Kinds

Init ==
  /\ owner = [i \in Payments |-> NoOrder]
  /\ taken = {}
  /\ claim = [c \in Claims |-> "none"]

\* A payment is for one order, from the beginning
Register(i, o) ==
  /\ owner[i] = NoOrder
  /\ owner' = [owner EXCEPT ![i] = o]
  /\ UNCHANGED <<taken, claim>>

\* Its money is taken once; the claim of the seller is opened, and others of its kinds
Take(i, kinds) ==
  /\ owner[i] # NoOrder /\ i \notin taken
  /\ "PRODUCT" \in kinds
  /\ taken' = taken \cup {i}
  /\ claim' = [c \in Claims |-> IF c[1] = i /\ c[2] \in kinds THEN "open" ELSE claim[c]]
  /\ UNCHANGED owner

\* A settlement closes claims of one order, each of which was opened
Close(o, closed) ==
  /\ \A c \in closed : owner[c[1]] = o /\ claim[c] # "none"
  /\ claim' = [c \in Claims |-> IF c \in closed THEN "closed" ELSE claim[c]]
  /\ UNCHANGED <<owner, taken>>

Next ==
  \/ \E i \in Payments, o \in Orders : Register(i, o)
  \/ \E i \in Payments, kinds \in SUBSET Kinds : Take(i, kinds)
  \/ \E o \in Orders, closed \in SUBSET Claims : Close(o, closed)

Spec == Init /\ [][Next]_settlementVars
=============================================================================
