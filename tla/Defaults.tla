------------------------------ MODULE Defaults ------------------------------
(***************************************************************************)
(* A list of which one row is the default, in two versions: the delivery   *)
(* addresses of a buyer and the payment methods of a user.  Nothing in the *)
(* database says there is one default: each write clears the other         *)
(* defaults, in a READ COMMITTED transaction that sees only what was       *)
(* committed when it looked for them.                                      *)
(***************************************************************************)
EXTENDS Naturals, FiniteSets

CONSTANTS
  Entries,  \* 1..n: rows of one user, in the order of their creation
  Edits     \* requests in flight

VARIABLES
  book,     \* "address" (buyer_addresses) or "moyen" (moyen_de_payement)
  entry,    \* the rows: is_active, is_default
  edit,     \* the request in each hand
  waived,   \* history: the user asked for a row not to be the default
  mixed     \* history: overlaps the code does not meet

\* The rows are numbered
ASSUME DefaultsAssumption == IsFiniteSet(Entries) /\ Entries \subseteq Nat \ {0}

defaultsVars == <<book, entry, edit, waived, mixed>>

NoEntry == [there |-> FALSE, active |-> FALSE, default |-> FALSE]
NoEdit == [do |-> "idle", of |-> 0, default |-> FALSE, clear |-> {}]
EditDos == {"idle", "create", "update", "remove"}

Made == {e \in Entries : entry[e].there}
ActiveRows == {e \in Made : entry[e].active}
DefaultRows == {e \in Made : entry[e].default}
EditFree(h) == edit[h].do = "idle"
Begun(h, do, e, default, clear) ==
  edit' = [edit EXCEPT ![h] = [do |-> do, of |-> e, default |-> default, clear |-> clear]]
EditEnds(h) == edit' = [edit EXCEPT ![h] = NoEdit]
Waive(default) == waived' = (waived \/ ~default)

\* Two that make a default (a removal hands it on), and a removal beside anything
Mixes(do, default) ==
  LET under == {h \in Edits : edit[h].do # "idle"} IN
  mixed' = mixed
    \cup (IF default /\ \E h \in under : edit[h].default THEN {"defaults"} ELSE {})
    \cup (IF \E h \in under : "remove" \in {do, edit[h].do} THEN {"removals"} ELSE {})

-----------------------------------------------------------------------------

\* Mutant: a first address is not made the default
FirstIsNot(asked) == asked = "yes"

\* BuyerAddressesService.create makes the first address the default if not told;
\* addMoyenPayement does not
AsDefault(asked) ==
  \/ asked = "yes"
  \/ asked = "unset" /\ book = "address" /\ ActiveRows = {}

\* Mutant: the other defaults stay
ClearsNothing(e, default) == {}

\* updateMany is_default FALSE, of what is the default and committed now
Clears(e, default) == IF default THEN DefaultRows \ {e} ELSE {}

\* create, addMoyenPayement: the others are cleared ...
BeginCreate(h, asked) ==
  LET default == AsDefault(asked) IN
  /\ EditFree(h)
  /\ Begun(h, "create", 0, default, Clears(0, default))
  /\ Mixes("create", default)
  /\ waived' = (waived \/ asked = "no")
  /\ UNCHANGED <<book, entry>>

\* ... and the row is inserted
CommitCreate(h, e) ==
  /\ edit[h].do = "create"
  /\ e \notin Made /\ \A d \in Entries : d < e => d \in Made
  /\ entry' = [d \in Entries |->
       IF d = e THEN [there |-> TRUE, active |-> TRUE, default |-> edit[h].default]
       ELSE IF d \in edit[h].clear THEN [entry[d] EXCEPT !.default = FALSE] ELSE entry[d]]
  /\ EditEnds(h)
  /\ UNCHANGED <<book, waived, mixed>>

\* update, updateMoyenPayement with is_default: an address has to be active
BeginUpdate(h, e, default) ==
  /\ EditFree(h) /\ e \in Made
  /\ book = "address" => e \in ActiveRows
  /\ Begun(h, "update", e, default, Clears(e, default))
  /\ Mixes("update", default)
  /\ Waive(default)
  /\ UNCHANGED <<book, entry>>

CommitUpdate(h) ==
  /\ edit[h].do = "update"
  /\ entry' = [d \in Entries |->
       IF d = edit[h].of THEN [entry[d] EXCEPT !.default = edit[h].default]
       ELSE IF d \in edit[h].clear THEN [entry[d] EXCEPT !.default = FALSE] ELSE entry[d]]
  /\ EditEnds(h)
  /\ UNCHANGED <<book, waived, mixed>>

\* updateMoyenPayement with is_active alone
SwitchMoyen(e, active) ==
  /\ book = "moyen" /\ e \in Made
  /\ entry' = [entry EXCEPT ![e].active = active]
  /\ UNCHANGED <<book, edit, waived, mixed>>

\* remove, deleteMoyenPayement: the row is read; a payment method may be inactive
BeginRemove(h, e) ==
  /\ EditFree(h) /\ e \in Made
  /\ book = "address" => e \in ActiveRows
  /\ Begun(h, "remove", e, entry[e].default, {})
  /\ Mixes("remove", entry[e].default)
  /\ UNCHANGED <<book, entry, waived>>

\* Mutant: the address removed last may take its place
FallbacksOfAll(e) == Made \ {e}

Fallbacks(e) == ActiveRows \ {e}

\* ... and switched off; the latest active address takes the place of a default one
CommitRemove(h) ==
  LET e == edit[h].of
      heirs == IF book = "address" /\ edit[h].default THEN Fallbacks(e) ELSE {}
  IN
  /\ edit[h].do = "remove"
  /\ entry' = [d \in Entries |->
       IF d = e THEN [entry[d] EXCEPT !.active = FALSE, !.default = FALSE]
       ELSE IF d \in heirs /\ \A o \in heirs : o <= d
       THEN [entry[d] EXCEPT !.default = TRUE] ELSE entry[d]]
  /\ EditEnds(h)
  /\ UNCHANGED <<book, waived, mixed>>

DefaultsInit ==
  /\ book \in {"address", "moyen"}
  /\ entry = [e \in Entries |-> NoEntry]
  /\ edit = [h \in Edits |-> NoEdit]
  /\ waived = FALSE
  /\ mixed = {}

DefaultsNext ==
  \/ \E h \in Edits :
       \/ \E asked \in {"yes", "no", "unset"} : BeginCreate(h, asked)
       \/ \E e \in Entries :
            \/ CommitCreate(h, e)
            \/ BeginRemove(h, e)
            \/ \E default \in BOOLEAN : BeginUpdate(h, e, default)
       \/ CommitUpdate(h) \/ CommitRemove(h)
  \/ \E e \in Entries, active \in BOOLEAN : SwitchMoyen(e, active)

DefaultsSpec == DefaultsInit /\ [][DefaultsNext]_defaultsVars

-----------------------------------------------------------------------------
(* Properties                                                              *)

\* Types; an address that was removed is not the default, unless a removal overlapped
\* another request
DefaultsTypeOK ==
  /\ book \in {"address", "moyen"} /\ waived \in BOOLEAN
  /\ mixed \subseteq {"defaults", "removals"}
  /\ entry \in [Entries -> [there : BOOLEAN, active : BOOLEAN, default : BOOLEAN]]
  /\ \A h \in Edits : edit[h].do \in EditDos /\ edit[h].clear \subseteq Made
  /\ book = "address" /\ "removals" \notin mixed => DefaultRows \subseteq ActiveRows

\* There is one default at most ("1 seule défaut par user"), unless two requests that
\* make a default overlapped
OneDefault == "defaults" \notin mixed => Cardinality(DefaultRows) <= 1

\* A buyer with addresses has a default one, as long as he never asked for one not to
\* be and nothing overlapped: creations and removals hand it on
SomeDefault ==
  book = "address" /\ ~waived /\ mixed = {} /\ ActiveRows # {} => DefaultRows # {}

\* Of the addresses or payment methods one is the default, as creations, updates and
\* removals hand it on
DefaultsSafety == DefaultsTypeOK /\ OneDefault /\ SomeDefault

=============================================================================
