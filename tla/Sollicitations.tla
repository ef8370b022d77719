--------------------------- MODULE Sollicitations ---------------------------
(***************************************************************************)
(* A cooperative targeted by a purchase announcement asks its members, the *)
(* neighbouring cooperatives and the independent farmers around it who can *)
(* deliver.  Each recipient answers once; when the answers reach the       *)
(* quantity asked for the sollicitation is FULFILLED; the cooperative may  *)
(* close it before, and confirms the answers it keeps.                     *)
(*                                                                         *)
(* One sollicitation.  An operation reads and checks the row, then writes  *)
(* in a transaction, which reads again only what the code reads again.     *)
(***************************************************************************)
EXTENDS Naturals, FiniteSets, Functions

CONSTANTS
  People,       \* accounts
  Members, Neighbours, Independents,  \* the people each audience selects
  President,    \* the account that asks
  Kilos,        \* quantities a recipient may offer
  Asked,        \* annonce.quantite_kg
  Visits        \* requests in flight

VARIABLES
  call,      \* sollicitations_coop: status and totals
  answer,    \* sollicitation_recipients, by account
  visit,     \* the request in each hand
  expired,   \* expires_at is past
  toldSolli, \* recipients notified of the closing
  doubled    \* history: recipients with two requests that overlapped

\* Whoever asks asks for something
ASSUME SolliAssumption ==
  IsFiniteSet(People) /\ Kilos \subseteq Nat /\ Asked \in Nat \ {0}

solliVars == <<call, answer, visit, expired, toldSolli, doubled>>

NoAnswer == [segment |-> "NONE", action |-> "NONE", kg |-> 0, confirmed |-> FALSE]
NoVisit == [do |-> "idle", of |-> {}, kg |-> 0]

Recipients == {p \in People : answer[p].segment # "NONE"}
Responded(p) == answer[p].action # "NONE"
VisitFree(v) == visit[v].do = "idle"
VisitEnds(v) == visit' = [visit EXCEPT ![v] = NoVisit]
Visitor(v) == CHOOSE p \in People : visit[v].of = {p}

-----------------------------------------------------------------------------
(* createSollicitation                                                     *)

\* The first audience ticked that selects the account, in the order of the code
Segment(p, ticked) ==
  IF "MEMBRES" \in ticked /\ p \in Members THEN "MEMBRES"
  ELSE IF "COOPS_VOISINES" \in ticked /\ p \in Neighbours THEN "COOPS_VOISINES"
  ELSE IF "INDEPENDANTS" \in ticked /\ p \in Independents THEN "INDEPENDANTS"
  ELSE "NONE"

\* One row for each account selected, the president excluded; none is an error
CreateSollicitation(ticked) ==
  LET to == [p \in People |-> IF p = President THEN "NONE" ELSE Segment(p, ticked)] IN
  /\ call.status = "NONE" /\ \E p \in People : to[p] # "NONE"
  /\ answer' = [p \in People |-> [NoAnswer EXCEPT !.segment = to[p]]]
  /\ call' = [status |-> "OPEN", responses |-> 0, offered |-> 0]
  /\ UNCHANGED <<visit, expired, toldSolli, doubled>>

-----------------------------------------------------------------------------
(* respond                                                                 *)

\* A recipient who has not answered a sollicitation still OPEN; kg = 0 declines
CheckRespond(v, p, kg) ==
  /\ VisitFree(v) /\ p \in Recipients /\ ~Responded(p)
  /\ call.status = "OPEN" /\ ~expired
  /\ visit' = [visit EXCEPT ![v] = [do |-> "respond", of |-> {p}, kg |-> kg]]
  /\ UNCHANGED <<call, answer, expired, toldSolli, doubled>>

Counted(c, kg) == [c EXCEPT !.responses = @ + 1, !.offered = @ + kg]

\* Mutant: the quantity offered before this answer is compared
FulfilLate(c, kg) ==
  IF c.status = "OPEN" /\ c.offered >= Asked
  THEN [Counted(c, kg) EXCEPT !.status = "FULFILLED"] ELSE Counted(c, kg)

\* Mutant: the status is not read again
FulfilAnyway(c, kg) ==
  IF Counted(c, kg).offered >= Asked
  THEN [Counted(c, kg) EXCEPT !.status = "FULFILLED"] ELSE Counted(c, kg)

\* Mutant: a declined answer leaves the totals alone
FulfilAccepted(c, kg) == IF kg = 0 THEN c ELSE Counted(c, kg)

\* The row is read again after the increments
Fulfil(c, kg) ==
  IF c.status = "OPEN" /\ Counted(c, kg).offered >= Asked
  THEN [Counted(c, kg) EXCEPT !.status = "FULFILLED"] ELSE Counted(c, kg)

Respond(v) ==
  LET p == Visitor(v)
      kg == visit[v].kg IN
  /\ visit[v].do = "respond"
  /\ answer' = [answer EXCEPT ![p].action = IF kg = 0 THEN "REJECTED" ELSE "ACCEPTED",
                              ![p].kg = kg]
  /\ call' = Fulfil(call, kg)
  /\ doubled' = IF Responded(p) THEN doubled \cup {p} ELSE doubled
  /\ VisitEnds(v)
  /\ UNCHANGED <<expired, toldSolli>>

-----------------------------------------------------------------------------
(* acceptRecipientResponse and close                                       *)

\* Mutant: any answer can be confirmed
ConfirmableAny(p) == Responded(p) /\ ~answer[p].confirmed

Confirmable(p) == answer[p].action = "ACCEPTED" /\ ~answer[p].confirmed

CheckConfirm(v, p) ==
  /\ VisitFree(v) /\ p \in Recipients /\ Confirmable(p)
  /\ visit' = [visit EXCEPT ![v] = [do |-> "confirm", of |-> {p}, kg |-> 0]]
  /\ UNCHANGED <<call, answer, expired, toldSolli, doubled>>

\* Whatever the status of the sollicitation
Confirm(v) ==
  /\ visit[v].do = "confirm"
  /\ answer' = [answer EXCEPT ![Visitor(v)].action = "CONFIRMED_BY_COOP",
                              ![Visitor(v)].confirmed = TRUE]
  /\ VisitEnds(v)
  /\ UNCHANGED <<call, expired, toldSolli, doubled>>

CheckClose(v) ==
  /\ VisitFree(v) /\ call.status = "OPEN"
  /\ visit' = [visit EXCEPT ![v] = [NoVisit EXCEPT !.do = "close"]]
  /\ UNCHANGED <<call, answer, expired, toldSolli, doubled>>

\* Mutant: the filter on the sollicitation is forgotten
ToTellAll == {p \in People : ~Responded(p)}

\* Mutant: only the members are told
ToTellMembers == {p \in Recipients : ~Responded(p) /\ answer[p].segment = "MEMBRES"}

\* Who is told: the recipients without an answer when the transaction reads them
ToTell == {p \in Recipients : ~Responded(p)}

\* The status is written whatever it has become since the check
Close(v) ==
  /\ visit[v].do = "close"
  /\ call' = [call EXCEPT !.status = "CLOSED"]
  /\ toldSolli' = toldSolli \cup ToTell
  /\ VisitEnds(v)
  /\ UNCHANGED <<answer, expired, doubled>>

\* Time passes
SolliExpires ==
  /\ call.status # "NONE" /\ ~expired
  /\ expired' = TRUE
  /\ UNCHANGED <<call, answer, visit, toldSolli, doubled>>

SolliInit ==
  /\ call = [status |-> "NONE", responses |-> 0, offered |-> 0]
  /\ answer = [p \in People |-> NoAnswer]
  /\ visit = [v \in Visits |-> NoVisit]
  /\ expired = FALSE /\ toldSolli = {} /\ doubled = {}

SolliNext ==
  \/ \E ticked \in SUBSET {"MEMBRES", "COOPS_VOISINES", "INDEPENDANTS"} :
       CreateSollicitation(ticked)
  \/ SolliExpires
  \/ \E v \in Visits :
       \/ Respond(v) \/ Confirm(v) \/ CheckClose(v) \/ Close(v)
       \/ \E p \in People : \/ CheckConfirm(v, p)
                            \/ \E kg \in Kilos \cup {0} : CheckRespond(v, p, kg)

SolliSpec == SolliInit /\ [][SolliNext]_solliVars

-----------------------------------------------------------------------------
(* Properties                                                              *)

SolliTypeOK ==
  /\ call \in [status : {"NONE", "OPEN", "FULFILLED", "CLOSED"}, responses : Nat, offered : Nat]
  /\ answer \in [People -> [segment : {"NONE", "MEMBRES", "COOPS_VOISINES", "INDEPENDANTS"},
                   action : {"NONE", "ACCEPTED", "REJECTED", "CONFIRMED_BY_COOP"},
                   kg : Kilos \cup {0}, confirmed : BOOLEAN]]
  /\ visit \in [Visits -> [do : {"idle", "respond", "confirm", "close"}, of : SUBSET People,
                           kg : Kilos \cup {0}]]
  /\ expired \in BOOLEAN /\ toldSolli \subseteq Recipients /\ doubled \subseteq Recipients

\* The totals of a sollicitation are those of its recipients' answers, as long as
\* no recipient's two requests overlapped
TotalsAddUp ==
  doubled = {} =>
    /\ call.responses = Cardinality({p \in Recipients : Responded(p)})
    /\ call.offered = SumFunctionOnSet([p \in People |-> answer[p].kg], Recipients)

\* A sollicitation whose offers reach the quantity asked is never left OPEN, in
\* whatever order the answers commit
ReachedIsNotOpen == call.offered >= Asked => call.status # "OPEN"

\* A sollicitation the cooperative closed stays closed, answers under way included
ClosedStaysClosed == [][call.status = "CLOSED" => call'.status = "CLOSED"]_solliVars

\* When a sollicitation is CLOSED every recipient has answered or was told; an
\* answer that crosses the closing finds its recipient told
ClosedIsTold == call.status = "CLOSED" => \A p \in Recipients : Responded(p) \/ p \in toldSolli

\* What the cooperative confirmed is an offer: a quantity, never a refusal, but for
\* the recipient whose two requests overlapped
ConfirmedIsOffer == \A p \in Recipients \ doubled : answer[p].confirmed =>
                      answer[p].kg > 0 /\ answer[p].action = "CONFIRMED_BY_COOP"

\* The totals are those of the answers, a quantity that is reached ends the call, what was
\* confirmed was offered, and a closing leaves nobody without word
SolliSafety ==
  SolliTypeOK /\ TotalsAddUp /\ ReachedIsNotOpen /\ ClosedIsTold /\ ConfirmedIsOffer

=============================================================================
