------------------------------ MODULE Contacts ------------------------------
(***************************************************************************)
(* What a viewer is shown of another user: the visibility that             *)
(* MaskingService resolves in up to three SELECTs, the walk of the         *)
(* MaskingInterceptor over the rows of an answer with its cache, and the   *)
(* proxy numbers that stand for a phone.  The ties between the two change  *)
(* meanwhile.                                                              *)
(***************************************************************************)
EXTENDS Naturals, FiniteSets, Sequences

CONSTANTS
  ViewerRoles,  \* a subset of the roles of users
  Rows,         \* rows of an answer that are about the observed user
  Numbers,      \* 1..n: phone_proxy_sessions of the two, in the order of their creation
  Views         \* requests in flight

ASSUME ContactsAssumption == Rows \in Nat \ {0}

VARIABLES
  role,     \* of the viewer
  tie,      \* what is between the two: a shipment the viewer carries, an order, the
            \* observed user's membership of the viewer's cooperative
  number,   \* phone_proxy_sessions: "none", "live" (ACTIVE, not expired), "expired"
  view,     \* the request in each hand
  raced     \* history: two requests created a session at once

contactsVars == <<role, tie, number, view, raced>>

Ties == {"shipment", "order", "coop"}
Ages == {"never", "now", "past"}
NoTies == [k \in Ties |-> "never"]
NoView == [do |-> "idle", call |-> FALSE, level |-> "none", since |-> NoTies, shown |-> <<>>,
           failed |-> FALSE]

LiveNumbers == {i \in Numbers : number[i] = "live"}
ViewFree(r) == view[r].do = "idle"
GoesTo(r, do) == view' = [view EXCEPT ![r].do = do]

\* The ties of a request: at some time since it began, and all that time
Was(r, k) == view[r].since[k] = "now" \/ tie[k] = "now" \/ view[r].since[k] # tie[k]
Held(r, k) == view[r].since[k] = "now" /\ tie[k] = "now"

-----------------------------------------------------------------------------
(* resolveVisibility                                                       *)

\* cooperative_members has rows for farmers only: no code inserts the user of the
\* cooperative itself
HasMembership == role = "FARMER"

\* A tie begins (an order ACCEPTED, a shipment ACCEPTED, a member accepted), then ends
TieBegins(k) ==
  /\ tie[k] = "never"
  /\ k = "shipment" => role = "TRANSPORTER"
  /\ k = "coop" => role \in {"FARMER", "COOPERATIVE"}
  /\ tie' = [tie EXCEPT ![k] = "now"]
  /\ UNCHANGED <<role, number, view, raced>>

TieEnds(k) ==
  /\ tie[k] = "now"
  /\ tie' = [tie EXCEPT ![k] = "past"]
  /\ UNCHANGED <<role, number, view, raced>>

\* Rule 3 is for transporters
FirstLook == IF role = "TRANSPORTER" THEN "shipment" ELSE "order"

\* The rules 1 and 2 need no SELECT
BeginView(r, call) ==
  /\ ViewFree(r)
  /\ view' = [view EXCEPT ![r] = [NoView EXCEPT !.call = call, !.since = tie,
       !.do = IF role = "ADMIN" THEN "row" ELSE FirstLook,
       !.level = IF role = "ADMIN" THEN "FULL" ELSE "none"]]
  /\ UNCHANGED <<role, tie, number, raced>>

Resolves(r, level) == view' = [view EXCEPT ![r].do = "row", ![r].level = level]

\* Rule 3, active shipments
LookShipment(r) ==
  /\ view[r].do = "shipment"
  /\ IF tie["shipment"] = "now" THEN Resolves(r, "FULL") ELSE GoesTo(r, "order")
  /\ UNCHANGED <<role, tie, number, raced>>

\* Rule 4, orders from ACCEPTED on
LookOrder(r) ==
  /\ view[r].do = "order"
  /\ IF tie["order"] = "now" THEN Resolves(r, "PARTIAL") ELSE GoesTo(r, "coop")
  /\ UNCHANGED <<role, tie, number, raced>>

\* Mutant: one membership is enough
SharedAny == HasMembership \/ tie["coop"] = "now"

SharedCoop == HasMembership /\ tie["coop"] = "now"

\* Rule 5, the cooperatives of both
LookCoop(r) ==
  /\ view[r].do = "coop"
  /\ Resolves(r, IF ~SharedCoop THEN "MIN"
                ELSE IF role = "COOPERATIVE" THEN "FULL" ELSE "PARTIAL")
  /\ UNCHANGED <<role, tie, number, raced>>

\* A SELECT fails: the interceptor takes MIN, a call is refused
LookFails(r) ==
  /\ view[r].do \in Ties
  /\ view' = [view EXCEPT ![r] = IF view[r].call THEN NoView
                                 ELSE [@ EXCEPT !.do = "row", !.level = "MIN", !.failed = TRUE]]
  /\ UNCHANGED <<role, tie, number, raced>>

-----------------------------------------------------------------------------
(* The rows, and the numbers                                               *)

\* Mutant: the visibility is not kept for the next row
Forgotten(r) == FirstLook

\* visibilityCache: the next row is shown as the first
NextRow(r) == "row"

\* One row is shown, or the call is answered; the ties of the request's beginning
\* have told what they had to
Shows(r) ==
  LET shown == Append(view[r].shown, view[r].level)
      over == Len(shown) = Rows
  IN view' = [view EXCEPT ![r] =
       IF view[r].call THEN NoView
       ELSE [@ EXCEPT !.shown = shown, !.since = NoTies, !.do = IF over THEN "shown" ELSE NextRow(r)]]

\* applyMaskValue: FULL shows the phone in clear, MIN cuts it to its last digits
ShowRow(r) ==
  /\ view[r].do = "row" /\ ~view[r].call /\ view[r].level # "PARTIAL"
  /\ Shows(r)
  /\ UNCHANGED <<role, tie, number, raced>>

\* Mutant: strangers may be called
CallableAnyone(level) == TRUE

Callable(level) == level # "MIN"

\* createProxyCall refuses strangers
RefuseCall(r) ==
  /\ view[r].do = "row" /\ view[r].call /\ ~Callable(view[r].level)
  /\ view' = [view EXCEPT ![r] = NoView]
  /\ UNCHANGED <<role, tie, number, raced>>

\* Mutant: a session is never reused
ReusableNone == {}

\* findFirst, ACTIVE and not expired
Reusable == LiveNumbers

\* getOrCreateProxyNumber: a session is reused ...
FindNumber(r) ==
  /\ view[r].do = "row"
  /\ IF view[r].call THEN Callable(view[r].level) ELSE view[r].level = "PARTIAL"
  /\ IF Reusable # {} THEN Shows(r) /\ UNCHANGED raced
     ELSE /\ GoesTo(r, "number")
          /\ raced' = (raced \/ \E q \in Views : view[q].do = "number")
  /\ UNCHANGED <<role, tie, number>>

\* ... or created
CreateNumber(r, i) ==
  /\ view[r].do = "number"
  /\ number[i] = "none" /\ \A j \in Numbers : j < i => number[j] # "none"
  /\ number' = [number EXCEPT ![i] = "live"]
  /\ Shows(r)
  /\ UNCHANGED <<role, tie, raced>>

\* ... unless the allocation or the INSERT fails: the phone is cut, the call refused
NoNumber(r) ==
  /\ view[r].do = "number"
  /\ IF view[r].call THEN view' = [view EXCEPT ![r] = NoView] ELSE Shows(r)
  /\ UNCHANGED <<role, tie, number, raced>>

AnswerView(r) ==
  /\ view[r].do = "shown"
  /\ view' = [view EXCEPT ![r] = NoView]
  /\ UNCHANGED <<role, tie, number, raced>>

\* expires_at passes
NumberExpires(i) ==
  /\ number[i] = "live"
  /\ number' = [number EXCEPT ![i] = "expired"]
  /\ UNCHANGED <<role, tie, view, raced>>

ContactsInit ==
  /\ role \in ViewerRoles
  /\ tie = NoTies
  /\ number = [i \in Numbers |-> "none"]
  /\ view = [r \in Views |-> NoView]
  /\ raced = FALSE

ContactsNext ==
  \/ \E k \in Ties : TieBegins(k) \/ TieEnds(k)
  \/ \E r \in Views :
       \/ \E call \in BOOLEAN : BeginView(r, call)
       \/ LookShipment(r) \/ LookOrder(r) \/ LookCoop(r) \/ LookFails(r)
       \/ ShowRow(r) \/ RefuseCall(r) \/ FindNumber(r) \/ NoNumber(r) \/ AnswerView(r)
       \/ \E i \in Numbers : CreateNumber(r, i)
  \/ \E i \in Numbers : NumberExpires(i)

ContactsSpec == ContactsInit /\ [][ContactsNext]_contactsVars

-----------------------------------------------------------------------------
(* Properties                                                              *)

\* The level was resolved, and no row was shown yet
JustResolved(r) == view[r].level # "none" /\ view[r].shown = <<>>

\* Types; a number is shown for a tie of some time only, or to an administrator
ContactsTypeOK ==
  /\ role \in ViewerRoles /\ tie \in [Ties -> Ages] /\ raced \in BOOLEAN
  /\ \A r \in Views :
       /\ view[r].do \in Ties \cup {"idle", "row", "number", "shown"}
       /\ view[r].level \in {"none", "FULL", "PARTIAL", "MIN"} /\ Len(view[r].shown) <= Rows
  /\ \A i \in Numbers : number[i] # "none" =>
       role = "ADMIN" \/ \E k \in Ties : tie[k] # "never"

\* More than MIN is for a tie that was there at some time of the request, FULL for an
\* administrator, a carrier or a cooperative; and an order that was there all that time
\* is never missed, nor a shipment by its carrier
LevelIsDue ==
  \A r \in Views : JustResolved(r) =>
    /\ view[r].level = "FULL" =>
         \/ role = "ADMIN"
         \/ role = "TRANSPORTER" /\ Was(r, "shipment")
         \/ role = "COOPERATIVE" /\ Was(r, "coop")
    /\ view[r].level = "PARTIAL" => Was(r, "order") \/ (role = "FARMER" /\ Was(r, "coop"))
    /\ ~view[r].failed =>
         /\ Held(r, "order") => view[r].level # "MIN"
         /\ Held(r, "shipment") => view[r].level = "FULL"

\* One answer shows one person in one way, whatever changes while it is built
SameThroughout ==
  \A r \in Views : \A i, j \in DOMAIN view[r].shown :
    view[r].shown[i] = view[r].shown[j]

\* The two have one number at a time, unless two requests created one at once
OneNumber == ~raced => Cardinality(LiveNumbers) <= 1

\* Nobody is shown more of a person than a tie of the request's time allows, and in one
\* answer always the same
ContactsSafety == ContactsTypeOK /\ LevelIsDue /\ SameThroughout /\ OneNumber

=============================================================================
