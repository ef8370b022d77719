------------------------------- MODULE MCDaily -------------------------------
(***************************************************************************)
(* What users do every day beside their orders, for TLC: messages and the  *)
(* socket that announces them, notifications, telephone numbers and calls, *)
(* the collections of a cooperative, the assistant, reviews, and the daily *)
(* reminder of harvests.  They share no state here, so a behaviour is      *)
(* about one of them, its focus, and the others rest in one of their       *)
(* initial states.                                                         *)
(***************************************************************************)
EXTENDS Messaging, Gateway, Notices, Contacts, Collections, Assistant, Ratings,
        Reminder, TLC

VARIABLE focus  \* the component a behaviour is about

\* One user in two conversations
TwoTalks == {{"a", "b"}, {"b", "c"}}

\* The clients that make the requests in flight, and the shipments reviewed
Interchangeable == Permutations(Boxes) \cup Permutations(Trips)

talkVars == <<messagingVars, gatewayVars, noticesVars, contactsVars, collectionsVars>>
toolVars == <<assistantVars, ratingsVars, reminderVars>>
dailyVars == <<focus, talkVars, toolVars>>

Init ==
  /\ focus \in {"messaging", "gateway", "notices", "contacts", "collections",
                "assistant", "ratings", "reminder"}
  /\ MessagingInit /\ GatewayInit /\ NoticesInit /\ ContactsInit /\ CollectionsInit
  /\ AssistantInit /\ RatingsInit /\ ReminderInit
  /\ focus # "contacts" => role = "FARMER"
  /\ focus # "assistant" => asker = "FARMER"
  /\ focus # "reminder" => \A p \in Forecasts : forecast[p].date = 6

Next ==
  \/ /\ focus = "messaging" /\ MessagingNext
     /\ UNCHANGED <<focus, gatewayVars, noticesVars, contactsVars, collectionsVars, toolVars>>
  \/ /\ focus = "gateway" /\ GatewayNext
     /\ UNCHANGED <<focus, messagingVars, noticesVars, contactsVars, collectionsVars, toolVars>>
  \/ /\ focus = "notices" /\ NoticesNext
     /\ UNCHANGED <<focus, messagingVars, gatewayVars, contactsVars, collectionsVars, toolVars>>
  \/ /\ focus = "contacts" /\ ContactsNext
     /\ UNCHANGED <<focus, messagingVars, gatewayVars, noticesVars, collectionsVars, toolVars>>
  \/ /\ focus = "collections" /\ CollectionsNext
     /\ UNCHANGED <<focus, messagingVars, gatewayVars, noticesVars, contactsVars, toolVars>>
  \/ /\ focus = "assistant" /\ AssistantNext
     /\ UNCHANGED <<focus, talkVars, ratingsVars, reminderVars>>
  \/ /\ focus = "ratings" /\ RatingsNext
     /\ UNCHANGED <<focus, talkVars, assistantVars, reminderVars>>
  \/ /\ focus = "reminder" /\ ReminderNext
     /\ UNCHANGED <<focus, talkVars, assistantVars, ratingsVars>>

Spec == Init /\ [][Next]_dailyVars

\* Conversations and the sockets that announce them
TalkSafety == MessagingSafety /\ GatewaySafety

\* How users are reached: notifications, reminders, telephone numbers
ReachSafety == NoticesSafety /\ ReminderSafety /\ ContactsSafety

\* What is carried and how it was done: the collections of cooperatives, the reviews
CarriedSafety == CollectionsSafety /\ RatingsSafety

=============================================================================
