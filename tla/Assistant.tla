----------------------------- MODULE Assistant -----------------------------
(***************************************************************************)
(* The conversations of one user with the assistant, AiAssistantService.   *)
(* chat stores the question, calls the language model, runs the tool it    *)
(* asks for and stores the answer, in separate statements.  The active     *)
(* session is the first one in the order of last_message_at, descending:   *)
(* PostgreSQL puts the sessions that never had an answer (NULL) first.     *)
(***************************************************************************)
EXTENDS Naturals, FiniteSets

CONSTANTS
  Chats,      \* 1..n: AI conversations, in the order of their creation
  Askers,     \* requests in flight
  MaxTurns,   \* bound on the questions of a conversation
  Anew        \* a request that finds no session; no conversation had an answer

ASSUME AssistantAssumption ==
  Chats \subseteq Nat /\ IsFiniteSet(Chats) /\ IsFiniteSet(Askers) /\ Anew \notin Chats

VARIABLES
  asker,      \* the role of the user
  opened,     \* the conversations made
  restarts,   \* those made by resetSession
  spoken,     \* those with a last_message_at
  recent,     \* the one among them with the latest
  turns,      \* rows of messages: questions and answers of each conversation
  turn,       \* the request in each hand
  lost,       \* history: questions whose request died, per conversation
  latecome,   \* history: an older conversation had an answer after the newest one was opened
  twice       \* history: two first requests crossed

assistantVars == <<asker, opened, restarts, spoken, recent, turns, turn, lost, latecome, twice>>

NoTurn == [at |-> "idle", in |-> Anew, reply |-> "none"]
Replies == {"plain", "draft", "refused", "sorry"}

Silent == opened \ spoken
Newest == CHOOSE c \in opened : \A d \in opened : d <= c
AtRest(r) == turn[r].at = "idle"

\* Mutant: the order of last_message_at is not asked for
ActiveAny == IF Silent # {} THEN Silent ELSE spoken

\* findActiveAiConversation
Active == IF Silent # {} THEN Silent ELSE IF spoken = {} THEN {} ELSE {recent}

Opens(c) ==
  /\ c \notin opened /\ \A d \in Chats : d < c => d \in opened
  /\ opened' = opened \cup {c}
  /\ latecome' = FALSE

Asks(r, c) ==
  /\ AtRest(r)
  /\ turn' = [turn EXCEPT ![r] = [NoTurn EXCEPT !.at = "ask", !.in = c]]
  /\ UNCHANGED <<asker, restarts, opened, spoken, recent, turns, lost, latecome, twice>>

\* getOrCreateAiConversation: the session the request names, if it is his ...
NameChat(r, c) == c \in opened /\ Asks(r, c)

\* ... or else the active one ...
ResumeChat(r, c) == c \in Active /\ Asks(r, c)

\* Mutant: the conversations found are not used
FindNoChatEver(r) ==
  /\ AtRest(r)
  /\ turn' = [turn EXCEPT ![r].at = "create"]
  /\ twice' = (twice \/ \E q \in Askers \ {r} : turn[q].at = "create")
  /\ UNCHANGED <<asker, restarts, opened, spoken, recent, turns, lost, latecome>>

\* ... or none is found ...
FindNoChat(r) ==
  /\ AtRest(r) /\ Active = {}
  /\ turn' = [turn EXCEPT ![r].at = "create"]
  /\ twice' = (twice \/ \E q \in Askers \ {r} : turn[q].at = "create")
  /\ UNCHANGED <<asker, restarts, opened, spoken, recent, turns, lost, latecome>>

\* ... and one is created
CreateChat(r, c) ==
  /\ turn[r].at = "create"
  /\ Opens(c)
  /\ turn' = [turn EXCEPT ![r].at = "ask", ![r].in = c]
  /\ UNCHANGED <<asker, restarts, spoken, recent, turns, lost, twice>>

\* chat, step 3: the question is stored
StoreQuestion(r) ==
  LET c == turn[r].in IN
  /\ turn[r].at = "ask" /\ turns[c].asked < MaxTurns
  /\ turns' = [turns EXCEPT ![c].asked = @ + 1]
  /\ turn' = [turn EXCEPT ![r].at = "think"]
  /\ UNCHANGED <<asker, restarts, opened, spoken, recent, lost, latecome, twice>>

\* Mutant: any role gets a draft listing
ToolForAnyone(role) == "draft"

\* executeToolCall: a draft listing for a farmer, an error for the others
Tool(role) == IF role = "FARMER" THEN "draft" ELSE "refused"

\* Mutant: an error of the model is not caught
ThinkOrThrow(r, role, outcome) ==
  /\ turn[r].at = "think"
  /\ turn' = [turn EXCEPT ![r] = IF outcome = "sorry" THEN NoTurn
                                 ELSE [@ EXCEPT !.at = "answer", !.reply = outcome]]
  /\ UNCHANGED <<asker, restarts, opened, spoken, recent, turns, lost, latecome, twice>>

\* chat, steps 4 to 6: the model answers, fails, or calls a tool
Think(r, role, outcome) ==
  /\ turn[r].at = "think"
  /\ turn' = [turn EXCEPT ![r].at = "answer",
                          ![r].reply = IF outcome = "tool" THEN Tool(role) ELSE outcome]
  /\ UNCHANGED <<asker, restarts, opened, spoken, recent, turns, lost, latecome, twice>>

\* step 7: the answer is stored
StoreAnswer(r) ==
  /\ turn[r].at = "answer"
  /\ turns' = [turns EXCEPT ![turn[r].in].answered = @ + 1,
                            ![turn[r].in].drafts = @ \/ turn[r].reply = "draft"]
  /\ turn' = [turn EXCEPT ![r].at = "date"]
  /\ UNCHANGED <<asker, restarts, opened, spoken, recent, lost, latecome, twice>>

\* step 8: last_message_at
DateChat(r) ==
  LET c == turn[r].in IN
  /\ turn[r].at = "date"
  /\ spoken' = spoken \cup {c} /\ recent' = c
  /\ latecome' = (latecome \/ c # Newest)
  /\ turn' = [turn EXCEPT ![r] = NoTurn]
  /\ UNCHANGED <<asker, restarts, opened, turns, lost, twice>>

\* environment: the server stops under a request
ChatDies(r) ==
  /\ turn[r].at \in {"think", "answer", "date"}
  /\ lost' = IF turn[r].at = "date" THEN lost ELSE [lost EXCEPT ![turn[r].in] = @ + 1]
  /\ turn' = [turn EXCEPT ![r] = NoTurn]
  /\ UNCHANGED <<asker, restarts, opened, spoken, recent, turns, latecome, twice>>

\* resetSession opens another, whatever is in flight in the others
ResetSession(c) ==
  /\ Opens(c)
  /\ restarts' = restarts \cup {c}
  /\ UNCHANGED <<asker, spoken, recent, turns, turn, lost, twice>>

AssistantInit ==
  /\ asker \in {"FARMER", "BUYER"}
  /\ opened = {} /\ restarts = {} /\ spoken = {} /\ recent = Anew
  /\ latecome = FALSE /\ twice = FALSE
  /\ turns = [c \in Chats |-> [asked |-> 0, answered |-> 0, drafts |-> FALSE]]
  /\ turn = [r \in Askers |-> NoTurn]
  /\ lost = [c \in Chats |-> 0]

AssistantNext ==
  \/ \E c \in Chats : ResetSession(c)
  \/ \E r \in Askers :
       \/ FindNoChat(r) \/ StoreQuestion(r) \/ StoreAnswer(r) \/ DateChat(r) \/ ChatDies(r)
       \/ \E c \in Chats : NameChat(r, c) \/ ResumeChat(r, c) \/ CreateChat(r, c)
       \/ \E outcome \in {"plain", "tool", "sorry"} : Think(r, asker, outcome)

AssistantSpec == AssistantInit /\ [][AssistantNext]_assistantVars

-----------------------------------------------------------------------------
(* Properties                                                              *)

\* Types; the tool drafts a listing for a farmer only
AssistantTypeOK ==
  /\ restarts \subseteq opened /\ spoken \subseteq opened
  /\ IF spoken = {} THEN recent = Anew ELSE recent \in spoken
  /\ \A c \in Chats : turns[c].drafts => asker = "FARMER"
  /\ \A r \in Askers : turn[r].at \in {"idle", "create", "ask", "think", "answer", "date"}

\* Every question has its answer in the conversation it was put in, though the model
\* or the tool failed, unless the server stopped under the request
EveryAnswer ==
  \A c \in Chats :
    turns[c].asked = turns[c].answered + lost[c]
      + Cardinality({r \in Askers : turn[r].in = c /\ turn[r].at \in {"think", "answer"}})

\* After resetSession the newest conversation is the one resumed, unless an older one
\* had its answer later, or never had one
ActiveIsNewest ==
  opened # {} /\ ~latecome /\ Silent \subseteq {Newest} => Active = {Newest}

\* The first questions of a user share one conversation unless they crossed
OneBeginning == twice \/ Cardinality(opened \ restarts) <= 1

\* Every question has its answer in its conversation, and the newest one is resumed
AssistantSafety == AssistantTypeOK /\ EveryAnswer /\ ActiveIsNewest /\ OneBeginning

=============================================================================
