----------------------------- MODULE Messaging -----------------------------
(***************************************************************************)
(* Conversations and the order of their messages: MessagingService.  A     *)
(* conversation keeps its participants for ever.  Who hears a message at   *)
(* once is the matter of Gateway.                                          *)
(***************************************************************************)
EXTENDS Naturals, FiniteSets

CONSTANTS
  Folk,     \* users
  Threads,  \* 1..n: conversations, in the order of their creation
  Notes,    \* 1..n: messages, in the order of their commit
  Boxes     \* requests in flight

ASSUME MessagingAssumption ==
  /\ IsFiniteSet(Folk) /\ IsFiniteSet(Boxes)
  /\ Threads \subseteq Nat \ {0} /\ Notes \subseteq Nat \ {0}
  /\ IsFiniteSet(Threads) /\ IsFiniteSet(Notes)

VARIABLES
  thread,   \* conversations: type, conversation_participants, last_message_at
  note,     \* messages: conversation, the time taken for last_message_at
  box,      \* the request in each hand
  found,    \* history: the answers to requests for a conversation of two
  rung      \* history: requests that crossed

messagingVars == <<thread, note, box, found, rung>>

NoThread == [type |-> "NONE", who |-> {}, last |-> 0]
NoNote == [in |-> 0, at |-> 0]
NoBox == [do |-> "idle", in |-> 0, who |-> {}, at |-> 0, type |-> "NONE"]

Parties == {who \in SUBSET Folk : Cardinality(who) >= 2}
ThreadsMade == {c \in Threads : thread[c].type # "NONE"}
NotesSent == {n \in Notes : note[n].in # 0}
BoxFree(r) == box[r].do = "idle"
BoxEnds(r) == box' = [box EXCEPT ![r] = NoBox]
NextId(made) == Cardinality(made) + 1

-----------------------------------------------------------------------------
(* Conversations                                                           *)

\* Mutant: a group of which both are part is taken for their conversation
BetweenAny(c, who) == who \subseteq thread[c].who

\* Mutant: there is never one
BetweenNone(c, who) == FALSE

\* findFirst: a DIRECT conversation of which both are part
Between(c, who) == thread[c].type = "DIRECT" /\ who \subseteq thread[c].who

\* findOrCreateConversation, when there is one for the two: any of them is the answer
FindThread(who, c) ==
  /\ Cardinality(who) = 2 /\ c \in ThreadsMade /\ Between(c, who)
  /\ found' = found \cup {<<who, c>>}
  /\ UNCHANGED <<thread, note, box, rung>>

\* ... or there is none, or it is not a conversation of two (bound: Threads)
MissThread(r, who, type) ==
  /\ BoxFree(r) /\ NextId(ThreadsMade) \in Threads
  /\ ~(type = "DIRECT" /\ Cardinality(who) = 2 /\ \E c \in ThreadsMade : Between(c, who))
  /\ box' = [box EXCEPT ![r] = [NoBox EXCEPT !.do = "create", !.who = who, !.type = type]]
  /\ rung' = IF \E q \in Boxes : box[q].do = "create" /\ box[q].who = who
             THEN rung \cup {"creations"} ELSE rung
  /\ UNCHANGED <<thread, note, found>>

\* Mutant: the creator is left out
EnrolledOthers(who) == who \ {CHOOSE u \in who : TRUE}

\* conversation_participants: the creator and those he names
Enrolled(who) == who

\* ... then one is created
CreateThread(r, c) ==
  /\ box[r].do = "create" /\ c = NextId(ThreadsMade)
  /\ thread' = [thread EXCEPT ![c] = [type |-> box[r].type, who |-> Enrolled(box[r].who),
                                  last |-> 0]]
  /\ found' = IF box[r].type = "DIRECT" /\ Cardinality(box[r].who) = 2
              THEN found \cup {<<box[r].who, c>>} ELSE found
  /\ BoxEnds(r)
  /\ UNCHANGED <<note, rung>>

-----------------------------------------------------------------------------
(* Messages                                                                *)

Clock == Cardinality(NotesSent) + Cardinality({r \in Boxes : box[r].do = "send"}) + 1

\* sendMessage: the sender is found among the participants, and the date is taken
\* (bound: Notes)
BeginSend(r, by, c) ==
  /\ BoxFree(r) /\ NextId(NotesSent) \in Notes /\ c \in ThreadsMade /\ by \in thread[c].who
  /\ box' = [box EXCEPT ![r] = [NoBox EXCEPT !.do = "send", !.in = c, !.at = Clock]]
  /\ UNCHANGED <<thread, note, found, rung>>

\* Mutant: last_message_at is left alone
LastKept(c, at) == thread[c].last

LastAt(c, at) == at

\* The transaction: the message, and the date of its conversation
CommitSend(r, n) ==
  LET c == box[r].in IN
  /\ box[r].do = "send" /\ n = NextId(NotesSent)
  /\ note' = [note EXCEPT ![n] = [in |-> c, at |-> box[r].at]]
  /\ thread' = [thread EXCEPT ![c].last = LastAt(c, box[r].at)]
  /\ rung' = IF \E m \in NotesSent : note[m].in = c /\ note[m].at > box[r].at
             THEN rung \cup {"sends"} ELSE rung
  /\ BoxEnds(r)
  /\ UNCHANGED found

MessagingInit ==
  /\ thread = [c \in Threads |-> NoThread]
  /\ note = [n \in Notes |-> NoNote]
  /\ box = [r \in Boxes |-> NoBox]
  /\ found = {} /\ rung = {}

MessagingNext ==
  \/ \E who \in Parties, c \in Threads : FindThread(who, c)
  \/ \E r \in Boxes :
       \/ \E who \in Parties, type \in {"DIRECT", "GROUP"} : MissThread(r, who, type)
       \/ \E c \in Threads : CreateThread(r, c) \/ \E u \in Folk : BeginSend(r, u, c)
       \/ \E n \in Notes : CommitSend(r, n)

MessagingSpec == MessagingInit /\ [][MessagingNext]_messagingVars

-----------------------------------------------------------------------------
(* Properties                                                              *)

\* Types; a conversation has two participants or more, a message its conversation
MessagingTypeOK ==
  /\ \A c \in ThreadsMade : thread[c].type \in {"DIRECT", "GROUP"} /\ thread[c].who \in Parties
  /\ \A n \in NotesSent : note[n].in \in ThreadsMade
  /\ \A r \in Boxes : box[r].do \in {"idle", "create", "send"}
  /\ rung \subseteq {"creations", "sends"}

\* Two people have one DIRECT conversation between them, unless two searches for it
\* crossed
OneThreadOfTwo ==
  "creations" \notin rung =>
    \A c, d \in ThreadsMade :
      /\ thread[c].type = "DIRECT" /\ thread[d].type = "DIRECT"
      /\ thread[c].who = thread[d].who /\ Cardinality(thread[c].who) = 2
      => c = d

\* ... and what either is given for it is theirs alone, unless it was made DIRECT for
\* more than two
TheirsAlone ==
  \A f \in found :
    \/ thread[f[2]].who = f[1]
    \/ thread[f[2]].type = "DIRECT" /\ Cardinality(thread[f[2]].who) > 2

\* A conversation carries the date of its latest message, unless two sends crossed
LatestDate ==
  "sends" \notin rung =>
    \A n \in NotesSent : thread[note[n].in].last >= note[n].at

\* Two people have one conversation of theirs alone, which carries its latest date
MessagingSafety == MessagingTypeOK /\ OneThreadOfTwo /\ TheirsAlone /\ LatestDate

=============================================================================
