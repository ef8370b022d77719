---------------------------- MODULE DailyProofs -----------------------------
(***************************************************************************)
(* What is proved of what users do every day beside their orders, for any  *)
(* number of users, rows and requests in flight: messages and the socket   *)
(* that announces them, notifications, reminders, telephone numbers and    *)
(* calls, the collections of a cooperative, reviews, and the assistant.    *)
(* They share no state: each has an invariant of its own, and the last     *)
(* theorems put them together as the runs check them.                      *)
(***************************************************************************)
EXTENDS MCDaily, SumLemmas

-----------------------------------------------------------------------------
(***************************************************************************)
(* Messages. Two people share one conversation as long as no two requests  *)
(* for it crossed, for the one about to create it has found none and is    *)
(* alone.                                                                  *)
(***************************************************************************)

\* The shapes of a conversation, of a message and of a request under way
ThreadRow == [type : {"NONE", "DIRECT", "GROUP"}, who : SUBSET Folk, last : Nat]
NoteRow == [in : Threads \cup {0}, at : Nat]
BoxRow == [do : {"idle", "create", "send"}, in : Threads \cup {0}, who : SUBSET Folk, at : Nat,
           type : {"NONE", "DIRECT", "GROUP"}]

\* Types of the rows
MessagingTypes ==
  /\ thread \in [Threads -> ThreadRow] /\ note \in [Notes -> NoteRow]
  /\ box \in [Boxes -> BoxRow] /\ rung \subseteq {"creations", "sends"}

\* Conversations are numbered in the order of their creation
ThreadsInOrder == \E k \in Nat : ThreadsMade = 1 .. k

\* Two people who talk to one another
Pair(who) == Cardinality(who) = 2

\* A conversation of two is theirs; it is the only one, unless requests for it crossed
ThreadsHold ==
  /\ \A c \in ThreadsMade : thread[c].who \in Parties
  /\ "creations" \notin rung =>
       \A c, d \in ThreadsMade :
         thread[c].type = "DIRECT" /\ thread[d].type = "DIRECT"
           /\ thread[c].who = thread[d].who /\ Pair(thread[c].who)
         => c = d

\* What a request knows of the conversation it is about
FoundRow(f) ==
  /\ f[2] \in ThreadsMade
  /\ \/ thread[f[2]].who = f[1]
     \/ thread[f[2]].type = "DIRECT" /\ Cardinality(thread[f[2]].who) > 2

\* A request that is about to create a conversation has found none of the two, and is the
\* only one, unless another crossed it
BoxesHold ==
  /\ \A r \in Boxes :
       /\ box[r].do = "create" => box[r].who \in Parties /\ box[r].type # "NONE"
       /\ box[r].do = "send" => box[r].in \in ThreadsMade
  /\ "creations" \notin rung =>
       \A r \in Boxes : box[r].do = "create" =>
         /\ box[r].type = "DIRECT" /\ Pair(box[r].who) =>
              \A c \in ThreadsMade : thread[c].type = "DIRECT" => thread[c].who # box[r].who
         /\ \A q \in Boxes \ {r} : box[q].do = "create" => box[q].who # box[r].who

\* A message is in a conversation that was last written to no earlier, unless sends crossed
NotesHold ==
  \A n \in NotesSent :
    /\ note[n].in \in ThreadsMade
    /\ "sends" \notin rung => thread[note[n].in].last >= note[n].at

\* The inductive invariant
MessagingInv ==
  /\ MessagingTypes /\ ThreadsInOrder /\ ThreadsHold /\ BoxesHold /\ NotesHold
  /\ \A f \in found : FoundRow(f)

\* A request at rest
LEMMA IdleBox == NoBox \in BoxRow /\ NoBox.do = "idle"
  BY DEF NoBox, BoxRow

\* The invariant holds at first
LEMMA MessagingInitInv == MessagingInit => MessagingInv
<1> SUFFICES ASSUME MessagingInit PROVE MessagingInv OBVIOUS
<1>1. MessagingTypes
  BY DEF MessagingInit, MessagingTypes, ThreadRow, NoteRow, BoxRow, NoThread, NoNote, NoBox
<1>2. ThreadsMade = {} /\ NotesSent = {}
  BY DEF MessagingInit, ThreadsMade, NotesSent, NoThread, NoNote
<1>3. ThreadsInOrder
  <2>1. 1 .. 0 = {} OBVIOUS
  <2> QED BY <1>2, <2>1 DEF ThreadsInOrder
<1>4. \A r \in Boxes : box[r].do = "idle" BY DEF MessagingInit, NoBox
<1> QED BY <1>1, <1>2, <1>3, <1>4 DEF MessagingInit, MessagingInv, ThreadsHold, BoxesHold, NotesHold

\* One more conversation is not one of those made
LEMMA NextThread ==
  ASSUME MessagingInv, NEW c \in Threads, c = NextId(ThreadsMade)
  PROVE  c \notin ThreadsMade /\ \E k \in Nat : ThreadsMade = 1 .. k /\ ThreadsMade \cup {c} = 1 .. k + 1
<1>1. PICK k \in Nat : ThreadsMade = 1 .. k BY DEF MessagingInv, ThreadsInOrder
<1>2. Cardinality(1 .. k) = k
  <2>1. 1 \in Int /\ k \in Int OBVIOUS
  <2>2. Cardinality(1 .. k) = IF 1 > k THEN 0 ELSE k - 1 + 1 BY <2>1, FS_Interval
  <2> QED BY <2>2
<1>3. c = k + 1 BY <1>1, <1>2 DEF NextId
<1>4. (1 .. k) \cup {k + 1} = 1 .. k + 1 OBVIOUS
<1> QED BY <1>1, <1>3, <1>4

\* The conversation of two people is found
LEMMA FindThreadStep ==
  \A who \in Parties, c \in Threads : MessagingInv /\ FindThread(who, c) => MessagingInv'
<1> SUFFICES ASSUME NEW who \in Parties, NEW c \in Threads, MessagingInv, FindThread(who, c)
             PROVE MessagingInv'
  OBVIOUS
<1>1. /\ c \in ThreadsMade /\ Pair(who) /\ thread[c].type = "DIRECT" /\ who \subseteq thread[c].who
      /\ found' = found \cup {<<who, c>>} /\ UNCHANGED <<thread, note, box, rung>>
  BY DEF FindThread, Between, Pair
<1>2. thread[c].who = who \/ Cardinality(thread[c].who) > 2
  <2>1. thread[c].who \in SUBSET Folk BY <1>1 DEF MessagingInv, ThreadsHold, Parties
  <2>2. IsFiniteSet(thread[c].who) BY <2>1, FS_Subset, MessagingAssumption
  <2>3. /\ IsFiniteSet(who) /\ Cardinality(who) <= Cardinality(thread[c].who)
        /\ Cardinality(thread[c].who) = Cardinality(who) => thread[c].who = who
    BY <1>1, <2>2, FS_Subset
  <2>4. Cardinality(thread[c].who) \in Nat BY <2>2, FS_CardinalityType
  <2> QED BY <1>1, <2>3, <2>4 DEF Pair
<1>3. \A f \in found' : FoundRow(f)'
  <2>1. ThreadsMade' = ThreadsMade BY <1>1 DEF ThreadsMade
  <2>2. \A f \in found : FoundRow(f)' BY <1>1, <2>1 DEF MessagingInv, FoundRow
  <2>3. FoundRow(<<who, c>>)' BY <1>1, <1>2, <2>1 DEF FoundRow
  <2> QED BY <1>1, <2>2, <2>3
<1> QED BY <1>1, <1>3 DEF MessagingInv, MessagingTypes, ThreadsInOrder, ThreadsHold, BoxesHold,
          NotesHold, ThreadsMade, NotesSent

\* ... or is not
LEMMA MissThreadStep ==
  \A r \in Boxes, who \in Parties, type \in {"DIRECT", "GROUP"} :
    MessagingInv /\ MissThread(r, who, type) => MessagingInv'
<1> SUFFICES ASSUME NEW r \in Boxes, NEW who \in Parties, NEW type \in {"DIRECT", "GROUP"},
                    MessagingInv, MissThread(r, who, type)
             PROVE MessagingInv'
  OBVIOUS
<1> DEFINE b == [NoBox EXCEPT !.do = "create", !.who = who, !.type = type]
<1>1. /\ box' = [box EXCEPT ![r] = b] /\ UNCHANGED <<thread, note, found>>
      /\ rung' = IF \E q \in Boxes : box[q].do = "create" /\ box[q].who = who
                 THEN rung \cup {"creations"} ELSE rung
  BY DEF MissThread
<1>2. b \in BoxRow /\ b.do = "create" /\ b.who = who /\ b.type = type
  <2>1. PICK k \in BoxRow : k = NoBox BY IdleBox
  <2>2. b = [k EXCEPT !.do = "create", !.who = who, !.type = type] BY <2>1
  <2>3. who \in SUBSET Folk BY DEF Parties
  <2> HIDE DEF b
  <2> QED BY <2>2, <2>3 DEF BoxRow
<1>3. b.do = "create" /\ b.who = who /\ b.type = type BY <1>2
<1> HIDE DEF b
<1>4. box' \in [Boxes -> BoxRow] /\ \A q \in Boxes : box'[q] = IF q = r THEN b ELSE box[q]
  BY <1>1, <1>2 DEF MessagingInv, MessagingTypes
<1>5. ThreadsMade' = ThreadsMade /\ NotesSent' = NotesSent BY <1>1 DEF ThreadsMade, NotesSent
<1>6. rung \subseteq rung' /\ rung' \subseteq rung \cup {"creations"} BY <1>1
<1>7. MessagingTypes' BY <1>1, <1>4, <1>6 DEF MessagingInv, MessagingTypes
<1>8. ThreadsInOrder' /\ ThreadsHold' /\ NotesHold' /\ \A f \in found' : FoundRow(f)'
  BY <1>1, <1>5, <1>6 DEF MessagingInv, ThreadsInOrder, ThreadsHold, NotesHold, FoundRow
<1>9. BoxesHold'
  <2>1. \A q \in Boxes :
          /\ box'[q].do = "create" => box'[q].who \in Parties /\ box'[q].type # "NONE"
          /\ box'[q].do = "send" => box'[q].in \in ThreadsMade
    BY <1>3, <1>4 DEF MessagingInv, BoxesHold
  <2>2. ASSUME "creations" \notin rung', NEW q \in Boxes, box'[q].do = "create"
        PROVE  /\ box'[q].type = "DIRECT" /\ Pair(box'[q].who) =>
                    \A c \in ThreadsMade : thread[c].type = "DIRECT" => thread[c].who # box'[q].who
               /\ \A x \in Boxes \ {q} : box'[x].do = "create" => box'[x].who # box'[q].who
    <3>1. "creations" \notin rung /\ \A x \in Boxes : box[x].do = "create" => box[x].who # who
      BY <1>1, <2>2
    <3>2. CASE q = r
      <4>1. ASSUME b.type = "DIRECT", Pair(who)
            PROVE  \A c \in ThreadsMade : thread[c].type = "DIRECT" => thread[c].who # who
        BY <1>3, <4>1 DEF MissThread, Between, Pair
      <4> QED BY <1>3, <1>4, <3>1, <3>2, <4>1
    <3>3. CASE q # r
      BY <1>3, <1>4, <2>2, <3>1, <3>3 DEF MessagingInv, BoxesHold
    <3> QED BY <3>2, <3>3
  <2> QED BY <1>1, <1>5, <2>1, <2>2 DEF BoxesHold
<1> QED BY <1>7, <1>8, <1>9 DEF MessagingInv

\* ... and one is made
LEMMA CreateThreadStep ==
  \A r \in Boxes, c \in Threads : MessagingInv /\ CreateThread(r, c) => MessagingInv'
<1> SUFFICES ASSUME NEW r \in Boxes, NEW c \in Threads, MessagingInv, CreateThread(r, c)
             PROVE MessagingInv'
  OBVIOUS
<1>1. PICK b \in BoxRow : b = box[r] BY DEF MessagingInv, MessagingTypes
<1> DEFINE t == [type |-> b.type, who |-> b.who, last |-> 0]
<1>2. /\ b.do = "create" /\ c = NextId(ThreadsMade) /\ thread' = [thread EXCEPT ![c] = t]
      /\ found' = IF b.type = "DIRECT" /\ Pair(b.who) THEN found \cup {<<b.who, c>>} ELSE found
      /\ box' = [box EXCEPT ![r] = NoBox] /\ UNCHANGED <<note, rung>>
  BY <1>1 DEF CreateThread, Enrolled, BoxEnds, Pair
<1>3. b.who \in Parties /\ b.type # "NONE" BY <1>1, <1>2 DEF MessagingInv, BoxesHold
<1>4. t \in ThreadRow /\ t.type = b.type /\ t.who = b.who BY DEF BoxRow, ThreadRow
<1> HIDE DEF t
<1>5. c \notin ThreadsMade /\ \E k \in Nat : ThreadsMade = 1 .. k /\ ThreadsMade \cup {c} = 1 .. k + 1
  BY <1>2, NextThread
<1>6. /\ thread' \in [Threads -> ThreadRow] /\ thread'[c] = t
      /\ \A d \in Threads \ {c} : thread'[d] = thread[d]
  BY <1>2, <1>4 DEF MessagingInv, MessagingTypes
<1>7. ThreadsMade' = ThreadsMade \cup {c} BY <1>3, <1>4, <1>6 DEF ThreadsMade
<1>8. NotesSent' = NotesSent BY <1>2 DEF NotesSent
<1>9. \A d \in ThreadsMade : d \in Threads /\ d # c /\ thread'[d] = thread[d]
  BY <1>5, <1>6 DEF ThreadsMade
<1>10. box' \in [Boxes -> BoxRow] /\ \A q \in Boxes : box'[q] = IF q = r THEN NoBox ELSE box[q]
  BY <1>2, IdleBox DEF MessagingInv, MessagingTypes
<1>11. MessagingTypes' BY <1>2, <1>6, <1>10 DEF MessagingInv, MessagingTypes
<1>12. ThreadsInOrder'
  <2>1. PICK k \in Nat : ThreadsMade \cup {c} = 1 .. k + 1 BY <1>5
  <2>2. k + 1 \in Nat OBVIOUS
  <2> QED BY <1>7, <2>1, <2>2 DEF ThreadsInOrder
<1>13. "creations" \notin rung /\ b.type = "DIRECT" /\ Pair(b.who) =>
         \A d \in ThreadsMade : thread[d].type = "DIRECT" => thread[d].who # b.who
  BY <1>1, <1>2 DEF MessagingInv, BoxesHold
<1>14. ThreadsHold'
  <2>1. \A d \in ThreadsMade' : thread'[d].who \in Parties
    BY <1>3, <1>4, <1>6, <1>7, <1>9 DEF MessagingInv, ThreadsHold
  <2>2. ASSUME "creations" \notin rung', NEW d \in ThreadsMade', NEW e \in ThreadsMade',
               thread'[d].type = "DIRECT", thread'[e].type = "DIRECT",
               thread'[d].who = thread'[e].who, Pair(thread'[d].who)
        PROVE  d = e
    <3>1. "creations" \notin rung BY <1>2, <2>2
    <3>2. CASE d \in ThreadsMade /\ e \in ThreadsMade
      BY <1>9, <2>2, <3>1, <3>2 DEF MessagingInv, ThreadsHold
    <3>3. CASE d = c /\ e \in ThreadsMade
      BY <1>4, <1>6, <1>9, <1>13, <2>2, <3>1, <3>3
    <3>4. CASE e = c /\ d \in ThreadsMade
      BY <1>4, <1>6, <1>9, <1>13, <2>2, <3>1, <3>4
    <3> QED BY <1>7, <3>2, <3>3, <3>4
  <2> QED BY <2>1, <2>2 DEF ThreadsHold
<1>15. BoxesHold'
  <2>1. \A q \in Boxes :
          /\ box'[q].do = "create" => box'[q].who \in Parties /\ box'[q].type # "NONE"
          /\ box'[q].do = "send" => box'[q].in \in ThreadsMade'
    BY <1>7, <1>10, IdleBox DEF MessagingInv, BoxesHold
  <2>2. ASSUME "creations" \notin rung', NEW q \in Boxes, box'[q].do = "create"
        PROVE  /\ box'[q].type = "DIRECT" /\ Pair(box'[q].who) =>
                    \A d \in ThreadsMade' : thread'[d].type = "DIRECT" => thread'[d].who # box'[q].who
               /\ \A x \in Boxes \ {q} : box'[x].do = "create" => box'[x].who # box'[q].who
    <3>1. "creations" \notin rung /\ q # r /\ box'[q] = box[q]
      BY <1>2, <1>10, <2>2, IdleBox
    <3>2. box[q].who # b.who BY <1>1, <1>2, <2>2, <3>1 DEF MessagingInv, BoxesHold
    <3>3. \A x \in Boxes \ {q} : box'[x].do = "create" => box'[x].who # box'[q].who
      BY <1>10, <2>2, <3>1, IdleBox DEF MessagingInv, BoxesHold
    <3>4. ASSUME box[q].type = "DIRECT", Pair(box[q].who), NEW d \in ThreadsMade',
                 thread'[d].type = "DIRECT"
          PROVE  thread'[d].who # box[q].who
      <4>1. CASE d = c BY <1>4, <1>6, <3>2, <4>1
      <4>2. CASE d \in ThreadsMade
        BY <1>9, <2>2, <3>1, <3>4, <4>2 DEF MessagingInv, BoxesHold
      <4> QED BY <1>7, <4>1, <4>2
    <3> QED BY <3>1, <3>3, <3>4
  <2> QED BY <2>1, <2>2 DEF BoxesHold
<1>16. NotesHold'
  BY <1>2, <1>7, <1>8, <1>9 DEF MessagingInv, NotesHold
<1>17. \A f \in found' : FoundRow(f)'
  <2>1. \A f \in found : FoundRow(f)' BY <1>7, <1>9 DEF MessagingInv, FoundRow
  <2>2. FoundRow(<<b.who, c>>)' BY <1>4, <1>6, <1>7 DEF FoundRow
  <2> QED BY <1>2, <2>1, <2>2
<1> QED BY <1>11, <1>12, <1>14, <1>15, <1>16, <1>17 DEF MessagingInv

\* The clock is a number
LEMMA ClockType == MessagingInv => Clock \in Nat
<1>1. IsFiniteSet(NotesSent) /\ IsFiniteSet({r \in Boxes : box[r].do = "send"})
  BY MessagingAssumption, FS_Subset DEF NotesSent
<1>2. Cardinality(NotesSent) \in Nat /\ Cardinality({r \in Boxes : box[r].do = "send"}) \in Nat
  BY <1>1, FS_CardinalityType
<1> QED BY <1>2 DEF Clock

\* A message is sent to a conversation its author is in
LEMMA BeginSendStep ==
  \A r \in Boxes, c \in Threads, u \in Folk : MessagingInv /\ BeginSend(r, u, c) => MessagingInv'
<1> SUFFICES ASSUME NEW r \in Boxes, NEW c \in Threads, NEW u \in Folk, MessagingInv,
                    BeginSend(r, u, c)
             PROVE MessagingInv'
  OBVIOUS
<1> DEFINE b == [NoBox EXCEPT !.do = "send", !.in = c, !.at = Clock]
<1>1. c \in ThreadsMade /\ box' = [box EXCEPT ![r] = b] /\ UNCHANGED <<thread, note, found, rung>>
  BY DEF BeginSend
<1>2. c \in Nat /\ Clock \in Nat BY ClockType, MessagingAssumption
<1>3. b \in BoxRow /\ b.do = "send" /\ b.in = c
  <2>1. PICK k \in BoxRow : k = NoBox BY IdleBox
  <2>2. PICK t \in Nat : t = Clock BY <1>2
  <2>3. b = [k EXCEPT !.do = "send", !.in = c, !.at = t] BY <2>1, <2>2
  <2> HIDE DEF b
  <2> QED BY <1>2, <2>3 DEF BoxRow
<1>4. b.do = "send" /\ b.in = c BY <1>3
<1> HIDE DEF b
<1>5. box' \in [Boxes -> BoxRow] /\ \A q \in Boxes : box'[q] = IF q = r THEN b ELSE box[q]
  BY <1>1, <1>3 DEF MessagingInv, MessagingTypes
<1>6. ThreadsMade' = ThreadsMade /\ NotesSent' = NotesSent BY <1>1 DEF ThreadsMade, NotesSent
<1>7. MessagingTypes' BY <1>1, <1>5 DEF MessagingInv, MessagingTypes
<1>8. ThreadsInOrder' /\ ThreadsHold' /\ NotesHold' /\ \A f \in found' : FoundRow(f)'
  BY <1>1, <1>6 DEF MessagingInv, ThreadsInOrder, ThreadsHold, NotesHold, FoundRow
<1>9. BoxesHold' BY <1>1, <1>4, <1>5, <1>6 DEF MessagingInv, BoxesHold
<1> QED BY <1>7, <1>8, <1>9 DEF MessagingInv

\* It is stored with the time of the conversation, in one transaction
LEMMA CommitSendStep ==
  \A r \in Boxes, n \in Notes : MessagingInv /\ CommitSend(r, n) => MessagingInv'
<1> SUFFICES ASSUME NEW r \in Boxes, NEW n \in Notes, MessagingInv, CommitSend(r, n)
             PROVE MessagingInv'
  OBVIOUS
<1>1. PICK b \in BoxRow : b = box[r] BY DEF MessagingInv, MessagingTypes
<1>2. /\ b.do = "send" /\ note' = [note EXCEPT ![n] = [in |-> b.in, at |-> b.at]]
      /\ thread' = [thread EXCEPT ![b.in].last = b.at] /\ box' = [box EXCEPT ![r] = NoBox]
      /\ rung' = IF \E m \in NotesSent : note[m].in = b.in /\ note[m].at > b.at
                 THEN rung \cup {"sends"} ELSE rung
      /\ found' = found
  BY <1>1 DEF CommitSend, LastAt, BoxEnds
<1>3. b.in \in ThreadsMade /\ b.in \in Threads /\ b.at \in Nat
  BY <1>1, <1>2 DEF MessagingInv, BoxesHold, ThreadsMade, BoxRow
<1>4. PICK t \in ThreadRow : t = thread[b.in] BY <1>3 DEF MessagingInv, MessagingTypes
<1> DEFINE v == [t EXCEPT !.last = b.at]
<1>5. v \in ThreadRow /\ v.type = t.type /\ v.who = t.who /\ v.last = b.at
  BY <1>3 DEF ThreadRow
<1>6. thread' = [thread EXCEPT ![b.in] = v] BY <1>2, <1>4
<1> HIDE DEF v
<1>7. /\ thread' \in [Threads -> ThreadRow]
      /\ \A c \in Threads : /\ thread'[c].type = thread[c].type /\ thread'[c].who = thread[c].who
                            /\ thread'[c].last = IF c = b.in THEN b.at ELSE thread[c].last
  BY <1>3, <1>4, <1>5, <1>6 DEF MessagingInv, MessagingTypes
<1>8. ThreadsMade' = ThreadsMade BY <1>7 DEF ThreadsMade
<1>9. /\ note' \in [Notes -> NoteRow] /\ note'[n].in = b.in /\ note'[n].at = b.at
      /\ \A m \in Notes \ {n} : note'[m] = note[m]
  BY <1>2, <1>3 DEF MessagingInv, MessagingTypes, NoteRow
<1>10. \A m \in NotesSent' : m = n \/ (m \in NotesSent /\ note'[m] = note[m])
  BY <1>9 DEF NotesSent
<1>11. box' \in [Boxes -> BoxRow] /\ \A q \in Boxes : box'[q] = IF q = r THEN NoBox ELSE box[q]
  BY <1>2, IdleBox DEF MessagingInv, MessagingTypes
<1>12. rung \subseteq rung' /\ rung' \subseteq rung \cup {"sends"} BY <1>2
<1>13. MessagingTypes' BY <1>7, <1>9, <1>11, <1>12 DEF MessagingInv, MessagingTypes
<1>14. ThreadsInOrder' BY <1>8 DEF MessagingInv, ThreadsInOrder
<1>15. \A c \in ThreadsMade : c \in Threads BY DEF ThreadsMade
<1>16. ThreadsHold' BY <1>7, <1>8, <1>12, <1>15 DEF MessagingInv, ThreadsHold
<1>17. \A f \in found' : FoundRow(f)'
  BY <1>2, <1>7, <1>8, <1>15 DEF MessagingInv, FoundRow
<1>18. BoxesHold' BY <1>7, <1>8, <1>11, <1>12, <1>15, IdleBox DEF MessagingInv, BoxesHold
<1>19. NotesHold'
  <2> SUFFICES ASSUME NEW m \in NotesSent'
               PROVE  /\ note'[m].in \in ThreadsMade
                      /\ "sends" \notin rung' => thread'[note'[m].in].last >= note'[m].at
    BY <1>8 DEF NotesHold
  <2>1. CASE m = n BY <1>3, <1>7, <1>9, <2>1
  <2>2. CASE m # n
    <3>1. m \in NotesSent /\ note'[m] = note[m] /\ note[m].in \in ThreadsMade
      BY <1>10, <2>2 DEF MessagingInv, NotesHold
    <3>2. note[m].at \in Nat BY <3>1 DEF NotesSent, MessagingInv, MessagingTypes, NoteRow
    <3>3. ASSUME "sends" \notin rung' PROVE thread'[note[m].in].last >= note[m].at
      <4>1. "sends" \notin rung /\ ~(note[m].in = b.in /\ note[m].at > b.at)
        BY <1>2, <3>1, <3>3
      <4>2. CASE note[m].in = b.in BY <1>3, <1>7, <3>2, <4>1, <4>2
      <4>3. CASE note[m].in # b.in
        BY <1>7, <1>15, <3>1, <4>1, <4>3 DEF MessagingInv, NotesHold
      <4> QED BY <4>2, <4>3
    <3> QED BY <3>1, <3>3
  <2> QED BY <2>1, <2>2
<1> QED BY <1>13, <1>14, <1>16, <1>17, <1>18, <1>19 DEF MessagingInv

\* Each step preserves the invariant
LEMMA MessagingNextInv == MessagingInv /\ [MessagingNext]_messagingVars => MessagingInv'
<1>1. MessagingInv /\ UNCHANGED messagingVars => MessagingInv'
  BY DEF messagingVars, MessagingInv, MessagingTypes, ThreadsInOrder, ThreadsHold, BoxesHold,
         NotesHold, FoundRow, ThreadsMade, NotesSent
<1> QED BY <1>1, FindThreadStep, MissThreadStep, CreateThreadStep, BeginSendStep, CommitSendStep, Zenon
        DEF MessagingNext

\* However requests overlap, conversations are numbered in order, and the one about to make a
\* conversation of two found none and is alone, unless another crossed it (MessagingService)
THEOREM MessagingInvariance == MessagingSpec => []MessagingInv
  BY MessagingInitInv, MessagingNextInv, PTL DEF MessagingSpec

\* ... and it is enough
LEMMA MessagingInvImplies == MessagingInv => MessagingSafety
<1> SUFFICES ASSUME MessagingInv PROVE MessagingSafety OBVIOUS
<1>1. MessagingTypeOK
  BY DEF MessagingInv, MessagingTypes, MessagingTypeOK, ThreadsHold, NotesHold, ThreadsMade,
         ThreadRow, BoxRow
<1>2. OneThreadOfTwo BY DEF MessagingInv, ThreadsHold, OneThreadOfTwo, Pair
<1>3. TheirsAlone BY DEF MessagingInv, FoundRow, TheirsAlone
<1>4. LatestDate BY DEF MessagingInv, NotesHold, LatestDate
<1> QED BY <1>1, <1>2, <1>3, <1>4 DEF MessagingSafety

-----------------------------------------------------------------------------
(***************************************************************************)
(* The socket. Who was in the room when a message was stored is in it as   *)
(* long as he is connected, and so hears it.                               *)
(***************************************************************************)

\* The shapes of a socket, of a message and of a frame under way
SocketRow == [of : Speakers \cup {"nobody"}, open : BOOLEAN, rooms : SUBSET Talks,
              heard : SUBSET Words]
WordRow == [in : Talks \cup {{}}, emitted : BOOLEAN]
FrameType == [do : {"idle", "join", "speak", "emit"}, by : Sockets \cup {"none"},
              in : Talks \cup {{}}, word : Words \cup {"none"}]

\* Types of the rows
GatewayTypes ==
  /\ socket \in [Sockets -> SocketRow] /\ word \in [Words -> WordRow]
  /\ frame \in [Frames -> FrameType] /\ there \in [Words -> SUBSET Sockets]
  /\ online \subseteq Speakers /\ doubles \subseteq Speakers

\* A socket is in rooms of its user's conversations while it is open, and has heard theirs
SocketsHold ==
  \A s \in Sockets :
    /\ ~Open(s) => socket[s].rooms = {}
    /\ Open(s) => socket[s].of \in Speakers
    /\ \A c \in socket[s].rooms : socket[s].of \in c
    /\ \A w \in socket[s].heard : socket[s].of \in word[w].in

\* What a client's event has found out
FrameRow(f) ==
  /\ f.do \in {"join", "speak"} => f.by \in Sockets /\ f.in \in Talks /\ socket[f.by].of \in f.in
  /\ f.do = "emit" => f.word \in Words /\ f.in \in Talks \ {{}} /\ word[f.word].in = f.in

\* Who was in the room stays in it while he is connected, and hears what is emitted
ThereHears ==
  \A w \in Words : \A s \in there[w] :
    /\ socket[s].of \in Speakers
    /\ Open(s) => word[w].in \in socket[s].rooms /\ (word[w].emitted => w \in socket[s].heard)

\* Those said to be online have a socket open
OnlineHolds ==
  /\ \A u \in online : \E s \in Sockets : Open(s) /\ socket[s].of = u
  /\ \A s \in Sockets : Open(s) => socket[s].of \in doubles \cup online
  /\ \A s, t \in Sockets :
       s # t /\ Open(s) /\ Open(t) /\ socket[s].of = socket[t].of => socket[s].of \in doubles

\* The inductive invariant
GatewayInv ==
  /\ GatewayTypes /\ SocketsHold /\ ThereHears /\ OnlineHolds
  /\ \A r \in Frames : FrameRow(frame[r])

\* The invariant holds at first
LEMMA GatewayInitInv == GatewayInit => GatewayInv
<1> SUFFICES ASSUME GatewayInit PROVE GatewayInv OBVIOUS
<1>1. GatewayTypes
  BY DEF GatewayInit, GatewayTypes, SocketRow, WordRow, FrameType, NoSocket, NoWord, NoFrame
<1>2. SocketsHold /\ ThereHears /\ OnlineHolds
  BY DEF GatewayInit, SocketsHold, ThereHears, OnlineHolds, NoSocket, Open
<1>3. \A r \in Frames : FrameRow(frame[r])
  BY DEF GatewayInit, FrameRow, NoFrame
<1> QED BY <1>1, <1>2, <1>3 DEF GatewayInv

\* A message that was said is in a conversation
LEMMA WordSaid ==
  \A k \in WordRow, c \in Talks :
    /\ [k EXCEPT !.in = c] \in WordRow /\ [k EXCEPT !.in = c].in = c
    /\ [k EXCEPT !.in = c].emitted = k.emitted
  BY DEF WordRow

\* A frame at rest
LEMMA IdleFrame == NoFrame \in FrameType /\ NoFrame.do = "idle" /\ FrameRow(NoFrame)
  BY DEF NoFrame, FrameType, FrameRow

\* A socket opens in the rooms of its user
LEMMA ConnectStep ==
  \A s \in Sockets, u \in Speakers : GatewayInv /\ Connect(s, u) => GatewayInv'
<1> SUFFICES ASSUME NEW s \in Sockets, NEW u \in Speakers, GatewayInv, Connect(s, u)
             PROVE GatewayInv'
  OBVIOUS
<1>1. PICK k \in SocketRow : k = socket[s] BY DEF GatewayInv, GatewayTypes
<1> DEFINE v == [k EXCEPT !.of = u, !.open = TRUE]
<1>2. v \in SocketRow /\ v.of = u /\ v.open /\ v.rooms = k.rooms /\ v.heard = k.heard
  BY DEF SocketRow
<1>3. socket' = [socket EXCEPT ![s] = v] BY <1>1 DEF Connect
<1>4. k = NoSocket /\ k.of = "nobody" /\ ~k.open /\ k.rooms = {} /\ k.heard = {}
  BY <1>1 DEF Connect, NoSocket
<1> HIDE DEF v
<1>5. socket' \in [Sockets -> SocketRow] /\ \A t \in Sockets : socket'[t] = IF t = s THEN v ELSE socket[t]
  BY <1>2, <1>3 DEF GatewayInv, GatewayTypes
<1>6. /\ online' = online \cup {u} /\ word' = word /\ frame' = frame /\ there' = there
      /\ doubles' = IF SocketsOf(u) # {} THEN doubles \cup {u} ELSE doubles
  BY DEF Connect
<1>7. GatewayTypes' BY <1>5, <1>6 DEF GatewayInv, GatewayTypes
<1>8. SocketsHold' BY <1>2, <1>4, <1>5, <1>6 DEF GatewayInv, SocketsHold, Open
<1>9. ThereHears'
  <2>1. \A w \in Words : s \notin there[w]
    BY <1>1, <1>4, GatewayAssumption DEF GatewayInv, ThereHears
  <2>2. \A w \in Words : \A t \in there[w] : t \in Sockets BY DEF GatewayInv, GatewayTypes
  <2> QED BY <1>5, <1>6, <2>1, <2>2 DEF GatewayInv, ThereHears, Open
<1>10. OnlineHolds'
  <2>1. \A w \in online' : \E t \in Sockets : Open(t)' /\ socket'[t].of = w
    <3> SUFFICES ASSUME NEW w \in online' PROVE \E t \in Sockets : Open(t)' /\ socket'[t].of = w
      OBVIOUS
    <3>1. CASE w = u BY <1>2, <1>5, <3>1 DEF Open
    <3>2. CASE w # u
      <4>1. PICK t \in Sockets : Open(t) /\ socket[t].of = w
        BY <1>6, <3>2 DEF GatewayInv, OnlineHolds
      <4>2. t # s BY <1>1, <1>4, <4>1 DEF Open
      <4> QED BY <1>5, <4>1, <4>2 DEF Open
    <3> QED BY <3>1, <3>2
  <2>2. \A t \in Sockets : Open(t)' => socket'[t].of \in doubles' \cup online'
    BY <1>2, <1>5, <1>6 DEF GatewayInv, OnlineHolds, Open
  <2>3. ASSUME NEW t \in Sockets, NEW x \in Sockets, t # x, Open(t)', Open(x)',
               socket'[t].of = socket'[x].of
        PROVE  socket'[t].of \in doubles'
    <3>1. CASE t # s /\ x # s
      BY <1>5, <1>6, <2>3, <3>1 DEF GatewayInv, OnlineHolds, Open
    <3>2. CASE t = s \/ x = s
      <4>1. PICK y \in Sockets : y # s /\ Open(y) /\ socket[y].of = u
        BY <1>2, <1>5, <2>3, <3>2 DEF Open
      <4>2. y \in SocketsOf(u) BY <4>1 DEF SocketsOf
      <4> QED BY <1>2, <1>5, <1>6, <2>3, <3>2, <4>2
    <3> QED BY <3>1, <3>2
  <2> QED BY <2>1, <2>2, <2>3 DEF OnlineHolds
<1>11. \A r \in Frames : FrameRow(frame[r])'
  <2> SUFFICES ASSUME NEW r \in Frames PROVE FrameRow(frame[r])' OBVIOUS
  <2>1. FrameRow(frame[r]) BY DEF GatewayInv
  <2>2. frame[r].do \in {"join", "speak"} => frame[r].by # s
    BY <1>1, <1>4, <2>1, GatewayAssumption DEF FrameRow, Speakers
  <2> QED BY <1>5, <1>6, <2>1, <2>2 DEF FrameRow
<1> QED BY <1>7, <1>8, <1>9, <1>10, <1>11 DEF GatewayInv

\* ... and closes
LEMMA DisconnectStep == \A s \in Sockets : GatewayInv /\ Disconnect(s) => GatewayInv'
<1> SUFFICES ASSUME NEW s \in Sockets, GatewayInv, Disconnect(s) PROVE GatewayInv' OBVIOUS
<1>1. PICK k \in SocketRow : k = socket[s] BY DEF GatewayInv, GatewayTypes
<1>2. k.open /\ k.of \in Speakers BY <1>1 DEF Disconnect, Open, GatewayInv, SocketsHold
<1> DEFINE v == [k EXCEPT !.open = FALSE, !.rooms = {}]
<1>3. v \in SocketRow /\ v.of = k.of /\ ~v.open /\ v.rooms = {} /\ v.heard = k.heard
  BY DEF SocketRow
<1>4. socket' = [socket EXCEPT ![s] = v] BY <1>1 DEF Disconnect
<1> HIDE DEF v
<1>5. socket' \in [Sockets -> SocketRow] /\ \A t \in Sockets : socket'[t] = IF t = s THEN v ELSE socket[t]
  BY <1>3, <1>4 DEF GatewayInv, GatewayTypes
<1>6. /\ online' = online \ {k.of} /\ word' = word /\ frame' = frame /\ there' = there
      /\ doubles' = IF SocketsOf(k.of) = {s} THEN doubles \ {k.of} ELSE doubles
  BY <1>1 DEF Disconnect, GoesOffline
<1>7. GatewayTypes' BY <1>5, <1>6 DEF GatewayInv, GatewayTypes
<1>8. SocketsHold' BY <1>1, <1>3, <1>5, <1>6 DEF GatewayInv, SocketsHold, Open
<1>9. ThereHears'
  <2>1. \A w \in Words : \A t \in there[w] : t \in Sockets BY DEF GatewayInv, GatewayTypes
  <2> QED BY <1>1, <1>3, <1>5, <1>6, <2>1 DEF GatewayInv, ThereHears, Open
<1>10. OnlineHolds'
  <2>1. \A w \in online' : \E t \in Sockets : Open(t)' /\ socket'[t].of = w
    <3> SUFFICES ASSUME NEW w \in online' PROVE \E t \in Sockets : Open(t)' /\ socket'[t].of = w
      OBVIOUS
    <3>1. PICK t \in Sockets : Open(t) /\ socket[t].of = w
      BY <1>6 DEF GatewayInv, OnlineHolds
    <3>2. t # s BY <1>1, <1>6, <3>1
    <3> QED BY <1>5, <3>1, <3>2 DEF Open
  <2>2. ASSUME NEW t \in Sockets, Open(t)' PROVE socket'[t].of \in doubles' \cup online'
    <3>1. t # s /\ Open(t) /\ socket'[t].of = socket[t].of BY <1>3, <1>5, <2>2 DEF Open
    <3>2. CASE socket[t].of = k.of
      <4>1. k.of \in doubles BY <1>1, <1>2, <3>1, <3>2 DEF GatewayInv, OnlineHolds, Open
      <4>2. t \in SocketsOf(k.of) BY <3>1, <3>2 DEF SocketsOf
      <4> QED BY <1>6, <3>1, <3>2, <4>1, <4>2
    <3>3. CASE socket[t].of # k.of
      BY <1>6, <3>1, <3>3 DEF GatewayInv, OnlineHolds
    <3> QED BY <3>2, <3>3
  <2>3. ASSUME NEW t \in Sockets, NEW x \in Sockets, t # x, Open(t)', Open(x)',
               socket'[t].of = socket'[x].of
        PROVE  socket'[t].of \in doubles'
    <3>1. t # s /\ x # s /\ Open(t) /\ Open(x) /\ socket'[t] = socket[t] /\ socket'[x] = socket[x]
      BY <1>3, <1>5, <2>3 DEF Open
    <3>2. socket[t].of \in doubles BY <2>3, <3>1 DEF GatewayInv, OnlineHolds
    <3>3. socket[t].of = k.of => t \in SocketsOf(k.of) BY <3>1 DEF SocketsOf
    <3> QED BY <1>6, <3>1, <3>2, <3>3
  <2> QED BY <2>1, <2>2, <2>3 DEF OnlineHolds
<1>11. \A r \in Frames : FrameRow(frame[r])'
  <2> SUFFICES ASSUME NEW r \in Frames PROVE FrameRow(frame[r])' OBVIOUS
  <2>1. FrameRow(frame[r]) BY DEF GatewayInv
  <2> QED BY <1>1, <1>3, <1>5, <1>6, <2>1 DEF FrameRow
<1> QED BY <1>7, <1>8, <1>9, <1>10, <1>11 DEF GatewayInv

\* An event that begins, of a participant
LEMMA FrameStep ==
  \A r \in Frames, s \in Sockets, c \in Talks :
    GatewayInv /\ (BeginJoin(r, s, c) \/ BeginSpeak(r, s, c)) => GatewayInv'
<1> SUFFICES ASSUME NEW r \in Frames, NEW s \in Sockets, NEW c \in Talks, GatewayInv,
                    BeginJoin(r, s, c) \/ BeginSpeak(r, s, c)
             PROVE GatewayInv'
  OBVIOUS
<1>1. PICK d \in {"join", "speak"} :
        frame' = [frame EXCEPT ![r] = [NoFrame EXCEPT !.do = d, !.by = s, !.in = c]]
  BY DEF BeginJoin, BeginSpeak
<1> DEFINE f == [NoFrame EXCEPT !.do = d, !.by = s, !.in = c]
<1>2. f \in FrameType /\ f.do = d /\ f.by = s /\ f.in = c BY DEF NoFrame, FrameType
<1>3. socket[s].of \in c /\ UNCHANGED <<socket, online, word, doubles, there>>
  BY DEF BeginJoin, BeginSpeak, MayJoin
<1> HIDE DEF f
<1>4. frame' \in [Frames -> FrameType] /\ \A q \in Frames : frame'[q] = IF q = r THEN f ELSE frame[q]
  BY <1>1, <1>2 DEF GatewayInv, GatewayTypes, f
<1>5. GatewayTypes' BY <1>3, <1>4 DEF GatewayInv, GatewayTypes
<1>6. SocketsHold' /\ ThereHears' /\ OnlineHolds'
  BY <1>3 DEF GatewayInv, SocketsHold, ThereHears, OnlineHolds, Open
<1>7. \A q \in Frames : FrameRow(frame[q])'
  BY <1>2, <1>3, <1>4 DEF GatewayInv, FrameRow
<1> QED BY <1>5, <1>6, <1>7 DEF GatewayInv

\* It joins a room its user may join
LEMMA JoinStep == \A r \in Frames : GatewayInv /\ Join(r) => GatewayInv'
<1> SUFFICES ASSUME NEW r \in Frames, GatewayInv, Join(r) PROVE GatewayInv' OBVIOUS
<1> DEFINE s == frame[r].by  c == frame[r].in
<1>1. s \in Sockets /\ c \in Talks /\ socket[s].of \in c BY DEF Join, GatewayInv, FrameRow
<1>2. /\ socket' = [socket EXCEPT ![s].rooms = IF Open(s) THEN @ \cup {c} ELSE @]
      /\ frame' = [frame EXCEPT ![r] = NoFrame] /\ UNCHANGED <<online, word, doubles, there>>
  BY DEF Join, FrameEnds
<1> HIDE DEF s, c
<1>3. PICK k \in SocketRow : k = socket[s] BY <1>1 DEF GatewayInv, GatewayTypes
<1>4. PICK v \in SocketRow :
        /\ socket' = [socket EXCEPT ![s] = v] /\ v.of = k.of /\ v.open = k.open /\ v.heard = k.heard
        /\ k.rooms \subseteq v.rooms /\ (v.open => v.rooms = k.rooms \cup {c})
        /\ (~v.open => v.rooms = k.rooms)
  <2>1. CASE k.open
    <3> DEFINE v == [k EXCEPT !.rooms = k.rooms \cup {c}]
    <3>1. v \in SocketRow /\ v.of = k.of /\ v.open = k.open /\ v.heard = k.heard
          /\ v.rooms = k.rooms \cup {c}
      BY <1>1 DEF SocketRow
    <3>2. socket' = [socket EXCEPT ![s] = v] BY <1>2, <1>3, <2>1 DEF Open
    <3> HIDE DEF v
    <3> QED BY <2>1, <3>1, <3>2
  <2>2. CASE ~k.open
    <3>1. socket' = [socket EXCEPT ![s] = k]
      <4>1. [k EXCEPT !.rooms = k.rooms] = k BY DEF SocketRow
      <4>2. socket' = [socket EXCEPT ![s] = [k EXCEPT !.rooms = k.rooms]]
        BY <1>2, <1>3, <2>2 DEF Open
      <4> QED BY <4>1, <4>2
    <3> QED BY <2>2, <3>1
  <2> QED BY <2>1, <2>2
<1>5. socket' \in [Sockets -> SocketRow] /\ \A t \in Sockets : socket'[t] = IF t = s THEN v ELSE socket[t]
  BY <1>4 DEF GatewayInv, GatewayTypes
<1>6. GatewayTypes' BY <1>2, <1>5, IdleFrame DEF GatewayInv, GatewayTypes
<1>7. SocketsHold' BY <1>1, <1>2, <1>3, <1>4, <1>5 DEF GatewayInv, SocketsHold, Open
<1>8. ThereHears'
  <2>1. \A w \in Words : \A t \in there[w] : t \in Sockets BY DEF GatewayInv, GatewayTypes
  <2> QED BY <1>2, <1>3, <1>4, <1>5, <2>1 DEF GatewayInv, ThereHears, Open
<1>9. OnlineHolds'
  <2>1. \A t \in Sockets : Open(t)' = Open(t) /\ socket'[t].of = socket[t].of
    BY <1>3, <1>4, <1>5 DEF Open
  <2>2. online' = online /\ doubles' = doubles BY <1>2
  <2> QED BY <2>1, <2>2 DEF GatewayInv, OnlineHolds
<1>10. \A q \in Frames : FrameRow(frame[q])'
  <2> SUFFICES ASSUME NEW q \in Frames PROVE FrameRow(frame[q])' OBVIOUS
  <2>1. frame'[q] = NoFrame \/ frame'[q] = frame[q] BY <1>2 DEF GatewayInv, GatewayTypes
  <2>2. \A t \in Sockets : socket'[t].of = socket[t].of BY <1>3, <1>4, <1>5
  <2>3. FrameRow(frame[q]) BY DEF GatewayInv
  <2>4. CASE frame'[q] = NoFrame BY <2>4, IdleFrame DEF FrameRow
  <2>5. CASE frame'[q] = frame[q] BY <1>2, <2>2, <2>3, <2>5 DEF FrameRow
  <2> QED BY <2>1, <2>4, <2>5
<1> QED BY <1>6, <1>7, <1>8, <1>9, <1>10 DEF GatewayInv

\* The message of a frame is stored
LEMMA CommitWordStep ==
  \A r \in Frames, w \in Words : GatewayInv /\ CommitWord(r, w) => GatewayInv'
<1> SUFFICES ASSUME NEW r \in Frames, NEW w \in Words, GatewayInv, CommitWord(r, w)
             PROVE GatewayInv'
  OBVIOUS
<1> DEFINE c == frame[r].in
<1>1. c \in Talks /\ c # {} BY DEF CommitWord, GatewayInv, FrameRow
<1>2. PICK f \in FrameType : f = frame[r] BY DEF GatewayInv, GatewayTypes
<1>3. /\ word' = [word EXCEPT ![w].in = c] /\ there' = [there EXCEPT ![w] = InRoom(c)]
      /\ frame' = [frame EXCEPT ![r].do = "emit", ![r].word = w]
      /\ UNCHANGED <<socket, online, doubles>> /\ word[w] = NoWord
  BY DEF CommitWord, Said
<1>4. PICK k \in WordRow : k = word[w] BY DEF GatewayInv, GatewayTypes
<1> DEFINE v == [k EXCEPT !.in = c]
<1>5. /\ v \in WordRow /\ v.in = c /\ v.emitted = k.emitted
      /\ word' = [word EXCEPT ![w] = v] /\ ~k.emitted
  BY <1>1, <1>3, <1>4, WordSaid DEF NoWord
<1> DEFINE g == [f EXCEPT !.do = "emit", !.word = w]
<1>6. g \in FrameType /\ g.do = "emit" /\ g.word = w /\ g.in = f.in BY DEF FrameType
<1>7. frame' = [frame EXCEPT ![r] = g] BY <1>2, <1>3
<1>a. f.in = c BY <1>2
<1> HIDE DEF g, c, v
<1>8. frame' \in [Frames -> FrameType] /\ \A q \in Frames : frame'[q] = IF q = r THEN g ELSE frame[q]
  BY <1>6, <1>7 DEF GatewayInv, GatewayTypes
<1>9. /\ word' \in [Words -> WordRow] /\ word'[w].in = c /\ ~word'[w].emitted
      /\ \A x \in Words \ {w} : word'[x] = word[x]
  BY <1>1, <1>5 DEF GatewayInv, GatewayTypes, WordRow
<1>10. there' \in [Words -> SUBSET Sockets] BY <1>3 DEF GatewayInv, GatewayTypes, InRoom
<1>11. GatewayTypes' BY <1>3, <1>8, <1>9, <1>10 DEF GatewayInv, GatewayTypes
<1>12. word[w].in = {} /\ ~word[w].emitted BY <1>3 DEF NoWord
<1>13. SocketsHold'
  <2>1. \A s \in Sockets : w \notin socket[s].heard BY <1>12 DEF GatewayInv, SocketsHold
  <2>2. \A s \in Sockets : socket[s].heard \subseteq Words
    BY DEF GatewayInv, GatewayTypes, SocketRow
  <2> QED BY <1>3, <1>9, <2>1, <2>2 DEF GatewayInv, SocketsHold, Open
<1>14. ThereHears'
  <2> SUFFICES ASSUME NEW x \in Words, NEW s \in there'[x]
               PROVE  /\ socket[s].of \in Speakers
                      /\ Open(s) => word'[x].in \in socket[s].rooms
                                    /\ (word'[x].emitted => x \in socket[s].heard)
    BY <1>3 DEF ThereHears, Open
  <2>1. CASE x = w
    <3>1. s \in InRoom(c) BY <1>3, <2>1 DEF GatewayInv, GatewayTypes
    <3> QED BY <1>9, <2>1, <3>1 DEF InRoom, GatewayInv, SocketsHold
  <2>2. CASE x # w
    <3>1. there'[x] = there[x] BY <1>3, <2>2 DEF GatewayInv, GatewayTypes
    <3> QED BY <1>9, <2>2, <3>1 DEF GatewayInv, ThereHears
  <2> QED BY <2>1, <2>2
<1>15. OnlineHolds' BY <1>3 DEF GatewayInv, OnlineHolds, Open
<1>16. \A q \in Frames : FrameRow(frame[q])'
  <2> SUFFICES ASSUME NEW q \in Frames PROVE FrameRow(frame[q])' OBVIOUS
  <2>1. CASE q = r BY <1>1, <1>6, <1>8, <1>9, <1>a, <2>1 DEF FrameRow
  <2>2. CASE q # r
    <3>1. frame'[q] = frame[q] /\ FrameRow(frame[q]) BY <1>8, <2>2 DEF GatewayInv
    <3>2. frame[q].do = "emit" => frame[q].word # w
      <4> SUFFICES ASSUME frame[q].do = "emit", frame[q].word = w PROVE FALSE OBVIOUS
      <4>1. frame[q].in = {} BY <1>12, <3>1 DEF FrameRow
      <4> QED BY <3>1, <4>1 DEF FrameRow
    <3> QED BY <1>3, <1>9, <3>1, <3>2 DEF FrameRow
  <2> QED BY <2>1, <2>2
<1> QED BY <1>11, <1>13, <1>14, <1>15, <1>16 DEF GatewayInv

\* A stored message is emitted to those in the room
LEMMA EmitStep == \A r \in Frames : GatewayInv /\ Emit(r) => GatewayInv'
<1> SUFFICES ASSUME NEW r \in Frames, GatewayInv, Emit(r) PROVE GatewayInv' OBVIOUS
<1> DEFINE w == frame[r].word  c == frame[r].in
<1>1. w \in Words /\ c \in Talks /\ word[w].in = c BY DEF Emit, GatewayInv, FrameRow
<1>2. /\ socket' = [s \in Sockets |-> IF s \in InRoom(c)
                      THEN [socket[s] EXCEPT !.heard = @ \cup {w}] ELSE socket[s]]
      /\ word' = [word EXCEPT ![w].emitted = TRUE]
      /\ frame' = [frame EXCEPT ![r] = NoFrame] /\ UNCHANGED <<online, doubles, there>>
  BY DEF Emit, FrameEnds, Room
<1> HIDE DEF w, c
<1>3. \A s \in Sockets :
        /\ socket'[s] \in SocketRow /\ socket'[s].of = socket[s].of
        /\ socket'[s].open = socket[s].open /\ socket'[s].rooms = socket[s].rooms
        /\ socket'[s].heard = IF s \in InRoom(c) THEN socket[s].heard \cup {w} ELSE socket[s].heard
  <2> SUFFICES ASSUME NEW s \in Sockets
               PROVE /\ socket'[s] \in SocketRow /\ socket'[s].of = socket[s].of
                     /\ socket'[s].open = socket[s].open /\ socket'[s].rooms = socket[s].rooms
                     /\ socket'[s].heard =
                          IF s \in InRoom(c) THEN socket[s].heard \cup {w} ELSE socket[s].heard
    OBVIOUS
  <2>1. PICK k \in SocketRow : k = socket[s] BY DEF GatewayInv, GatewayTypes
  <2>2. CASE s \in InRoom(c)
    <3>1. [k EXCEPT !.heard = k.heard \cup {w}] \in SocketRow
          /\ [k EXCEPT !.heard = k.heard \cup {w}].of = k.of
          /\ [k EXCEPT !.heard = k.heard \cup {w}].open = k.open
          /\ [k EXCEPT !.heard = k.heard \cup {w}].rooms = k.rooms
          /\ [k EXCEPT !.heard = k.heard \cup {w}].heard = k.heard \cup {w}
      BY <1>1 DEF SocketRow
    <3>2. socket'[s] = [k EXCEPT !.heard = k.heard \cup {w}] BY <1>2, <2>1, <2>2
    <3> QED BY <2>1, <2>2, <3>1, <3>2
  <2>3. CASE s \notin InRoom(c) BY <1>2, <2>1, <2>3
  <2> QED BY <2>2, <2>3
<1>4. PICK x \in WordRow : x = word[w] BY <1>1 DEF GatewayInv, GatewayTypes
<1>5. [x EXCEPT !.emitted = TRUE] \in WordRow /\ [x EXCEPT !.emitted = TRUE].in = x.in
  BY DEF WordRow
<1>6. /\ word' \in [Words -> WordRow] /\ word'[w].in = word[w].in
      /\ \A y \in Words \ {w} : word'[y] = word[y]
  <2>1. word' = [word EXCEPT ![w] = [x EXCEPT !.emitted = TRUE]] BY <1>2, <1>4
  <2> QED BY <1>1, <1>4, <1>5, <2>1 DEF GatewayInv, GatewayTypes
<1>7. \A y \in Words : word'[y].in = word[y].in BY <1>6
<1>8. socket' \in [Sockets -> SocketRow] BY <1>2, <1>3
<1>9. GatewayTypes' BY <1>2, <1>6, <1>8, IdleFrame DEF GatewayInv, GatewayTypes
<1>10. SocketsHold'
  <2> SUFFICES ASSUME NEW s \in Sockets
               PROVE  /\ ~socket[s].open => socket[s].rooms = {}
                      /\ socket[s].open => socket[s].of \in Speakers
                      /\ \A d \in socket[s].rooms : socket[s].of \in d
                      /\ \A y \in socket'[s].heard : socket[s].of \in word'[y].in
    BY <1>3 DEF SocketsHold, Open
  <2>1. \A y \in socket[s].heard : y \in Words /\ socket[s].of \in word[y].in
    BY DEF GatewayInv, GatewayTypes, SocketRow, SocketsHold
  <2>2. s \in InRoom(c) => socket[s].of \in word[w].in
    BY <1>1 DEF InRoom, GatewayInv, SocketsHold
  <2>3. \A y \in socket'[s].heard : socket[s].of \in word'[y].in
    BY <1>1, <1>3, <1>7, <2>1, <2>2
  <2> QED BY <2>3 DEF GatewayInv, SocketsHold, Open
<1>11. ThereHears'
  <2> SUFFICES ASSUME NEW y \in Words, NEW s \in there[y]
               PROVE  /\ socket[s].of \in Speakers
                      /\ Open(s) => word[y].in \in socket[s].rooms
                                    /\ (word'[y].emitted => y \in socket'[s].heard)
    <3>1. \A z \in Words : \A t \in there[z] : t \in Sockets BY DEF GatewayInv, GatewayTypes
    <3> QED BY <1>2, <1>3, <1>7, <3>1 DEF ThereHears, Open
  <2>1. s \in Sockets BY DEF GatewayInv, GatewayTypes
  <2>2. CASE y = w
    <3>1. Open(s) => s \in InRoom(c) BY <1>1, <2>1, <2>2 DEF GatewayInv, ThereHears, InRoom
    <3> QED BY <1>3, <2>1, <2>2, <3>1 DEF GatewayInv, ThereHears
  <2>3. CASE y # w BY <1>3, <1>6, <2>1, <2>3 DEF GatewayInv, ThereHears
  <2> QED BY <2>2, <2>3
<1>12. OnlineHolds'
  <2>1. \A t \in Sockets : Open(t)' = Open(t) /\ socket'[t].of = socket[t].of
    BY <1>3 DEF Open
  <2>2. online' = online /\ doubles' = doubles BY <1>2
  <2> QED BY <2>1, <2>2 DEF GatewayInv, OnlineHolds
<1>13. \A q \in Frames : FrameRow(frame[q])'
  <2> SUFFICES ASSUME NEW q \in Frames PROVE FrameRow(frame[q])' OBVIOUS
  <2>1. frame'[q] = NoFrame \/ frame'[q] = frame[q] BY <1>2 DEF GatewayInv, GatewayTypes
  <2>2. FrameRow(frame[q]) BY DEF GatewayInv
  <2>3. CASE frame'[q] = NoFrame BY <2>3, IdleFrame DEF FrameRow
  <2>4. CASE frame'[q] = frame[q] BY <1>3, <1>7, <2>2, <2>4 DEF FrameRow
  <2> QED BY <2>1, <2>3, <2>4
<1> QED BY <1>9, <1>10, <1>11, <1>12, <1>13 DEF GatewayInv

\* The server restarts: every socket closes
LEMMA RestartStep == GatewayInv /\ RestartGateway => GatewayInv'
<1> SUFFICES ASSUME GatewayInv, RestartGateway PROVE GatewayInv' OBVIOUS
<1>1. /\ socket' = [s \in Sockets |-> [socket[s] EXCEPT !.open = FALSE, !.rooms = {}]]
      /\ online' = {} /\ doubles' = {} /\ frame' = [r \in Frames |-> NoFrame]
      /\ word' = word /\ there' = there
  BY DEF RestartGateway
<1>2. \A s \in Sockets :
        /\ socket'[s] \in SocketRow /\ socket'[s].of = socket[s].of /\ ~socket'[s].open
        /\ socket'[s].rooms = {} /\ socket'[s].heard = socket[s].heard
  <2> SUFFICES ASSUME NEW s \in Sockets
               PROVE /\ socket'[s] \in SocketRow /\ socket'[s].of = socket[s].of /\ ~socket'[s].open
                     /\ socket'[s].rooms = {} /\ socket'[s].heard = socket[s].heard
    OBVIOUS
  <2>1. PICK k \in SocketRow : k = socket[s] BY DEF GatewayInv, GatewayTypes
  <2>2. socket'[s] = [k EXCEPT !.open = FALSE, !.rooms = {}] BY <1>1, <2>1
  <2>3. [k EXCEPT !.open = FALSE, !.rooms = {}] \in SocketRow
        /\ [k EXCEPT !.open = FALSE, !.rooms = {}].of = k.of
        /\ ~[k EXCEPT !.open = FALSE, !.rooms = {}].open
        /\ [k EXCEPT !.open = FALSE, !.rooms = {}].rooms = {}
        /\ [k EXCEPT !.open = FALSE, !.rooms = {}].heard = k.heard
    BY DEF SocketRow
  <2> QED BY <2>1, <2>2, <2>3
<1>3. socket' \in [Sockets -> SocketRow] BY <1>1, <1>2
<1>4. GatewayTypes' BY <1>1, <1>3, IdleFrame DEF GatewayInv, GatewayTypes
<1>5. SocketsHold' BY <1>1, <1>2 DEF GatewayInv, SocketsHold, Open
<1>6. ThereHears'
  <2>1. \A w \in Words : \A t \in there[w] : t \in Sockets BY DEF GatewayInv, GatewayTypes
  <2> QED BY <1>1, <1>2, <2>1 DEF GatewayInv, ThereHears, Open
<1>7. OnlineHolds' BY <1>1, <1>2 DEF OnlineHolds, Open
<1>8. \A q \in Frames : FrameRow(frame[q])' BY <1>1, IdleFrame DEF FrameRow
<1> QED BY <1>4, <1>5, <1>6, <1>7, <1>8 DEF GatewayInv

\* Each step preserves the invariant
LEMMA GatewayNextInv == GatewayInv /\ [GatewayNext]_gatewayVars => GatewayInv'
<1>1. GatewayInv /\ UNCHANGED gatewayVars => GatewayInv'
  BY DEF gatewayVars, GatewayInv, GatewayTypes, SocketsHold, ThereHears, OnlineHolds, FrameRow, Open
<1> QED BY <1>1, ConnectStep, DisconnectStep, FrameStep, JoinStep, CommitWordStep, EmitStep, RestartStep,
           Zenon DEF GatewayNext

\* Whatever sockets come and go, who was in the room when a message was stored is in it while
\* he is connected, and has heard what was emitted (MessagingGateway)
THEOREM GatewayInvariance == GatewaySpec => []GatewayInv
  BY GatewayInitInv, GatewayNextInv, PTL DEF GatewaySpec

\* ... and it is enough
LEMMA GatewayInvImplies == GatewayInv => GatewaySafety
<1> SUFFICES ASSUME GatewayInv PROVE GatewaySafety OBVIOUS
<1>1. GatewayTypeOK
  BY DEF GatewayInv, GatewayTypes, SocketsHold, GatewayTypeOK, WordRow, FrameType
<1>2. OnlineIsConnected BY DEF GatewayInv, OnlineHolds, OnlineIsConnected
<1>3. RoomHears BY DEF GatewayInv, ThereHears, RoomHears
<1> QED BY <1>1, <1>2, <1>3 DEF GatewaySafety

-----------------------------------------------------------------------------
(***************************************************************************)
(* Notifications: one that is pushed or streamed has its row, and a token  *)
(* is disabled because the application is gone.                            *)
(***************************************************************************)

\* The shapes of a notification and of its push
NoticeRow == [of : Readers \cup {NoOne}, row : {"none", "asked", "failed", "live", "deleted"},
              read : BOOLEAN, streamed : BOOLEAN, due : BOOLEAN]
PushRow == [at : {"none", "told", "read", "send", "disable", "done"}, tokens : SUBSET Devices,
            off : SUBSET Devices]

\* Types of the rows
NoticesTypes ==
  /\ notice \in [Bells -> NoticeRow] /\ push \in [Bells -> PushRow]
  /\ device \in [Readers -> [Devices -> {"none", "on", "off"}]] /\ stream \subseteq Readers

\* A notification k and its push p
Rings(k, p) ==
  /\ k.of = NoOne => k.row = "none"
  /\ k.row \in {"none", "asked", "failed"} => ~k.streamed /\ p = NoPush
  /\ k.due => k.of \in stream
  /\ k.due /\ p.at \notin {"none", "told"} => k.streamed
  /\ p.at = "disable" => \A t \in p.off : t \in dead \/ <<k.of, t>> \in spoilt

\* The inductive invariant
NoticesInv == NoticesTypes /\ (\A n \in Bells : Rings(notice[n], push[n])) /\ OffIsDead

\* What nobody asked for yet
LEMMA Blank == NoNotice \in NoticeRow /\ NoPush \in PushRow /\ NoPush.at = "none"
<1>1. NoPush \in PushRow /\ NoPush.at = "none" BY DEF NoPush, PushRow
<1>2. NoNotice \in NoticeRow BY DEF NoNotice, NoticeRow
<1> QED BY <1>1, <1>2

\* The invariant holds at first
LEMMA NoticesInitInv == NoticesInit => NoticesInv
<1> SUFFICES ASSUME NoticesInit PROVE NoticesInv OBVIOUS
<1>1. NoticesTypes BY Blank DEF NoticesInit, NoticesTypes
<1>2. Rings(NoNotice, NoPush)
  <2>1. NoNotice.of = NoOne /\ NoNotice.row = "none" /\ ~NoNotice.streamed /\ ~NoNotice.due
    BY DEF NoNotice
  <2> QED BY <2>1, Blank DEF Rings
<1>3. \A n \in Bells : notice[n] = NoNotice /\ push[n] = NoPush BY DEF NoticesInit
<1>4. OffIsDead BY DEF NoticesInit, OffIsDead
<1> QED BY <1>1, <1>2, <1>3, <1>4 DEF NoticesInv

\* One notification and its push change
LEMMA OneBell ==
  ASSUME NoticesInv, NEW n \in Bells, NEW k \in NoticeRow, NEW p \in PushRow,
         notice' = [notice EXCEPT ![n] = k], push' = [push EXCEPT ![n] = p],
         UNCHANGED <<device, dead, stream>>, spoilt \subseteq spoilt', Rings(k, p)'
  PROVE  NoticesInv'
<1>1. NoticesTypes' BY DEF NoticesInv, NoticesTypes
<1>2. /\ notice'[n] = k /\ push'[n] = p
      /\ \A m \in Bells \ {n} : notice'[m] = notice[m] /\ push'[m] = push[m]
  BY DEF NoticesInv, NoticesTypes
<1>3. \A m \in Bells : Rings(notice[m], push[m])' BY <1>2 DEF NoticesInv, Rings
<1>4. OffIsDead' BY DEF NoticesInv, OffIsDead
<1> QED BY <1>1, <1>3, <1>4 DEF NoticesInv

\* ... or only its push
LEMMA OnePush ==
  ASSUME NoticesInv, NEW n \in Bells, NEW p \in PushRow, push' = [push EXCEPT ![n] = p],
         UNCHANGED <<notice, device, dead, stream>>, spoilt \subseteq spoilt',
         push[n].at \in {"read", "send"}, p.at \in {"send", "disable", "done"},
         p.at = "disable" => \A t \in p.off : t \in dead' \/ <<notice[n].of, t>> \in spoilt'
  PROVE  NoticesInv'
<1>1. NoticesTypes' BY DEF NoticesInv, NoticesTypes
<1>2. /\ push'[n] = p
      /\ \A m \in Bells \ {n} : push'[m] = push[m]
  BY DEF NoticesInv, NoticesTypes
<1>3. \A m \in Bells \ {n} : Rings(notice[m], push[m])' BY <1>2 DEF NoticesInv, Rings
<1>4. Rings(notice[n], push[n])'
  <2>1. notice[n].row \notin {"none", "asked", "failed"} BY Blank DEF NoticesInv, Rings
  <2> QED BY <1>2, <2>1 DEF NoticesInv, Rings
<1>5. OffIsDead' BY DEF NoticesInv, OffIsDead
<1> QED BY <1>1, <1>3, <1>4, <1>5 DEF NoticesInv

\* A notification is asked for
LEMMA AskStep == \A n \in Bells, u \in Readers : NoticesInv /\ AskNotice(n, u) => NoticesInv'
<1> SUFFICES ASSUME NEW n \in Bells, NEW u \in Readers, NoticesInv, AskNotice(n, u)
             PROVE NoticesInv'
  OBVIOUS
<1>1. PICK k \in NoticeRow : k = notice[n] BY DEF NoticesInv, NoticesTypes
<1>2. PICK p \in PushRow : p = push[n] BY DEF NoticesInv, NoticesTypes
<1> DEFINE v == [k EXCEPT !.of = u, !.row = "asked"]
<1>3. v \in NoticeRow /\ v.of = u /\ v.row = "asked" /\ v.streamed = k.streamed /\ v.due = k.due
  BY DEF NoticeRow
<1>4. notice' = [notice EXCEPT ![n] = v] BY <1>1 DEF AskNotice
<1>5. push' = [push EXCEPT ![n] = p] /\ UNCHANGED <<device, dead, stream, spoilt>>
  BY <1>2 DEF AskNotice, NoticesInv, NoticesTypes
<1>6. k.of = NoOne BY <1>1 DEF AskNotice, Wanted
<1>7. Rings(k, p) BY <1>1, <1>2 DEF NoticesInv
<1>8. k.row = "none" /\ ~k.streamed /\ p = NoPush BY <1>6, <1>7 DEF Rings
<1>9. ~k.due
  BY <1>6, <1>7, NoticesAssumption DEF Rings, NoticesInv, NoticesTypes
<1> HIDE DEF v
<1>10. Rings(v, p)' BY <1>3, <1>5, <1>8, <1>9, Blank, NoticesAssumption DEF Rings
<1> QED BY <1>3, <1>4, <1>5, <1>10, OneBell

\* Its row is inserted, or is not
LEMMA InsertNoticeStep ==
  \A n \in Bells, fails \in BOOLEAN : NoticesInv /\ InsertNotice(n, fails) => NoticesInv'
<1> SUFFICES ASSUME NEW n \in Bells, NEW fails \in BOOLEAN, NoticesInv, InsertNotice(n, fails)
             PROVE NoticesInv'
  OBVIOUS
<1>1. PICK k \in NoticeRow : k = notice[n] BY DEF NoticesInv, NoticesTypes
<1>2. PICK p \in PushRow : p = push[n] BY DEF NoticesInv, NoticesTypes
<1>3. PICK row \in {"failed", "live"} : row = IF fails THEN "failed" ELSE "live" OBVIOUS
<1>4. PICK told \in BOOLEAN : told = (~fails /\ k.of \in stream) OBVIOUS
<1> DEFINE v == [k EXCEPT !.row = row, !.due = told]
           q == IF fails THEN p ELSE [p EXCEPT !.at = "told"]
<1>5. v \in NoticeRow /\ v.of = k.of /\ v.row = row /\ v.streamed = k.streamed /\ v.due = told
  BY DEF NoticeRow
<1>6. q \in PushRow /\ (fails => q = p) /\ (~fails => q.at = "told") BY DEF PushRow
<1>7. notice' = [notice EXCEPT ![n] = v] BY <1>1, <1>3, <1>4 DEF InsertNotice
<1>8. push' = [push EXCEPT ![n] = q] /\ UNCHANGED <<device, dead, stream, spoilt>>
  <2>1. CASE fails BY <1>2, <2>1 DEF InsertNotice, Follows, NoticesInv, NoticesTypes
  <2>2. CASE ~fails BY <1>2, <2>2 DEF InsertNotice, Follows
  <2> QED BY <2>1, <2>2
<1>9. k.row = "asked" /\ Rings(k, p) BY <1>1, <1>2 DEF NoticesInv, InsertNotice
<1>10. k.of # NoOne /\ ~k.streamed /\ p = NoPush BY <1>9 DEF Rings
<1> HIDE DEF v, q
<1>11. Rings(v, q)'
  <2>1. CASE fails BY <1>3, <1>4, <1>5, <1>6, <1>8, <1>10, <2>1, Blank DEF Rings
  <2>2. CASE ~fails BY <1>3, <1>4, <1>5, <1>6, <1>8, <1>10, <2>2 DEF Rings
  <2> QED BY <2>1, <2>2
<1> QED BY <1>5, <1>6, <1>7, <1>8, <1>11, OneBell

\* It goes down the stream, if one is open
LEMMA StreamStep == \A n \in Bells : NoticesInv /\ EmitNotice(n) => NoticesInv'
<1> SUFFICES ASSUME NEW n \in Bells, NoticesInv, EmitNotice(n) PROVE NoticesInv'
  OBVIOUS
<1>1. PICK k \in NoticeRow : k = notice[n] BY DEF NoticesInv, NoticesTypes
<1>2. PICK p \in PushRow : p = push[n] BY DEF NoticesInv, NoticesTypes
<1>3. PICK told \in BOOLEAN : told = (TRUE /\ k.of \in stream) OBVIOUS
<1> DEFINE v == [k EXCEPT !.streamed = told]
           q == [p EXCEPT !.at = "read"]
<1>4. v \in NoticeRow /\ v.of = k.of /\ v.row = k.row /\ v.streamed = told /\ v.due = k.due
  BY DEF NoticeRow
<1>5. q \in PushRow /\ q.at = "read" BY DEF PushRow
<1>6. /\ notice' = [notice EXCEPT ![n] = v] /\ push' = [push EXCEPT ![n] = q]
      /\ UNCHANGED <<device, dead, stream, spoilt>>
  BY <1>1, <1>2, <1>3 DEF EmitNotice, StreamOf
<1>7. p.at = "told" /\ Rings(k, p) BY <1>1, <1>2 DEF NoticesInv, EmitNotice
<1>8. k.row \notin {"none", "asked", "failed"} BY <1>7, Blank DEF Rings
<1> HIDE DEF v, q
<1>9. Rings(v, q)' BY <1>3, <1>4, <1>5, <1>6, <1>7, <1>8 DEF Rings
<1> QED BY <1>4, <1>5, <1>6, <1>9, OneBell

\* It is pushed to the devices read
LEMMA PushStep ==
  \A n \in Bells, busy \in SUBSET Devices :
    NoticesInv /\ (ReadTokens(n) \/ Answered(n, busy) \/ Malformed(n) \/ NoAnswer(n)) => NoticesInv'
<1> SUFFICES ASSUME NEW n \in Bells, NEW busy \in SUBSET Devices, NoticesInv
             PROVE  ReadTokens(n) \/ Answered(n, busy) \/ Malformed(n) \/ NoAnswer(n) => NoticesInv'
  OBVIOUS
<1>1. PICK p \in PushRow : p = push[n] BY DEF NoticesInv, NoticesTypes
<1>2. ASSUME ReadTokens(n) PROVE NoticesInv'
  <2>1. PICK at \in {"done", "send"} : at = IF ActiveTokens(notice[n].of) = {} THEN "done" ELSE "send"
    OBVIOUS
  <2>2. PICK some \in SUBSET Devices : some = ActiveTokens(notice[n].of) BY DEF ActiveTokens
  <2> DEFINE q == [p EXCEPT !.at = at, !.tokens = some]
  <2>3. q \in PushRow /\ q.at = at BY DEF PushRow
  <2>4. push' = [push EXCEPT ![n] = q] /\ UNCHANGED <<notice, device, dead, stream, spoilt>>
    BY <1>1, <1>2, <2>1, <2>2 DEF ReadTokens
  <2>5. push[n].at = "read" BY <1>2 DEF ReadTokens
  <2> HIDE DEF q
  <2> QED BY <2>1, <2>3, <2>4, <2>5, OnePush
<1>3. ASSUME Answered(n, busy) PROVE NoticesInv'
  <2> DEFINE q == [p EXCEPT !.at = "disable", !.off = p.tokens \cap dead]
  <2>1. q \in PushRow /\ q.at = "disable" /\ q.off = p.tokens \cap dead BY DEF PushRow
  <2>2. /\ push[n].at = "send" /\ push' = [push EXCEPT ![n] = q]
        /\ UNCHANGED <<notice, device, dead, stream, spoilt>>
    BY <1>1, <1>3 DEF Answered, Refused
  <2> HIDE DEF q
  <2> QED BY <2>1, <2>2, OnePush
<1>4. ASSUME Malformed(n) PROVE NoticesInv'
  <2> DEFINE q == [p EXCEPT !.at = "disable", !.off = p.tokens]
  <2>1. q \in PushRow /\ q.at = "disable" /\ q.off = p.tokens BY DEF PushRow
  <2>2. /\ push[n].at = "send" /\ push' = [push EXCEPT ![n] = q]
        /\ UNCHANGED <<notice, device, dead, stream>>
        /\ spoilt' = spoilt \cup {<<notice[n].of, t>> : t \in p.tokens}
    BY <1>1, <1>4 DEF Malformed
  <2>3. \A t \in q.off : <<notice[n].of, t>> \in spoilt' BY <2>1, <2>2
  <2> HIDE DEF q
  <2> QED BY <2>1, <2>2, <2>3, OnePush
<1>5. ASSUME NoAnswer(n) PROVE NoticesInv'
  <2> DEFINE q == [p EXCEPT !.at = "done"]
  <2>1. q \in PushRow /\ q.at = "done" BY DEF PushRow
  <2>2. /\ push[n].at = "send" /\ push' = [push EXCEPT ![n] = q]
        /\ UNCHANGED <<notice, device, dead, stream, spoilt>>
    BY <1>1, <1>5 DEF NoAnswer
  <2> HIDE DEF q
  <2> QED BY <2>1, <2>2, OnePush
<1> QED BY <1>2, <1>3, <1>4, <1>5

\* The tokens that were refused are disabled
LEMMA DisableStep == \A n \in Bells : NoticesInv /\ DisableTokens(n) => NoticesInv'
<1> SUFFICES ASSUME NEW n \in Bells, NoticesInv, DisableTokens(n) PROVE NoticesInv'
  OBVIOUS
<1>1. PICK p \in PushRow : p = push[n] BY DEF NoticesInv, NoticesTypes
<1>2. PICK u : u = notice[n].of OBVIOUS
<1> DEFINE q == [NoPush EXCEPT !.at = "done"]
<1>3. q \in PushRow /\ q.at = "done"
  <2>1. PICK b \in PushRow : b = NoPush BY Blank
  <2>2. q = [b EXCEPT !.at = "done"] BY <2>1
  <2> HIDE DEF q
  <2> QED BY <2>2 DEF PushRow
<1>4. /\ p.at = "disable" /\ push' = [push EXCEPT ![n] = q] /\ UNCHANGED <<notice, dead, stream, spoilt>>
      /\ device' = [device EXCEPT ![u] = [t \in Devices |-> IF t \in p.off THEN "off" ELSE device[u][t]]]
  BY <1>1, <1>2 DEF DisableTokens
<1> HIDE DEF q
<1>5. \A t \in p.off : t \in dead \/ <<u, t>> \in spoilt BY <1>1, <1>2, <1>4 DEF NoticesInv, Rings
<1>6. /\ device' \in [Readers -> [Devices -> {"none", "on", "off"}]]
      /\ \A r \in Readers, t \in Devices :
           device'[r][t] = IF r = u /\ t \in p.off THEN "off" ELSE device[r][t]
  <2>1. device \in [Readers -> [Devices -> {"none", "on", "off"}]] BY DEF NoticesInv, NoticesTypes
  <2>2. CASE u \in Readers BY <1>4, <2>1, <2>2
  <2>3. CASE u \notin Readers BY <1>4, <2>1, <2>3
  <2> QED BY <2>2, <2>3
<1>7. OffIsDead' BY <1>4, <1>5, <1>6 DEF NoticesInv, OffIsDead
<1>8. NoticesTypes' BY <1>3, <1>4, <1>6 DEF NoticesInv, NoticesTypes
<1>9. /\ push'[n] = q /\ \A m \in Bells \ {n} : push'[m] = push[m]
  BY <1>4 DEF NoticesInv, NoticesTypes
<1>10. \A m \in Bells \ {n} : Rings(notice[m], push[m])' BY <1>4, <1>9 DEF NoticesInv, Rings
<1>11. Rings(notice[n], push[n])'
  <2>1. notice[n].row \notin {"none", "asked", "failed"} BY <1>1, <1>4, Blank DEF NoticesInv, Rings
  <2> QED BY <1>1, <1>3, <1>4, <1>9, <2>1 DEF NoticesInv, Rings
<1> QED BY <1>7, <1>8, <1>10, <1>11 DEF NoticesInv

\* A device is registered
LEMMA RegisterStep ==
  \A u \in Readers, t \in Devices : NoticesInv /\ RegisterDevice(u, t) => NoticesInv'
<1> SUFFICES ASSUME NEW u \in Readers, NEW t \in Devices, NoticesInv, RegisterDevice(u, t)
             PROVE NoticesInv'
  OBVIOUS
<1>1. /\ device' = [device EXCEPT ![u][t] = "on"] /\ UNCHANGED <<notice, dead, stream, push>>
      /\ spoilt \ {<<u, t>>} \subseteq spoilt'
      /\ (\E n \in Bells : push[n].at = "disable" /\ notice[n].of = u /\ t \in push[n].off)
           => spoilt' = spoilt
  BY DEF RegisterDevice
<1>2. /\ device' \in [Readers -> [Devices -> {"none", "on", "off"}]]
      /\ \A r \in Readers, d \in Devices :
           device'[r][d] = IF r = u /\ d = t THEN "on" ELSE device[r][d]
  BY <1>1 DEF NoticesInv, NoticesTypes
<1>3. OffIsDead' BY <1>1, <1>2 DEF NoticesInv, OffIsDead
<1>4. NoticesTypes' BY <1>1, <1>2 DEF NoticesInv, NoticesTypes
<1>5. ASSUME NEW n \in Bells PROVE Rings(notice[n], push[n])'
  <2>1. ASSUME push[n].at = "disable", NEW d \in push[n].off
        PROVE  d \in dead \/ <<notice[n].of, d>> \in spoilt'
    <3>1. d \in dead \/ <<notice[n].of, d>> \in spoilt BY <2>1 DEF NoticesInv, Rings
    <3>2. CASE notice[n].of = u /\ d = t BY <1>1, <2>1, <3>1, <3>2
    <3>3. CASE ~(notice[n].of = u /\ d = t) BY <1>1, <3>1, <3>3
    <3> QED BY <3>2, <3>3
  <2> QED BY <1>1, <2>1 DEF NoticesInv, Rings
<1> QED BY <1>3, <1>4, <1>5 DEF NoticesInv

\* A client opens its stream, or uninstalls the application
LEMMA ClientStep ==
  NoticesInv /\ ((\E u \in Readers : OpenStream(u)) \/ \E t \in Devices : Uninstall(t)) => NoticesInv'
  BY DEF OpenStream, Uninstall, NoticesInv, NoticesTypes, Rings, OffIsDead

\* Rows change in what their push does not depend on
LEMMA RowsStep ==
  ASSUME NoticesInv, notice' \in [Bells -> NoticeRow], stream' \subseteq Readers,
         UNCHANGED <<device, dead, push, spoilt>>,
         \A n \in Bells :
           /\ notice'[n].of = notice[n].of /\ notice'[n].streamed = notice[n].streamed
           /\ notice'[n].due => notice[n].due /\ (notice[n].of \in stream => notice[n].of \in stream')
           /\ notice'[n].row = notice[n].row \/ (notice[n].row = "live" /\ notice'[n].row = "deleted")
  PROVE  NoticesInv'
<1>1. NoticesTypes' BY DEF NoticesInv, NoticesTypes
<1>2. \A n \in Bells : Rings(notice[n], push[n])' BY DEF NoticesInv, Rings
<1>3. OffIsDead' BY DEF NoticesInv, OffIsDead
<1> QED BY <1>1, <1>2, <1>3 DEF NoticesInv

\* What a reader does to the row k
LEMMA RowsRead ==
  \A k \in NoticeRow :
    /\ [k EXCEPT !.due = FALSE] \in NoticeRow /\ [k EXCEPT !.due = FALSE].of = k.of
    /\ [k EXCEPT !.due = FALSE].row = k.row /\ [k EXCEPT !.due = FALSE].streamed = k.streamed
    /\ ~[k EXCEPT !.due = FALSE].due
    /\ [k EXCEPT !.read = TRUE] \in NoticeRow /\ [k EXCEPT !.read = TRUE].of = k.of
    /\ [k EXCEPT !.read = TRUE].row = k.row /\ [k EXCEPT !.read = TRUE].streamed = k.streamed
    /\ [k EXCEPT !.read = TRUE].due = k.due
    /\ [k EXCEPT !.row = "deleted"] \in NoticeRow /\ [k EXCEPT !.row = "deleted"].of = k.of
    /\ [k EXCEPT !.row = "deleted"].row = "deleted"
    /\ [k EXCEPT !.row = "deleted"].streamed = k.streamed
    /\ [k EXCEPT !.row = "deleted"].due = k.due
  BY DEF NoticeRow

\* A stream closes: what was due on it is not any more
LEMMA CloseStep == \A u \in Readers : NoticesInv /\ CloseStream(u) => NoticesInv'
<1> SUFFICES ASSUME NEW u \in Readers, NoticesInv, CloseStream(u) PROVE NoticesInv'
  OBVIOUS
<1>1. /\ stream' = stream \ {u} /\ UNCHANGED <<device, dead, push, spoilt>>
      /\ notice' = [n \in Bells |-> IF notice[n].of = u THEN [notice[n] EXCEPT !.due = FALSE]
                                     ELSE notice[n]]
  BY DEF CloseStream
<1>2. notice \in [Bells -> NoticeRow] /\ stream \subseteq Readers BY DEF NoticesInv, NoticesTypes
<1>3. /\ notice' \in [Bells -> NoticeRow]
      /\ \A n \in Bells :
           /\ notice'[n].of = notice[n].of /\ notice'[n].streamed = notice[n].streamed
           /\ notice'[n].row = notice[n].row
           /\ notice'[n].due => notice[n].due /\ notice[n].of # u
  <2>1. \A n \in Bells : notice[n] \in NoticeRow BY <1>2
  <2>2. \A n \in Bells :
          notice'[n] = IF notice[n].of = u THEN [notice[n] EXCEPT !.due = FALSE] ELSE notice[n]
    BY <1>1
  <2>3. \A n \in Bells : notice'[n] \in NoticeRow BY <2>1, <2>2, RowsRead
  <2>4. notice' \in [Bells -> NoticeRow] BY <1>1, <2>3
  <2>5. ASSUME NEW n \in Bells
        PROVE  /\ notice'[n].of = notice[n].of /\ notice'[n].streamed = notice[n].streamed
               /\ notice'[n].row = notice[n].row
               /\ notice'[n].due => notice[n].due /\ notice[n].of # u
    <3>1. CASE notice[n].of = u
      <4>1. PICK k \in NoticeRow : k = notice[n] BY <2>1
      <4>2. notice'[n] = [k EXCEPT !.due = FALSE] BY <2>2, <3>1, <4>1
      <4> QED BY <4>1, <4>2, RowsRead
    <3>2. CASE notice[n].of # u BY <2>2, <3>2
    <3> QED BY <3>1, <3>2
  <2> QED BY <2>4, <2>5
<1> QED BY <1>1, <1>2, <1>3, RowsStep

\* Notifications are marked read, or deleted
LEMMA ReadStep ==
  /\ NoticesInv
  /\ (\E n \in Bells : MarkRead(n) \/ DeleteNotice(n)) \/ \E u \in Readers : MarkAllRead(u)
  => NoticesInv'
<1> SUFFICES ASSUME NoticesInv,
                    (\E n \in Bells : MarkRead(n) \/ DeleteNotice(n)) \/ \E u \in Readers : MarkAllRead(u)
             PROVE NoticesInv'
  OBVIOUS
<1>1. UNCHANGED <<device, dead, stream, push, spoilt>> BY DEF MarkRead, MarkAllRead, DeleteNotice
<1>2. notice \in [Bells -> NoticeRow] /\ stream \subseteq Readers BY DEF NoticesInv, NoticesTypes
<1>3. \A m \in Bells : notice[m] \in NoticeRow BY <1>2
<1>4. /\ notice' \in [Bells -> NoticeRow]
      /\ \A m \in Bells :
           /\ notice'[m].of = notice[m].of /\ notice'[m].streamed = notice[m].streamed
           /\ notice'[m].row = notice[m].row \/ (notice[m].row = "live" /\ notice'[m].row = "deleted")
           /\ notice'[m].due = notice[m].due
  <2>1. CASE \E n \in Bells : MarkRead(n)
    <3> PICK n \in Bells : MarkRead(n) BY <2>1
    <3>1. PICK v \in NoticeRow : v = [notice[n] EXCEPT !.read = TRUE] BY <1>3, RowsRead
    <3>2. notice' = [notice EXCEPT ![n] = v] BY <3>1 DEF MarkRead
    <3>3. v.of = notice[n].of /\ v.row = notice[n].row /\ v.streamed = notice[n].streamed
          /\ v.due = notice[n].due
      BY <1>3, <3>1, RowsRead
    <3> QED BY <1>2, <3>2, <3>3
  <2>2. CASE \E n \in Bells : DeleteNotice(n)
    <3> PICK n \in Bells : DeleteNotice(n) BY <2>2
    <3>1. PICK v \in NoticeRow : v = [notice[n] EXCEPT !.row = "deleted"] BY <1>3, RowsRead
    <3>2. notice' = [notice EXCEPT ![n] = v] /\ notice[n].row = "live" BY <3>1 DEF DeleteNotice
    <3>3. v.of = notice[n].of /\ v.row = "deleted" /\ v.streamed = notice[n].streamed
          /\ v.due = notice[n].due
      BY <1>3, <3>1, RowsRead
    <3> QED BY <1>2, <3>2, <3>3
  <2>3. CASE \E u \in Readers : MarkAllRead(u)
    <3> PICK u \in Readers : MarkAllRead(u) BY <2>3
    <3>1. notice' = [m \in Bells |-> IF notice[m].of = u /\ notice[m].row = "live"
                                     THEN [notice[m] EXCEPT !.read = TRUE] ELSE notice[m]]
      BY DEF MarkAllRead
    <3>2. \A m \in Bells : notice'[m] = notice[m] \/ notice'[m] = [notice[m] EXCEPT !.read = TRUE]
      BY <3>1
    <3>3. \A m \in Bells : notice'[m] \in NoticeRow BY <1>3, <3>2, RowsRead
    <3>4. notice' \in [Bells -> NoticeRow] BY <3>1, <3>3
    <3> QED BY <1>3, <3>2, <3>4, RowsRead
  <2> QED BY <2>1, <2>2, <2>3
<1> QED BY <1>1, <1>2, <1>4, RowsStep

\* Each step preserves the invariant
LEMMA NoticesNextInv == NoticesInv /\ [NoticesNext]_noticesVars => NoticesInv'
<1> SUFFICES ASSUME NoticesInv, [NoticesNext]_noticesVars PROVE NoticesInv'
  OBVIOUS
<1>1. CASE UNCHANGED noticesVars
  BY <1>1 DEF noticesVars, NoticesInv, NoticesTypes, Rings, OffIsDead
<1>2. CASE \E n \in Bells :
             \/ \E u \in Readers : AskNotice(n, u)
             \/ \E fails \in BOOLEAN : InsertNotice(n, fails)
             \/ EmitNotice(n) \/ DisableTokens(n)
  BY <1>2, AskStep, InsertNoticeStep, StreamStep, DisableStep, Zenon
<1>3. CASE \E n \in Bells :
             \/ ReadTokens(n) \/ Malformed(n) \/ NoAnswer(n)
             \/ \E busy \in SUBSET Devices : Answered(n, busy)
  <2>1. {} \in SUBSET Devices OBVIOUS
  <2> QED BY <1>3, <2>1, PushStep, Zenon
<1>4. CASE (\E n \in Bells : MarkRead(n) \/ DeleteNotice(n)) \/ \E u \in Readers : MarkAllRead(u)
  BY <1>4, ReadStep, Zenon
<1>5. CASE \E u \in Readers :
             \/ \E t \in Devices : RegisterDevice(u, t)
             \/ CloseStream(u)
  BY <1>5, RegisterStep, CloseStep, Zenon
<1>6. CASE (\E u \in Readers : OpenStream(u)) \/ \E t \in Devices : Uninstall(t)
  BY <1>6, ClientStep, Zenon
<1> QED BY <1>1, <1>2, <1>3, <1>4, <1>5, <1>6, Zenon DEF NoticesNext

\* Whatever fails, a notification that was streamed or pushed has its row, and a token is
\* disabled because its application is gone or it was spoilt (NotificationsService)
THEOREM NoticesInvariance == NoticesSpec => []NoticesInv
  BY NoticesInitInv, NoticesNextInv, PTL DEF NoticesSpec

\* ... and it is enough
LEMMA NoticesInvImplies == NoticesInv => NoticesSafety
<1> SUFFICES ASSUME NoticesInv PROVE NoticesSafety OBVIOUS
<1>1. NoticesTypeOK
  <2>1. \A n \in Bells : notice[n] \in NoticeRow /\ push[n] \in PushRow /\ Rings(notice[n], push[n])
    BY DEF NoticesInv, NoticesTypes
  <2> QED BY <2>1 DEF NoticesTypeOK, NoticeRow, PushRow, Rings, NoticesInv, NoticesTypes
<1>2. StreamHasIt BY DEF NoticesInv, Rings, StreamHasIt
<1> QED BY <1>1, <1>2 DEF NoticesInv, NoticesSafety

-----------------------------------------------------------------------------
(***************************************************************************)
(* Reminders: a pass has reminded the farmers it no longer has to go       *)
(* through, and two reminders of one harvest are days apart.               *)
(***************************************************************************)

\* The shape of a forecast
ForecastRow == [open : BOOLEAN, date : Harvests]

\* Types of the rows
ReminderTypes ==
  /\ today \in 0 .. LastDay /\ server \in [up : BOOLEAN, duty : BOOLEAN]
  /\ forecast \in [Forecasts -> ForecastRow]
  /\ due = NoPass \/ due \subseteq Forecasts
  /\ notes \in [Forecasts -> SUBSET Int]
  /\ owed \subseteq Forecasts

\* A forecast the passes of this day remind of
Ahead(p) == forecast[p].open /\ InWindow(forecast[p].date)

\* A pass has reminded the farmers of its window it no longer has to go through
PassHolds == due # NoPass => \A p \in Forecasts \ unsettled : Ahead(p) => p \in due \/ notes[p] # {}

\* The reminders of a forecast are days apart
NotesApart == \A p \in Forecasts : \A d, e \in notes[p] : d < e => d + SpamDays <= e

\* ... and none is of a day to come
NotesPast == \A p \in Forecasts : \A d \in notes[p] : d <= today

\* The inductive invariant
ReminderInv == ReminderTypes /\ PassHolds /\ NotesApart /\ NotesPast /\ RemindedInTime

\* The invariant holds at first
LEMMA ReminderInitInv == ReminderInit => ReminderInv
<1> SUFFICES ASSUME ReminderInit PROVE ReminderInv OBVIOUS
<1>1. forecast \in [Forecasts -> ForecastRow]
  <2>1. forecast \in [Forecasts -> [open : {TRUE}, date : Harvests]] BY DEF ReminderInit
  <2>2. [open : {TRUE}, date : Harvests] \subseteq ForecastRow BY DEF ForecastRow
  <2> HIDE DEF ForecastRow
  <2> QED BY <2>1, <2>2
<1>2. server \in [up : BOOLEAN, duty : BOOLEAN] BY DEF ReminderInit
<1>3. today \in 0 .. LastDay /\ due = NoPass /\ owed = {} BY ReminderAssumption DEF ReminderInit
<1>4. notes \in [Forecasts -> SUBSET Int] /\ \A p \in Forecasts : notes[p] = {}
  BY DEF ReminderInit
<1>5. ReminderTypes BY <1>1, <1>2, <1>3, <1>4 DEF ReminderTypes
<1> QED BY <1>3, <1>4, <1>5 DEF ReminderInv, PassHolds, NotesApart, NotesPast, RemindedInTime

\* A day passes, the server stops or starts
LEMMA ServerStep == ReminderInv /\ (Start \/ Stop \/ DayPasses) => ReminderInv'
<1> SUFFICES ASSUME ReminderInv, Start \/ Stop \/ DayPasses PROVE ReminderInv'
  OBVIOUS
<1>1. UNCHANGED <<forecast, notes, owed, unsettled>> /\ today <= today'
  BY ReminderAssumption DEF Start, Stop, DayPasses, ReminderInv, ReminderTypes
<1>2. server' \in [up : BOOLEAN, duty : BOOLEAN]
  <2>1. server \in [up : BOOLEAN, duty : BOOLEAN] BY DEF ReminderInv, ReminderTypes
  <2>2. CASE Start
    <3>1. server' = [up |-> TRUE, duty |-> TRUE] BY <2>2 DEF Start
    <3> QED BY <3>1
  <2>4. CASE Stop
    <3>1. server' = [up |-> FALSE, duty |-> FALSE] BY <2>4 DEF Stop
    <3> QED BY <3>1
  <2>3. CASE DayPasses
    <3>1. server.up \in BOOLEAN /\ server' = [server EXCEPT !.duty = server.up]
      BY <2>1, <2>3 DEF DayPasses
    <3> QED BY <2>1, <3>1
  <2> QED BY <2>2, <2>3, <2>4
<1>3. today' \in 0 .. LastDay
  BY ReminderAssumption DEF Start, Stop, DayPasses, ReminderInv, ReminderTypes
<1>4. (due' = due \/ due' = NoPass) /\ (due' # NoPass => today' = today)
  BY DEF Start, Stop, DayPasses
<1>5. ReminderTypes' BY <1>1, <1>2, <1>3, <1>4 DEF ReminderInv, ReminderTypes
<1>6. PassHolds' BY <1>1, <1>4 DEF ReminderInv, PassHolds, Ahead, InWindow
<1>7. NotesPast' BY <1>1, <1>3 DEF ReminderInv, ReminderTypes, NotesPast
<1> QED BY <1>1, <1>5, <1>6, <1>7 DEF ReminderInv, NotesApart, RemindedInTime

\* A pass begins: those to remind are read
LEMMA PassStep == ReminderInv /\ (BeginPass \/ EndPass) => ReminderInv'
<1> SUFFICES ASSUME ReminderInv, BeginPass \/ EndPass PROVE ReminderInv'
  OBVIOUS
<1>1. CASE BeginPass
  <2>1. /\ due' = {p \in Forecasts : Ahead(p)}
        /\ UNCHANGED <<today, server, forecast, notes, owed, unsettled>>
    BY <1>1 DEF BeginPass, Ahead
  <2>2. PassHolds' BY <2>1 DEF PassHolds, Ahead, InWindow
  <2> QED BY <2>1, <2>2
          DEF ReminderInv, ReminderTypes, NotesApart, NotesPast, RemindedInTime
<1>2. CASE EndPass
  <2>1. due = {} /\ due' = NoPass /\ UNCHANGED <<today, forecast, notes, unsettled>>
    BY <1>2 DEF EndPass
  <2>2. \A p \in Forecasts \ unsettled : Ahead(p) => notes[p] # {}
    BY <2>1, ReminderAssumption DEF ReminderInv, PassHolds
  <2>3. owed' \subseteq Forecasts /\ \A p \in owed' : p \in owed \/ Ahead(p)
    <3>1. owed' = owed \cup {p \in Forecasts : forecast[p].open /\ forecast[p].date - today \in 4 .. 6}
      BY <1>2 DEF EndPass
    <3>2. \A p \in Forecasts : forecast[p].date - today \in 4 .. 6 => InWindow(forecast[p].date)
      <4>1. \A p \in Forecasts : forecast[p].date \in Int
        BY ReminderAssumption DEF ReminderInv, ReminderTypes, ForecastRow
      <4>2. today \in Int BY ReminderAssumption DEF ReminderInv, ReminderTypes
      <4> QED BY <4>1, <4>2 DEF InWindow
    <3> QED BY <3>1, <3>2 DEF Ahead, ReminderInv, ReminderTypes
  <2>4. RemindedInTime' BY <2>1, <2>2, <2>3 DEF ReminderInv, RemindedInTime
  <2>5. server' \in [up : BOOLEAN, duty : BOOLEAN] BY <1>2 DEF EndPass, ReminderInv, ReminderTypes
  <2> QED BY <2>1, <2>3, <2>4, <2>5 DEF ReminderInv, ReminderTypes, PassHolds, NotesApart, NotesPast
<1> QED BY <1>1, <1>2

\* One of them is reminded
LEMMA RemindStep ==
  \A p \in Forecasts, ok \in BOOLEAN : ReminderInv /\ (Skip(p) \/ Remind(p, ok)) => ReminderInv'
<1> SUFFICES ASSUME NEW p \in Forecasts, NEW ok \in BOOLEAN, ReminderInv, Skip(p) \/ Remind(p, ok)
             PROVE ReminderInv'
  OBVIOUS
<1>1. due # NoPass /\ p \in due /\ due' = due \ {p} /\ UNCHANGED <<today, server, forecast, owed>>
  BY DEF Skip, Remind
<1>2. \/ UNCHANGED <<notes, unsettled>> /\ notes[p] # {}
      \/ notes' = notes /\ unsettled' = unsettled \cup {p}
      \/ /\ notes' = [notes EXCEPT ![p] = @ \cup {today}] /\ unsettled' = unsettled
         /\ \A d \in notes[p] : ~(today < d + SpamDays)
  BY DEF Skip, Remind, Recent
<1>3. /\ notes' \in [Forecasts -> SUBSET Int] /\ unsettled \subseteq unsettled'
      /\ \A q \in Forecasts : notes[q] \subseteq notes'[q]
      /\ p \in unsettled' \/ notes'[p] # {}
      /\ \A q \in Forecasts : \A d \in notes'[q] : d \in notes[q] \/ (q = p /\ d = today)
  BY <1>2 DEF ReminderInv, ReminderTypes
<1>4. ReminderTypes' BY <1>1, <1>3 DEF ReminderInv, ReminderTypes
<1>5. PassHolds' BY <1>1, <1>3 DEF ReminderInv, PassHolds, Ahead, InWindow
<1>6. NotesPast' BY <1>1, <1>3 DEF ReminderInv, ReminderTypes, NotesPast
<1>7. NotesApart'
  <2>1. CASE notes' = notes BY <2>1 DEF ReminderInv, NotesApart
  <2>2. CASE \A d \in notes[p] : ~(today < d + SpamDays)
    <3> SUFFICES ASSUME NEW q \in Forecasts, NEW d \in notes'[q], NEW e \in notes'[q], d < e
                 PROVE  d + SpamDays <= e
      BY DEF NotesApart
    <3>1. d \in Int /\ e \in Int /\ today \in Int BY <1>3, <1>4, <1>1 DEF ReminderTypes
    <3>2. CASE d \in notes[q] /\ e \in notes[q] BY <3>2 DEF ReminderInv, NotesApart
    <3>3. CASE d \in notes[q] /\ q = p /\ e = today BY <2>2, <3>1, <3>3 DEF SpamDays
    <3>4. CASE e \in notes[q] /\ d = today BY <3>1, <3>4 DEF ReminderInv, NotesPast
    <3>5. CASE d = today /\ e = today BY <3>1, <3>5
    <3> QED BY <1>3, <3>2, <3>3, <3>4, <3>5
  <2> QED BY <1>2, <2>1, <2>2
<1>8. RemindedInTime' BY <1>1, <1>3 DEF ReminderInv, ReminderTypes, RemindedInTime
<1> QED BY <1>4, <1>5, <1>6, <1>7, <1>8 DEF ReminderInv

\* A forecast is changed while a pass goes on
LEMMA ForecastStep ==
  \A p \in Forecasts : ReminderInv /\ (Close(p) \/ \E d \in Harvests : Reschedule(p, d)) => ReminderInv'
<1> SUFFICES ASSUME NEW p \in Forecasts, ReminderInv, Close(p) \/ \E d \in Harvests : Reschedule(p, d)
             PROVE ReminderInv'
  OBVIOUS
<1>1. /\ UNCHANGED <<today, server, due, notes, owed>> /\ unsettled \subseteq unsettled'
      /\ forecast' \in [Forecasts -> ForecastRow]
      /\ \A q \in Forecasts \ unsettled' : forecast'[q].open => forecast'[q] = forecast[q]
  <2>1. PICK k \in ForecastRow : k = forecast[p] BY DEF ReminderInv, ReminderTypes
  <2>2. PICK v \in ForecastRow :
          /\ forecast' = [forecast EXCEPT ![p] = v]
          /\ (~v.open /\ unsettled' = unsettled) \/ unsettled' = unsettled \cup {p}
    <3>1. CASE Close(p)
      <4>1. [k EXCEPT !.open = FALSE] \in ForecastRow /\ ~[k EXCEPT !.open = FALSE].open
        BY DEF ForecastRow
      <4>2. forecast' = [forecast EXCEPT ![p] = [k EXCEPT !.open = FALSE]] /\ unsettled' = unsettled
        BY <2>1, <3>1 DEF Close
      <4> QED BY <4>1, <4>2
    <3>2. CASE \E d \in Harvests : Reschedule(p, d)
      <4>1. PICK d \in Harvests : Reschedule(p, d) BY <3>2
      <4>2. [k EXCEPT !.date = d] \in ForecastRow BY DEF ForecastRow
      <4>3. /\ forecast' = [forecast EXCEPT ![p] = [k EXCEPT !.date = d]]
            /\ unsettled' = unsettled \cup {p}
        BY <2>1, <4>1 DEF Reschedule
      <4> QED BY <4>2, <4>3
    <3> QED BY <3>1, <3>2
  <2>3. forecast' \in [Forecasts -> ForecastRow]
        /\ \A q \in Forecasts : forecast'[q] = IF q = p THEN v ELSE forecast[q]
    BY <2>2 DEF ReminderInv, ReminderTypes
  <2>4. UNCHANGED <<today, server, due, notes, owed>> BY DEF Close, Reschedule
  <2> QED BY <2>2, <2>3, <2>4
<1>2. PassHolds' BY <1>1 DEF ReminderInv, PassHolds, Ahead, InWindow
<1> QED BY <1>1, <1>2 DEF ReminderInv, ReminderTypes, NotesApart, NotesPast, RemindedInTime

\* Each step preserves the invariant
LEMMA ReminderNextInv == ReminderInv /\ [ReminderNext]_reminderVars => ReminderInv'
<1> SUFFICES ASSUME ReminderInv, [ReminderNext]_reminderVars PROVE ReminderInv'
  OBVIOUS
<1>1. CASE UNCHANGED reminderVars
  BY <1>1 DEF reminderVars, ReminderInv, ReminderTypes, PassHolds, Ahead, InWindow, NotesApart,
              NotesPast, RemindedInTime
<1>2. CASE ReminderNext
  BY <1>2, ServerStep, PassStep, RemindStep, ForecastStep, Zenon DEF ReminderNext
<1> QED BY <1>1, <1>2

\* Whenever the server stops, a pass has reminded the farmers it no longer has to go through
\* and two reminders of a harvest are six days apart (PrevisionsReminderCron)
THEOREM ReminderInvariance == ReminderSpec => []ReminderInv
  BY ReminderInitInv, ReminderNextInv, PTL DEF ReminderSpec

\* ... and it is enough
LEMMA ReminderInvImplies == ReminderInv => ReminderSafety
  BY DEF ReminderInv, ReminderTypes, NotesApart, ReminderSafety, ReminderTypeOK

-----------------------------------------------------------------------------
(***************************************************************************)
(* Telephone numbers. What a request shows it read rule by rule while the  *)
(* ties between two people change: the invariant says where in the rules   *)
(* it stands, and what every tie was since it began.                       *)
(***************************************************************************)

\* The shapes of what a view shows and of the view
Levels == {"none", "FULL", "PARTIAL", "MIN"}
ViewRow == [do : Ties \cup {"idle", "row", "number", "shown"}, call : BOOLEAN, level : Levels,
            since : [Ties -> Ages], shown : Seq(Levels), failed : BOOLEAN]

\* Types of the rows
ContactsTypes ==
  /\ role \in ViewerRoles /\ tie \in [Ties -> Ages] /\ raced \in BOOLEAN
  /\ number \in [Numbers -> {"none", "live", "expired"}] /\ view \in [Views -> ViewRow]

\* A tie was a and is b: it begins once and ends once
Ages3(a, b) == a = b \/ a = "never" \/ b = "past"

\* Who looks is an administrator, or has or had a tie with the other
SomeTie == role = "ADMIN" \/ \E k \in Ties : tie[k] # "never"
\* A tie held at some moment since the request began
RowWas(v, k) == v.since[k] = "now" \/ tie[k] = "now" \/ v.since[k] # tie[k]
\* ... or all along
RowHeld(v, k) == v.since[k] = "now" /\ tie[k] = "now"

\* Where the request v stands in the rules
RulesOf(v) ==
  /\ v.do \in Ties \cup {"idle"} => v.level = "none" /\ v.shown = <<>> /\ ~v.failed
  /\ v.do \in Ties => role # "ADMIN"
  /\ v.do = "shipment" => role = "TRANSPORTER"
  /\ v.do \in {"order", "coop"} => ~RowHeld(v, "shipment")
  /\ v.do = "coop" => ~RowHeld(v, "order")
  /\ \A k \in Ties : Ages3(v.since[k], tie[k])

\* The level of the request v is due, and its rows are all shown at it
LevelOf(v) ==
  /\ v.level \in {"FULL", "PARTIAL"} => SomeTie
  /\ v.do \in {"row", "number"} => v.level # "none" /\ Len(v.shown) < Rows
  /\ v.do = "number" => v.level # "MIN"
  /\ v.do = "shown" => Len(v.shown) = Rows
  /\ \A i \in DOMAIN v.shown : v.shown[i] = v.level
  /\ v.level # "none" /\ v.shown = <<>> =>
       /\ v.level = "FULL" => role = "ADMIN" \/ (role = "TRANSPORTER" /\ RowWas(v, "shipment"))
       /\ v.level = "PARTIAL" => RowWas(v, "order") \/ (role = "FARMER" /\ RowWas(v, "coop"))
       /\ ~v.failed =>
            /\ RowHeld(v, "order") => v.level # "MIN"
            /\ RowHeld(v, "shipment") => v.level = "FULL"

\* One number of two people is live at most, unless two requests crossed
NumbersHold ==
  /\ \A i \in Numbers : number[i] # "none" => SomeTie
  /\ ~raced =>
       /\ \A i, j \in LiveNumbers : i = j
       /\ \A r \in Views : view[r].do = "number" =>
            LiveNumbers = {} /\ \A q \in Views \ {r} : view[q].do # "number"

\* The inductive invariant
ContactsInv ==
  /\ ContactsTypes /\ NumbersHold
  /\ role # "TRANSPORTER" => tie["shipment"] = "never"
  /\ \A r \in Views : RulesOf(view[r]) /\ LevelOf(view[r])

\* A view that saw nothing yet
LEMMA NoTiesType == NoTies \in [Ties -> Ages] /\ \A k \in Ties : NoTies[k] = "never"
  BY DEF NoTies, Ages

\* A view at rest
LEMMA IdleView ==
  /\ NoView \in ViewRow /\ NoView.do = "idle" /\ NoView.level = "none" /\ NoView.shown = <<>>
  /\ NoView.since = NoTies /\ ~NoView.failed
<1>1. NoView.do = "idle" /\ NoView.level = "none" /\ NoView.shown = <<>> /\ ~NoView.failed
      /\ NoView.since = NoTies
  BY DEF NoView
<1>2. <<>> \in Seq(Levels) OBVIOUS
<1>3. NoView \in ViewRow BY <1>2, NoTiesType DEF NoView, ViewRow, Levels
<1> QED BY <1>1, <1>3

\* ... of which nothing is asked
LEMMA IdleHolds == RulesOf(NoView) /\ LevelOf(NoView)
<1>1. RulesOf(NoView) BY IdleView, NoTiesType DEF RulesOf, Ages3, Ties
<1>2. DOMAIN NoView.shown = {} BY IdleView
<1> QED BY <1>1, <1>2, IdleView DEF LevelOf

\* The invariant holds at first
LEMMA ContactsInitInv == ContactsInit => ContactsInv
<1> SUFFICES ASSUME ContactsInit PROVE ContactsInv OBVIOUS
<1>1. ContactsTypes BY IdleView, NoTiesType DEF ContactsInit, ContactsTypes
<1>2. \A r \in Views : view[r] = NoView BY DEF ContactsInit
<1>3. \A i \in Numbers : number[i] = "none" BY DEF ContactsInit
<1>4. LiveNumbers = {} BY <1>3 DEF LiveNumbers
<1>5. NumbersHold BY <1>2, <1>3, <1>4, IdleView DEF NumbersHold
<1>6. tie["shipment"] = "never" BY NoTiesType DEF ContactsInit, Ties
<1> QED BY <1>1, <1>2, <1>5, <1>6, IdleHolds DEF ContactsInv

\* A tie begins or ends, while views look
LEMMA TieStep == \A k \in Ties : ContactsInv /\ (TieBegins(k) \/ TieEnds(k)) => ContactsInv'
<1> SUFFICES ASSUME NEW k \in Ties, ContactsInv, TieBegins(k) \/ TieEnds(k) PROVE ContactsInv'
  OBVIOUS
<1>1. /\ UNCHANGED <<role, number, view, raced>>
      /\ \/ tie[k] = "never" /\ tie' = [tie EXCEPT ![k] = "now"]
         \/ tie[k] = "now" /\ tie' = [tie EXCEPT ![k] = "past"]
      /\ k = "shipment" /\ role # "TRANSPORTER" => tie[k] = "now"
  BY DEF TieBegins, TieEnds
<1>2. tie \in [Ties -> Ages] BY DEF ContactsInv, ContactsTypes
<1>3. tie' \in [Ties -> Ages] BY <1>1, <1>2 DEF Ages
<1>4. \A j \in Ties :
        \/ tie'[j] = tie[j]
        \/ tie[j] = "never" /\ tie'[j] = "now" /\ (j = "shipment" => role = "TRANSPORTER")
        \/ tie[j] = "now" /\ tie'[j] = "past"
  BY <1>1, <1>2 DEF ContactsInv
<1>5. SomeTie => SomeTie' BY <1>1, <1>4 DEF SomeTie
<1>6. "shipment" \in Ties /\ "order" \in Ties /\ "coop" \in Ties BY DEF Ties
<1>7. role # "TRANSPORTER" => tie'["shipment"] = "never" BY <1>1, <1>4, <1>6 DEF ContactsInv
<1>8. ASSUME NEW r \in Views PROVE RulesOf(view[r])' /\ LevelOf(view[r])'
  <2>1. PICK v \in ViewRow : v = view[r] BY DEF ContactsInv, ContactsTypes
  <2>2. RulesOf(v) /\ LevelOf(v) BY <2>1 DEF ContactsInv
  <2>3. \A j \in Ties : v.since[j] \in Ages BY DEF ViewRow
  <2>4. \A j \in Ties :
          /\ Ages3(v.since[j], tie'[j])
          /\ RowHeld(v, j)' => RowHeld(v, j)
          /\ RowWas(v, j) => RowWas(v, j)'
    BY <1>4, <2>2, <2>3 DEF RulesOf, Ages3, Ages, RowHeld, RowWas
  <2>5. RulesOf(v)' BY <1>1, <1>6, <2>2, <2>4 DEF RulesOf
  <2>6. LevelOf(v)' BY <1>1, <1>5, <1>6, <2>2, <2>4 DEF LevelOf
  <2>7. view' = view BY <1>1
  <2> QED BY <2>1, <2>5, <2>6, <2>7
<1>9. NumbersHold' BY <1>1, <1>5 DEF ContactsInv, NumbersHold, LiveNumbers
<1>10. ContactsTypes' BY <1>1, <1>3 DEF ContactsInv, ContactsTypes
<1> QED BY <1>1, <1>7, <1>8, <1>9, <1>10 DEF ContactsInv

\* The request of r becomes v, which goes for no number
LEMMA OneView ==
  ASSUME ContactsInv, NEW r \in Views, NEW v \in ViewRow, view' = [view EXCEPT ![r] = v],
         UNCHANGED <<role, tie, number, raced>>, v.do # "number", RulesOf(v), LevelOf(v)
  PROVE  ContactsInv'
<1>1. view' \in [Views -> ViewRow] /\ \A q \in Views : view'[q] = IF q = r THEN v ELSE view[q]
  BY DEF ContactsInv, ContactsTypes
<1>2. ContactsTypes' BY <1>1 DEF ContactsInv, ContactsTypes
<1>3. LiveNumbers' = LiveNumbers /\ SomeTie' = SomeTie BY DEF LiveNumbers, SomeTie
<1>4. NumbersHold' BY <1>1, <1>3 DEF ContactsInv, NumbersHold
<1>5. \A w \in ViewRow : RulesOf(w)' = RulesOf(w) /\ LevelOf(w)' = LevelOf(w)
  BY <1>3 DEF RulesOf, LevelOf, RowHeld, RowWas
<1>6. \A q \in Views : RulesOf(view[q])' /\ LevelOf(view[q])'
  <2>1. ASSUME NEW q \in Views PROVE RulesOf(view[q])' /\ LevelOf(view[q])'
    <3>1. PICK w \in ViewRow : w = view'[q] /\ RulesOf(w) /\ LevelOf(w)
      <4>1. CASE q = r BY <1>1, <4>1
      <4>2. CASE q # r BY <1>1, <4>2 DEF ContactsInv, ContactsTypes
      <4> QED BY <4>1, <4>2
    <3>2. RulesOf(w)' /\ LevelOf(w)' BY <1>5, <3>1
    <3> QED BY <3>1, <3>2
  <2> QED BY <2>1
<1> QED BY <1>2, <1>4, <1>6 DEF ContactsInv

\* A view begins
LEMMA BeginViewStep ==
  \A r \in Views, call \in BOOLEAN : ContactsInv /\ BeginView(r, call) => ContactsInv'
<1> SUFFICES ASSUME NEW r \in Views, NEW call \in BOOLEAN, ContactsInv, BeginView(r, call)
             PROVE ContactsInv'
  OBVIOUS
<1>1. PICK k \in ViewRow : k = NoView BY IdleView
<1>2. tie \in [Ties -> Ages] BY DEF ContactsInv, ContactsTypes
<1>3. PICK t \in [Ties -> Ages] : t = tie BY <1>2
<1>4. PICK do \in {"row", "shipment", "order"} : do = IF role = "ADMIN" THEN "row" ELSE FirstLook
  BY DEF FirstLook
<1>5. PICK level \in {"none", "FULL"} : level = IF role = "ADMIN" THEN "FULL" ELSE "none" OBVIOUS
<1> DEFINE v == [k EXCEPT !.call = call, !.since = t, !.do = do, !.level = level]
<1>6. v \in ViewRow
  <2>1. level \in Levels /\ do \in Ties \cup {"row"} BY DEF Levels, Ties
  <2> QED BY <2>1 DEF ViewRow
<1>7. /\ v.do = do /\ v.level = level /\ v.since = t /\ v.shown = k.shown /\ v.failed = k.failed
  BY DEF ViewRow
<1>8. view' = [view EXCEPT ![r] = v] /\ UNCHANGED <<role, tie, number, raced>>
  BY <1>1, <1>3, <1>4, <1>5 DEF BeginView
<1> HIDE DEF v
<1>9. v.shown = <<>> /\ ~v.failed BY <1>1, <1>7, IdleView
<1>10. DOMAIN v.shown = {} /\ Len(v.shown) = 0 BY <1>9
<1>11. "shipment" \in Ties BY DEF Ties
<1>12. RulesOf(v)
  <2>1. do # "shipment" => role # "TRANSPORTER" \/ role = "ADMIN" BY <1>4 DEF FirstLook
  <2>2. do = "shipment" => role = "TRANSPORTER" BY <1>4 DEF FirstLook
  <2>3. role # "TRANSPORTER" => ~RowHeld(v, "shipment") BY DEF ContactsInv, RowHeld
  <2>4. \A j \in Ties : Ages3(v.since[j], tie[j]) BY <1>3, <1>7 DEF Ages3
  <2> QED BY <1>4, <1>5, <1>7, <1>9, <2>1, <2>2, <2>3, <2>4 DEF RulesOf, Ties
<1>13. LevelOf(v)
  BY <1>4, <1>5, <1>7, <1>9, <1>10, ContactsAssumption DEF LevelOf, SomeTie, FirstLook
<1> QED BY <1>4, <1>6, <1>7, <1>8, <1>12, <1>13, OneView

\* It looks for one tie
LEMMA LookStep ==
  \A r \in Views :
    ContactsInv /\ (LookShipment(r) \/ LookOrder(r) \/ LookCoop(r)) => ContactsInv'
<1> SUFFICES ASSUME NEW r \in Views, ContactsInv, LookShipment(r) \/ LookOrder(r) \/ LookCoop(r)
             PROVE ContactsInv'
  OBVIOUS
<1>1. PICK v \in ViewRow : v = view[r] BY DEF ContactsInv, ContactsTypes
<1>2. RulesOf(v) /\ LevelOf(v) BY <1>1 DEF ContactsInv
<1>3. UNCHANGED <<role, tie, number, raced>> BY DEF LookShipment, LookOrder, LookCoop
<1>4. v.do \in {"shipment", "order", "coop"} BY <1>1 DEF LookShipment, LookOrder, LookCoop
<1>5. v.level = "none" /\ v.shown = <<>> /\ ~v.failed /\ role # "ADMIN"
  BY <1>2, <1>4 DEF RulesOf, Ties
<1>6. DOMAIN v.shown = {} /\ Len(v.shown) = 0 BY <1>5
<1>7. ASSUME NEW do \in {"order", "coop"}, view' = [view EXCEPT ![r].do = do],
             ~RowHeld(v, "shipment"), do = "coop" => ~RowHeld(v, "order")
      PROVE  ContactsInv'
  <2> DEFINE w == [v EXCEPT !.do = do]
  <2>1. w \in ViewRow
    <3>1. do \in Ties BY DEF Ties
    <3> QED BY <3>1 DEF ViewRow
  <2>2. w.do = do /\ w.level = v.level /\ w.shown = v.shown /\ w.since = v.since /\ w.failed = v.failed
    BY DEF ViewRow
  <2>3. view' = [view EXCEPT ![r] = w] BY <1>1, <1>7
  <2> HIDE DEF w
  <2>4. RulesOf(w) BY <1>2, <1>5, <1>7, <2>2 DEF RulesOf, RowHeld, Ties
  <2>5. LevelOf(w) BY <1>2, <1>5, <1>6, <1>7, <2>2 DEF LevelOf
  <2> QED BY <1>3, <1>7, <2>1, <2>2, <2>3, <2>4, <2>5, OneView
<1>8. ASSUME NEW level \in {"FULL", "PARTIAL", "MIN"},
             view' = [view EXCEPT ![r].do = "row", ![r].level = level],
             level = "FULL" => role = "TRANSPORTER" /\ tie["shipment"] = "now",
             level = "PARTIAL" => tie["order"] = "now" \/ (role = "FARMER" /\ tie["coop"] = "now"),
             RowHeld(v, "order") => level # "MIN", RowHeld(v, "shipment") => level = "FULL"
      PROVE  ContactsInv'
  <2> DEFINE w == [v EXCEPT !.do = "row", !.level = level]
  <2>1. w \in ViewRow BY DEF ViewRow, Levels
  <2>2. w.do = "row" /\ w.level = level /\ w.shown = v.shown /\ w.since = v.since /\ w.failed = v.failed
    BY DEF ViewRow
  <2>3. view' = [view EXCEPT ![r] = w] BY <1>1, <1>8
  <2> HIDE DEF w
  <2>4. RulesOf(w) BY <1>2, <2>2 DEF RulesOf, Ties
  <2>5. level \in {"FULL", "PARTIAL"} => SomeTie BY <1>8 DEF SomeTie, Ties
  <2>6. LevelOf(w) BY <1>5, <1>6, <1>8, <2>2, <2>5, ContactsAssumption DEF LevelOf, RowHeld, RowWas
  <2> QED BY <1>3, <2>1, <2>2, <2>3, <2>4, <2>6, OneView
<1>9. CASE LookShipment(r)
  <2>1. v.do = "shipment" /\ role = "TRANSPORTER" BY <1>1, <1>2, <1>9 DEF LookShipment, RulesOf
  <2>2. CASE tie["shipment"] = "now"
    BY <1>8, <1>9, <2>1, <2>2 DEF LookShipment, Resolves
  <2>3. CASE tie["shipment"] # "now"
    BY <1>7, <1>9, <2>3 DEF LookShipment, GoesTo, RowHeld
  <2> QED BY <2>2, <2>3
<1>10. CASE LookOrder(r)
  <2>1. ~RowHeld(v, "shipment") BY <1>1, <1>2, <1>10 DEF LookOrder, RulesOf
  <2>2. CASE tie["order"] = "now"
    BY <1>8, <1>10, <2>1, <2>2 DEF LookOrder, Resolves
  <2>3. CASE tie["order"] # "now"
    BY <1>7, <1>10, <2>1, <2>3 DEF LookOrder, GoesTo, RowHeld
  <2> QED BY <2>2, <2>3
<1>11. CASE LookCoop(r)
  <2>1. ~RowHeld(v, "shipment") /\ ~RowHeld(v, "order") BY <1>1, <1>2, <1>11 DEF LookCoop, RulesOf
  <2>2. CASE SharedCoop
    <3>1. role = "FARMER" /\ tie["coop"] = "now" BY <2>2 DEF SharedCoop, HasMembership
    <3> QED BY <1>8, <1>11, <2>1, <2>2, <3>1 DEF LookCoop, Resolves
  <2>3. CASE ~SharedCoop
    BY <1>8, <1>11, <2>1, <2>3 DEF LookCoop, Resolves
  <2> QED BY <2>2, <2>3
<1> QED BY <1>9, <1>10, <1>11

\* A view that is over
LEMMA ToIdle ==
  ASSUME ContactsInv, NEW r \in Views, view' = [view EXCEPT ![r] = NoView],
         UNCHANGED <<role, tie, number, raced>>
  PROVE  ContactsInv'
  BY OneView, IdleView, IdleHolds

\* A look fails, and the view with it
LEMMA LookFailsStep == \A r \in Views : ContactsInv /\ LookFails(r) => ContactsInv'
<1> SUFFICES ASSUME NEW r \in Views, ContactsInv, LookFails(r) PROVE ContactsInv'
  OBVIOUS
<1>1. PICK v \in ViewRow : v = view[r] BY DEF ContactsInv, ContactsTypes
<1>2. RulesOf(v) /\ LevelOf(v) BY <1>1 DEF ContactsInv
<1>3. UNCHANGED <<role, tie, number, raced>> /\ v.do \in Ties BY <1>1 DEF LookFails
<1>4. v.shown = <<>> BY <1>2, <1>3 DEF RulesOf
<1>5. CASE v.call BY <1>1, <1>3, <1>5, ToIdle DEF LookFails
<1>6. CASE ~v.call
  <2> DEFINE w == [v EXCEPT !.do = "row", !.level = "MIN", !.failed = TRUE]
  <2>1. w \in ViewRow BY DEF ViewRow, Levels
  <2>2. w.do = "row" /\ w.level = "MIN" /\ w.failed /\ w.shown = v.shown /\ w.since = v.since
    BY DEF ViewRow
  <2>3. view' = [view EXCEPT ![r] = w] BY <1>1, <1>6 DEF LookFails
  <2> HIDE DEF w
  <2>4. RulesOf(w) BY <1>2, <2>2 DEF RulesOf, Ties
  <2>5. DOMAIN w.shown = {} /\ Len(w.shown) = 0 BY <1>4, <2>2
  <2>6. LevelOf(w) BY <2>2, <2>5, ContactsAssumption DEF LevelOf
  <2> QED BY <1>3, <2>1, <2>2, <2>3, <2>4, <2>6, OneView
<1> QED BY <1>5, <1>6

\* A row is shown at the level of the request
LEMMA ShowsView ==
  ASSUME ContactsInv, NEW r \in Views, view[r].do \in {"row", "number"}, Shows(r)
  PROVE  \E v \in ViewRow : /\ view' = [view EXCEPT ![r] = v] /\ v.do # "number"
                            /\ RulesOf(v) /\ LevelOf(v)
<1>1. PICK v \in ViewRow : v = view[r] BY DEF ContactsInv, ContactsTypes
<1>2. RulesOf(v) /\ LevelOf(v) BY <1>1 DEF ContactsInv
<1>3. CASE v.call
  <2>1. view' = [view EXCEPT ![r] = NoView] BY <1>1, <1>3 DEF Shows
  <2> QED BY <2>1, IdleView, IdleHolds
<1>4. CASE ~v.call
  <2>1. PICK a : a = Append(v.shown, v.level) OBVIOUS
  <2>2. v.shown \in Seq(Levels) /\ v.level \in Levels BY DEF ViewRow
  <2>3. /\ a \in Seq(Levels) /\ Len(a) = Len(v.shown) + 1 /\ a # <<>> /\ Len(v.shown) \in Nat
        /\ \A i \in DOMAIN a : i \in DOMAIN v.shown \/ i = Len(v.shown) + 1
        /\ \A i \in DOMAIN v.shown : a[i] = v.shown[i]
        /\ a[Len(v.shown) + 1] = v.level
    BY <2>1, <2>2
  <2>4. PICK do \in {"row", "shown"} : do = IF Len(a) = Rows THEN "shown" ELSE "row" OBVIOUS
  <2> DEFINE w == [v EXCEPT !.shown = a, !.since = NoTies, !.do = do]
  <2>5. w \in ViewRow /\ w.do = do /\ w.level = v.level /\ w.shown = a /\ w.since = NoTies
    BY <2>3, NoTiesType DEF ViewRow
  <2>6. view' = [view EXCEPT ![r] = w] BY <1>1, <1>4, <2>1, <2>4 DEF Shows, NextRow
  <2> HIDE DEF w
  <2>7. RulesOf(w)
    <3>1. do \notin Ties \cup {"idle"} /\ \A k \in Ties : Ages3(NoTies[k], tie[k])
      BY NoTiesType DEF Ties, Ages3
    <3> QED BY <2>5, <3>1 DEF RulesOf, Ties
  <2>8. Len(v.shown) < Rows /\ v.level # "none" BY <1>1, <1>2 DEF LevelOf
  <2>9. LevelOf(w)
    <3>1. \A i \in DOMAIN a : a[i] = v.level
      <4>1. \A i \in DOMAIN v.shown : v.shown[i] = v.level BY <1>2 DEF LevelOf
      <4> SUFFICES ASSUME NEW i \in DOMAIN a PROVE a[i] = v.level OBVIOUS
      <4>2. CASE i \in DOMAIN v.shown BY <2>3, <4>1, <4>2
      <4>3. CASE i = Len(v.shown) + 1 BY <2>3, <4>3
      <4> QED BY <2>3, <4>2, <4>3
    <3>2. v.level \in {"FULL", "PARTIAL"} => SomeTie BY <1>2 DEF LevelOf
    <3>3. (do = "row" => Len(a) < Rows) /\ (do = "shown" => Len(a) = Rows)
      BY <2>3, <2>4, <2>8, ContactsAssumption
    <3> QED BY <2>3, <2>4, <2>5, <2>8, <3>1, <3>2, <3>3 DEF LevelOf
  <2> QED BY <2>4, <2>5, <2>6, <2>7, <2>9
<1> QED BY <1>3, <1>4

\* It shows what the ties it saw allow
LEMMA ShowStep ==
  \A r \in Views : ContactsInv /\ (ShowRow(r) \/ RefuseCall(r) \/ AnswerView(r) \/ NoNumber(r)) => ContactsInv'
<1> SUFFICES ASSUME NEW r \in Views, ContactsInv
             PROVE  ShowRow(r) \/ RefuseCall(r) \/ AnswerView(r) \/ NoNumber(r) => ContactsInv'
  OBVIOUS
<1>1. ASSUME view[r].do \in {"row", "number"}, Shows(r), UNCHANGED <<role, tie, number, raced>>
      PROVE  ContactsInv'
  BY <1>1, ShowsView, OneView
<1>2. ASSUME view' = [view EXCEPT ![r] = NoView], UNCHANGED <<role, tie, number, raced>>
      PROVE  ContactsInv'
  BY <1>2, ToIdle
<1>3. ASSUME ShowRow(r) PROVE ContactsInv' BY <1>1, <1>3 DEF ShowRow
<1>4. ASSUME RefuseCall(r) \/ AnswerView(r) PROVE ContactsInv' BY <1>2, <1>4 DEF RefuseCall, AnswerView
<1>5. ASSUME NoNumber(r) PROVE ContactsInv' BY <1>1, <1>2, <1>5 DEF NoNumber
<1> QED BY <1>3, <1>4, <1>5

\* A call finds the number of these two people
LEMMA FindNumberStep == \A r \in Views : ContactsInv /\ FindNumber(r) => ContactsInv'
<1> SUFFICES ASSUME NEW r \in Views, ContactsInv, FindNumber(r) PROVE ContactsInv'
  OBVIOUS
<1>1. view[r].do = "row" /\ UNCHANGED <<role, tie, number>> BY DEF FindNumber
<1>2. CASE Reusable # {} BY <1>1, <1>2, ShowsView, OneView DEF FindNumber
<1>3. CASE Reusable = {}
  <2>1. PICK v \in ViewRow : v = view[r] BY DEF ContactsInv, ContactsTypes
  <2>2. RulesOf(v) /\ LevelOf(v) BY <2>1 DEF ContactsInv
  <2> DEFINE w == [v EXCEPT !.do = "number"]
  <2>3. w \in ViewRow BY DEF ViewRow
  <2>4. w.do = "number" /\ w.level = v.level /\ w.shown = v.shown /\ w.since = v.since
        /\ w.failed = v.failed
    BY DEF ViewRow
  <2>5. view' = [view EXCEPT ![r] = w] /\ raced' = (raced \/ \E q \in Views : view[q].do = "number")
    BY <1>3, <2>1 DEF FindNumber, GoesTo
  <2>6. v.level # "MIN" BY <2>1 DEF FindNumber, Callable
  <2> HIDE DEF w
  <2>7. RulesOf(w) BY <2>2, <2>4 DEF RulesOf, Ties
  <2>8. LevelOf(w) BY <1>1, <2>1, <2>2, <2>4, <2>6 DEF LevelOf, RowHeld, RowWas
  <2>9. view' \in [Views -> ViewRow] /\ \A q \in Views : view'[q] = IF q = r THEN w ELSE view[q]
    BY <2>3, <2>5 DEF ContactsInv, ContactsTypes
  <2>10. raced' \in BOOLEAN /\ (raced => raced') BY <2>5
  <2>11. ContactsTypes' BY <1>1, <2>9, <2>10 DEF ContactsInv, ContactsTypes
  <2>12. LiveNumbers' = LiveNumbers /\ SomeTie' = SomeTie /\ LiveNumbers = {}
    BY <1>1, <1>3 DEF LiveNumbers, SomeTie, Reusable
  <2>13. ~raced' => ~raced /\ \A q \in Views : view[q].do # "number" BY <2>5
  <2>14. NumbersHold' BY <1>1, <2>9, <2>12, <2>13 DEF ContactsInv, NumbersHold
  <2>15. \A k \in ViewRow : RulesOf(k)' = RulesOf(k) /\ LevelOf(k)' = LevelOf(k)
    BY <1>1, <2>12 DEF RulesOf, LevelOf, RowHeld, RowWas
  <2>16. ASSUME NEW q \in Views PROVE RulesOf(view[q])' /\ LevelOf(view[q])'
    <3>1. PICK k \in ViewRow : k = view'[q] /\ RulesOf(k) /\ LevelOf(k)
      <4>1. CASE q = r BY <2>3, <2>7, <2>8, <2>9, <4>1
      <4>2. CASE q # r BY <2>9, <4>2 DEF ContactsInv, ContactsTypes
      <4> QED BY <4>1, <4>2
    <3>2. RulesOf(k)' /\ LevelOf(k)' BY <2>15, <3>1
    <3> QED BY <3>1, <3>2
  <2> QED BY <1>1, <2>11, <2>14, <2>16 DEF ContactsInv
<1> QED BY <1>2, <1>3

\* ... or makes one
LEMMA CreateNumberStep ==
  \A r \in Views, i \in Numbers : ContactsInv /\ CreateNumber(r, i) => ContactsInv'
<1> SUFFICES ASSUME NEW r \in Views, NEW i \in Numbers, ContactsInv, CreateNumber(r, i)
             PROVE ContactsInv'
  OBVIOUS
<1>1. /\ view[r].do = "number" /\ Shows(r) /\ UNCHANGED <<role, tie, raced>>
      /\ number' = [number EXCEPT ![i] = "live"]
  BY DEF CreateNumber
<1>2. PICK w \in ViewRow : /\ view' = [view EXCEPT ![r] = w] /\ w.do # "number"
                           /\ RulesOf(w) /\ LevelOf(w)
  BY <1>1, ShowsView
<1>3. view' \in [Views -> ViewRow] /\ \A q \in Views : view'[q] = IF q = r THEN w ELSE view[q]
  BY <1>2 DEF ContactsInv, ContactsTypes
<1>4. /\ number' \in [Numbers -> {"none", "live", "expired"}]
      /\ \A j \in Numbers : number'[j] = IF j = i THEN "live" ELSE number[j]
  BY <1>1 DEF ContactsInv, ContactsTypes
<1>5. ContactsTypes' BY <1>1, <1>3, <1>4 DEF ContactsInv, ContactsTypes
<1>6. SomeTie /\ SomeTie' = SomeTie
  <2>1. PICK v \in ViewRow : v = view[r] BY DEF ContactsInv, ContactsTypes
  <2>2. LevelOf(v) /\ v.do = "number" BY <1>1, <2>1 DEF ContactsInv
  <2>3. v.level \in {"FULL", "PARTIAL"} BY <2>2 DEF LevelOf, ViewRow, Levels
  <2>4. SomeTie BY <2>2, <2>3 DEF LevelOf
  <2>5. SomeTie' = SomeTie BY <1>1 DEF SomeTie
  <2> QED BY <2>4, <2>5
<1>7. LiveNumbers' = LiveNumbers \cup {i} BY <1>4 DEF LiveNumbers
<1>8. ~raced => LiveNumbers = {} /\ \A q \in Views \ {r} : view[q].do # "number"
  BY <1>1 DEF ContactsInv, NumbersHold
<1>9. NumbersHold' BY <1>1, <1>2, <1>3, <1>4, <1>6, <1>7, <1>8 DEF ContactsInv, NumbersHold
<1>10. \A k \in ViewRow : RulesOf(k)' = RulesOf(k) /\ LevelOf(k)' = LevelOf(k)
  BY <1>1, <1>6 DEF RulesOf, LevelOf, RowHeld, RowWas
<1>11. ASSUME NEW q \in Views PROVE RulesOf(view[q])' /\ LevelOf(view[q])'
  <2>1. PICK k \in ViewRow : k = view'[q] /\ RulesOf(k) /\ LevelOf(k)
    <3>1. CASE q = r BY <1>2, <1>3, <3>1
    <3>2. CASE q # r BY <1>3, <3>2 DEF ContactsInv, ContactsTypes
    <3> QED BY <3>1, <3>2
  <2>2. RulesOf(k)' /\ LevelOf(k)' BY <1>10, <2>1
  <2> QED BY <2>1, <2>2
<1> QED BY <1>1, <1>5, <1>9, <1>11 DEF ContactsInv

\* A number expires
LEMMA ExpiresStep == \A i \in Numbers : ContactsInv /\ NumberExpires(i) => ContactsInv'
<1> SUFFICES ASSUME NEW i \in Numbers, ContactsInv, NumberExpires(i) PROVE ContactsInv'
  OBVIOUS
<1>1. /\ number[i] = "live" /\ number' = [number EXCEPT ![i] = "expired"]
      /\ UNCHANGED <<role, tie, view, raced>>
  BY DEF NumberExpires
<1>2. /\ number' \in [Numbers -> {"none", "live", "expired"}]
      /\ \A j \in Numbers : number'[j] = IF j = i THEN "expired" ELSE number[j]
  BY <1>1 DEF ContactsInv, ContactsTypes
<1>3. LiveNumbers' \subseteq LiveNumbers /\ SomeTie' = SomeTie
  BY <1>1, <1>2 DEF LiveNumbers, SomeTie
<1>4. NumbersHold' BY <1>1, <1>2, <1>3 DEF ContactsInv, NumbersHold
<1>5. ContactsTypes' BY <1>1, <1>2 DEF ContactsInv, ContactsTypes
<1>6. \A k \in ViewRow : RulesOf(k)' = RulesOf(k) /\ LevelOf(k)' = LevelOf(k)
  BY <1>1, <1>3 DEF RulesOf, LevelOf, RowHeld, RowWas
<1>7. ASSUME NEW q \in Views PROVE RulesOf(view[q])' /\ LevelOf(view[q])'
  <2>1. PICK k \in ViewRow : k = view[q] /\ RulesOf(k) /\ LevelOf(k)
    BY DEF ContactsInv, ContactsTypes
  <2>2. RulesOf(k)' /\ LevelOf(k)' BY <1>6, <2>1
  <2> QED BY <1>1, <2>1, <2>2
<1> QED BY <1>1, <1>4, <1>5, <1>7 DEF ContactsInv

\* Each step preserves the invariant
LEMMA ContactsNextInv == ContactsInv /\ [ContactsNext]_contactsVars => ContactsInv'
<1> SUFFICES ASSUME ContactsInv, [ContactsNext]_contactsVars PROVE ContactsInv'
  OBVIOUS
<1>1. CASE UNCHANGED contactsVars
  <2>1. UNCHANGED <<role, tie, number, view, raced>> BY <1>1 DEF contactsVars
  <2>2. SomeTie' = SomeTie /\ LiveNumbers' = LiveNumbers BY <2>1 DEF SomeTie, LiveNumbers
  <2>3. \A q \in Views : RulesOf(view[q])' = RulesOf(view[q]) /\ LevelOf(view[q])' = LevelOf(view[q])
    BY <2>1, <2>2 DEF RulesOf, LevelOf, RowHeld, RowWas
  <2>4. ContactsTypes' /\ NumbersHold'
    BY <2>1, <2>2 DEF ContactsInv, ContactsTypes, NumbersHold
  <2> QED BY <2>1, <2>3, <2>4 DEF ContactsInv
<1>2. CASE ContactsNext
  BY <1>2, TieStep, BeginViewStep, LookStep, LookFailsStep, ShowStep, FindNumberStep,
     CreateNumberStep, ExpiresStep, Zenon DEF ContactsNext
<1> QED BY <1>1, <1>2

\* While ties begin and end, a request has passed a rule only if its tie did not hold all along,
\* and shows a level only if its tie held at some moment (MaskingService)
THEOREM ContactsInvariance == ContactsSpec => []ContactsInv
  BY ContactsInitInv, ContactsNextInv, PTL DEF ContactsSpec

\* ... and it is enough
LEMMA ContactsInvImplies == ContactsInv => ContactsSafety
<1> SUFFICES ASSUME ContactsInv PROVE ContactsSafety OBVIOUS
<1>1. ASSUME NEW r \in Views
      PROVE  /\ view[r].do \in Ties \cup {"idle", "row", "number", "shown"}
             /\ view[r].level \in Levels /\ Len(view[r].shown) <= Rows
             /\ \A i \in DOMAIN view[r].shown : view[r].shown[i] = view[r].level
  <2>1. PICK v \in ViewRow : v = view[r] /\ RulesOf(v) /\ LevelOf(v)
    BY DEF ContactsInv, ContactsTypes
  <2>2. Len(v.shown) <= Rows
    <3>1. v.shown \in Seq(Levels) BY DEF ViewRow
    <3>2. Len(v.shown) \in Nat BY <3>1
    <3>3. CASE v.shown = <<>> BY <3>3, ContactsAssumption
    <3>4. CASE v.shown # <<>>
      <4>1. v.do \in {"row", "number", "shown"} BY <2>1, <3>4 DEF RulesOf, ViewRow
      <4> QED BY <2>1, <3>2, <4>1, ContactsAssumption DEF LevelOf
    <3> QED BY <3>3, <3>4
  <2> QED BY <2>1, <2>2 DEF ViewRow, LevelOf
<1>2. ContactsTypeOK
  BY <1>1 DEF ContactsTypeOK, ContactsInv, ContactsTypes, NumbersHold, SomeTie, Levels
<1>3. LevelIsDue
  BY DEF ContactsInv, LevelOf, LevelIsDue, JustResolved, RowHeld, RowWas, Held, Was
<1>4. SameThroughout BY <1>1 DEF SameThroughout
<1>5. OneNumber
  <2> SUFFICES ASSUME ~raced PROVE Cardinality(LiveNumbers) <= 1 BY DEF OneNumber
  <2>1. CASE LiveNumbers = {} BY <2>1, FS_EmptySet
  <2>2. CASE LiveNumbers # {}
    <3>1. PICK i : i \in LiveNumbers BY <2>2
    <3>2. LiveNumbers = {i} BY <3>1 DEF ContactsInv, NumbersHold
    <3>3. Cardinality({i}) = 1 BY FS_Singleton
    <3> QED BY <3>2, <3>3
  <2> QED BY <2>1, <2>2
<1> QED BY <1>2, <1>3, <1>4, <1>5 DEF ContactsSafety

-----------------------------------------------------------------------------
(***************************************************************************)
(* Collections: one that one request at a time is about is open while it   *)
(* is.                                                                     *)
(***************************************************************************)

\* The shapes of a collection, of a vehicle and of a request under way
RoundRow == [status : Statuses \cup {"NONE"}, truck : Trucks \cup {NoTruck}, dated : BOOLEAN,
             told : BOOLEAN]
VehicleRow == [plate : Plates \cup {"none"}, active : BOOLEAN]
PlanRow == [do : {"idle", "create", "update", "complete", "cancel"}, of : Rounds \cup {0},
            status : Statuses \cup {"NONE"}, truck : Trucks \cup {NoTruck}]

\* Types of the rows
CollectionsTypes ==
  /\ round \in [Rounds -> RoundRow] /\ truck \in [Trucks -> VehicleRow]
  /\ plan \in [Planners -> PlanRow] /\ entangled \subseteq RoundsMade

\* No two vehicles have one plate
PlatesUnique == \A v, w \in TrucksMade : truck[v].plate = truck[w].plate => v = w

\* The vehicle of a collection, or none
Vehicles == TrucksMade \cup {NoTruck}

\* The request p has a vehicle that exists, and a collection, if it changes one
PlanHolds(p) ==
  /\ p.do \in {"idle", "create"} => p.of = 0
  /\ p.do \notin {"idle", "create"} => p.of \in RoundsMade
  /\ p.do = "update" => p.status \in Statuses
  /\ p.do \in {"create", "update"} => p.truck \in Vehicles

\* A collection that one request at a time is about is open while it is
RoundHolds(c) ==
  /\ round[c].truck \in Vehicles
  /\ c \notin entangled =>
       /\ round[c].dated \/ round[c].told => round[c].status = "COMPLETED"
       /\ \A r \in Planners : plan[r].of = c =>
            /\ round[c].status \notin Closed
            /\ \A q \in Planners \ {r} : plan[q].of # c

\* The inductive invariant
CollectionsInv ==
  /\ CollectionsTypes /\ PlatesUnique
  /\ \A r \in Planners : PlanHolds(plan[r])
  /\ \A c \in RoundsMade : RoundHolds(c)

\* Rows that are not there yet
LEMMA Blanks == NoRound \in RoundRow /\ NoVehicle \in VehicleRow /\ NoPlan \in PlanRow
<1>1. NoRound \in RoundRow BY DEF NoRound, RoundRow
<1>2. NoVehicle \in VehicleRow BY DEF NoVehicle, VehicleRow
<1>3. NoPlan \in PlanRow BY DEF NoPlan, PlanRow
<1> QED BY <1>1, <1>2, <1>3

\* A request at rest
LEMMA IdlePlan == NoPlan.do = "idle" /\ NoPlan.of = 0 /\ PlanHolds(NoPlan)
  BY DEF NoPlan, PlanHolds

\* The invariant holds at first
LEMMA CollectionsInitInv == CollectionsInit => CollectionsInv
<1> SUFFICES ASSUME CollectionsInit PROVE CollectionsInv OBVIOUS
<1>1. RoundsMade = {} /\ TrucksMade = {}
  BY DEF CollectionsInit, RoundsMade, TrucksMade, NoRound, NoVehicle
<1>2. CollectionsTypes BY <1>1, Blanks DEF CollectionsInit, CollectionsTypes
<1>3. \A r \in Planners : PlanHolds(plan[r]) BY IdlePlan DEF CollectionsInit
<1> QED BY <1>1, <1>2, <1>3 DEF CollectionsInv, PlatesUnique

\* The vehicle v becomes k, which has a plate of its own
LEMMA OneTruck ==
  ASSUME CollectionsInv, NEW v \in Trucks, NEW k \in VehicleRow, truck' = [truck EXCEPT ![v] = k],
         UNCHANGED <<round, plan, entangled>>, k.plate # "none",
         \A w \in TrucksMade \ {v} : truck[w].plate # k.plate
  PROVE  CollectionsInv'
<1>1. truck' \in [Trucks -> VehicleRow] /\ \A w \in Trucks : truck'[w] = IF w = v THEN k ELSE truck[w]
  BY DEF CollectionsInv, CollectionsTypes
<1>2. TrucksMade' = TrucksMade \cup {v} BY <1>1 DEF TrucksMade
<1>3. PlatesUnique' BY <1>1, <1>2 DEF CollectionsInv, PlatesUnique, TrucksMade
<1>4. RoundsMade' = RoundsMade /\ Vehicles \subseteq Vehicles' BY <1>2 DEF RoundsMade, Vehicles
<1>5. CollectionsTypes' BY <1>1, <1>4 DEF CollectionsInv, CollectionsTypes
<1>6. \A r \in Planners : PlanHolds(plan[r])' BY <1>4 DEF CollectionsInv, PlanHolds
<1>7. \A c \in RoundsMade' : RoundHolds(c)' BY <1>4 DEF CollectionsInv, RoundHolds
<1> QED BY <1>3, <1>5, <1>6, <1>7 DEF CollectionsInv

\* A vehicle is registered, changed or retired
LEMMA TruckStep ==
  \A v \in Trucks :
    /\ CollectionsInv
    /\ \/ \E p \in Plates : CreateTruck(v, p) \/ \E active \in BOOLEAN : UpdateTruck(v, p, active)
       \/ RemoveTruck(v)
    => CollectionsInv'
<1> SUFFICES ASSUME NEW v \in Trucks, CollectionsInv
             PROVE  \/ \E p \in Plates : CreateTruck(v, p) \/ \E active \in BOOLEAN : UpdateTruck(v, p, active)
                    \/ RemoveTruck(v)
                    => CollectionsInv'
  OBVIOUS
<1>1. ASSUME NEW p \in Plates, NEW on \in BOOLEAN,
             truck' = [truck EXCEPT ![v] = [plate |-> p, active |-> on]],
             UNCHANGED <<round, plan, entangled>>,
             (v \in TrucksMade /\ truck[v].plate = p) \/ ~PlateTaken(p)
      PROVE  CollectionsInv'
  <2> DEFINE k == [plate |-> p, active |-> on]
  <2>1. k \in VehicleRow /\ k.plate = p BY DEF VehicleRow
  <2>2. p # "none" BY CollectionsAssumption
  <2>3. \A w \in TrucksMade \ {v} : truck[w].plate # p
    BY <1>1 DEF CollectionsInv, PlatesUnique, PlateTaken
  <2>4. truck' = [truck EXCEPT ![v] = k] BY <1>1
  <2> HIDE DEF k
  <2>5. k.plate # "none" /\ \A w \in TrucksMade \ {v} : truck[w].plate # k.plate
    BY <2>1, <2>2, <2>3
  <2> QED BY <1>1, <2>1, <2>4, <2>5, OneTruck
<1>2. ASSUME NEW p \in Plates, CreateTruck(v, p) PROVE CollectionsInv'
  BY <1>1, <1>2 DEF CreateTruck
<1>3. ASSUME NEW p \in Plates, NEW active \in BOOLEAN, UpdateTruck(v, p, active) PROVE CollectionsInv'
  BY <1>1, <1>3 DEF UpdateTruck
<1>4. ASSUME RemoveTruck(v) PROVE CollectionsInv'
  <2>1. PICK t \in VehicleRow : t = truck[v] BY DEF CollectionsInv, CollectionsTypes
  <2> DEFINE k == [t EXCEPT !.active = FALSE]
  <2>2. k \in VehicleRow /\ k.plate = t.plate BY DEF VehicleRow
  <2>3. truck' = [truck EXCEPT ![v] = k] /\ UNCHANGED <<round, plan, entangled>> /\ v \in TrucksMade
    BY <1>4, <2>1 DEF RemoveTruck
  <2>4. t.plate # "none" /\ \A w \in TrucksMade \ {v} : truck[w].plate # t.plate
    BY <2>1, <2>3 DEF CollectionsInv, PlatesUnique, TrucksMade
  <2> HIDE DEF k
  <2>5. k.plate # "none" /\ \A w \in TrucksMade \ {v} : truck[w].plate # k.plate
    BY <2>2, <2>4
  <2> QED BY <2>2, <2>3, <2>5, OneTruck
<1> QED BY <1>2, <1>3, <1>4

\* A collection is to be planned
LEMMA BeginRoundStep ==
  \A r \in Planners, v \in Trucks \cup {NoTruck} :
    CollectionsInv /\ BeginRound(r, v) => CollectionsInv'
<1> SUFFICES ASSUME NEW r \in Planners, NEW v \in Trucks \cup {NoTruck}, CollectionsInv, BeginRound(r, v)
             PROVE CollectionsInv'
  OBVIOUS
<1> DEFINE p == [do |-> "create", of |-> 0, status |-> "PLANNED", truck |-> v]
<1>1. p \in PlanRow BY DEF PlanRow, Statuses
<1>2. p.do = "create" /\ p.of = 0 /\ p.truck = v OBVIOUS
<1>3. plan' = [plan EXCEPT ![r] = p] /\ UNCHANGED <<round, truck, entangled>> /\ v \in Vehicles
  BY DEF BeginRound, Planned, MayUse, ActiveTrucks, Vehicles
<1> HIDE DEF p
<1>4. plan' \in [Planners -> PlanRow] /\ \A q \in Planners : plan'[q] = IF q = r THEN p ELSE plan[q]
  BY <1>1, <1>3 DEF CollectionsInv, CollectionsTypes
<1>5. RoundsMade' = RoundsMade /\ TrucksMade' = TrucksMade /\ Vehicles' = Vehicles
  BY <1>3 DEF RoundsMade, TrucksMade, Vehicles
<1>6. CollectionsTypes' /\ PlatesUnique'
  BY <1>3, <1>4, <1>5 DEF CollectionsInv, CollectionsTypes, PlatesUnique
<1>7. \A q \in Planners : PlanHolds(plan[q])' BY <1>2, <1>3, <1>4, <1>5 DEF CollectionsInv, PlanHolds
<1>8. \A c \in RoundsMade' : RoundHolds(c)'
  BY <1>2, <1>3, <1>4, <1>5, CollectionsAssumption DEF CollectionsInv, RoundHolds, RoundsMade
<1> QED BY <1>6, <1>7, <1>8 DEF CollectionsInv

\* A request about the collection c, which is open
LEMMA PlanBegins ==
  ASSUME CollectionsInv, NEW r \in Planners, NEW c \in RoundsMade, NEW p \in PlanRow,
         plan' = [plan EXCEPT ![r] = p], UNCHANGED <<round, truck>>, Entangles(c), PlanFree(r),
         StillOpen(c), p.of = c, PlanHolds(p)
  PROVE  CollectionsInv'
<1>1. plan' \in [Planners -> PlanRow] /\ \A q \in Planners : plan'[q] = IF q = r THEN p ELSE plan[q]
  BY DEF CollectionsInv, CollectionsTypes
<1>2. RoundsMade' = RoundsMade /\ TrucksMade' = TrucksMade /\ Vehicles' = Vehicles
  BY DEF RoundsMade, TrucksMade, Vehicles
<1>3. /\ entangled \subseteq entangled' /\ entangled' \subseteq entangled \cup {c}
      /\ c \notin entangled' => \A q \in Planners : plan[q].of # c
  BY DEF Entangles
<1>4. CollectionsTypes' /\ PlatesUnique'
  BY <1>1, <1>2, <1>3 DEF CollectionsInv, CollectionsTypes, PlatesUnique
<1>5. \A q \in Planners : PlanHolds(plan[q])' BY <1>1, <1>2 DEF CollectionsInv, PlanHolds
<1>6. \A d \in RoundsMade' : RoundHolds(d)'
  <2> SUFFICES ASSUME NEW d \in RoundsMade PROVE RoundHolds(d)' BY <1>2
  <2>1. RoundHolds(d) BY DEF CollectionsInv
  <2>2. CASE d = c BY <1>1, <1>2, <1>3, <2>1, <2>2 DEF RoundHolds, StillOpen
  <2>3. CASE d # c
    <3>1. d \notin entangled' => d \notin entangled BY <1>3
    <3>2. \A q \in Planners : plan'[q].of = d => plan[q].of = d /\ plan'[q] = plan[q] BY <1>1, <2>3
    <3> QED BY <1>1, <1>2, <2>1, <2>3, <3>1, <3>2 DEF RoundHolds
  <2> QED BY <2>2, <2>3
<1> QED BY <1>4, <1>5, <1>6 DEF CollectionsInv

\* A request reads the collection it will change
LEMMA BeginPlanStep ==
  \A r \in Planners, c \in Rounds, status \in Statuses, v \in Trucks \cup {NoTruck} :
    /\ CollectionsInv
    /\ BeginChange(r, c, status, v) \/ BeginComplete(r, c) \/ BeginCancel(r, c)
    => CollectionsInv'
<1> SUFFICES ASSUME NEW r \in Planners, NEW c \in Rounds, NEW status \in Statuses,
                    NEW v \in Trucks \cup {NoTruck}, CollectionsInv,
                    BeginChange(r, c, status, v) \/ BeginComplete(r, c) \/ BeginCancel(r, c)
             PROVE CollectionsInv'
  OBVIOUS
<1>1. /\ PlanFree(r) /\ c \in RoundsMade /\ StillOpen(c) /\ Entangles(c) /\ UNCHANGED <<round, truck>>
  BY DEF BeginChange, BeginComplete, BeginCancel
<1>2. PICK do \in {"update", "complete", "cancel"}, st \in Statuses, w \in Trucks \cup {NoTruck} :
        Planned(r, do, c, st, w) /\ w \in Vehicles
  <2>1. CASE BeginChange(r, c, status, v)
    <3>1. v \in Vehicles
      BY <1>1, <2>1 DEF BeginChange, MayUse, ActiveTrucks, Vehicles, CollectionsInv, RoundHolds
    <3> QED BY <2>1, <3>1 DEF BeginChange
  <2>2. CASE BeginComplete(r, c)
    <3>1. "COMPLETED" \in Statuses BY DEF Statuses
    <3> QED BY <2>2, <3>1 DEF BeginComplete, Vehicles
  <2>3. CASE BeginCancel(r, c)
    <3>1. "CANCELLED" \in Statuses BY DEF Statuses
    <3> QED BY <2>3, <3>1 DEF BeginCancel, Vehicles
  <2> QED BY <2>1, <2>2, <2>3
<1> DEFINE p == [do |-> do, of |-> c, status |-> st, truck |-> w]
<1>3. p \in PlanRow BY DEF PlanRow
<1>4. PlanHolds(p) /\ p.of = c BY <1>1, <1>2 DEF PlanHolds
<1>5. plan' = [plan EXCEPT ![r] = p] BY <1>2 DEF Planned
<1> HIDE DEF p
<1> QED BY <1>1, <1>3, <1>4, <1>5, PlanBegins

\* The collection is inserted
LEMMA InsertRoundStep ==
  \A r \in Planners, c \in Rounds : CollectionsInv /\ InsertRound(r, c) => CollectionsInv'
<1> SUFFICES ASSUME NEW r \in Planners, NEW c \in Rounds, CollectionsInv, InsertRound(r, c)
             PROVE CollectionsInv'
  OBVIOUS
<1>1. PICK p \in PlanRow : p = plan[r] BY DEF CollectionsInv, CollectionsTypes
<1>2. PICK b \in RoundRow : b = NoRound BY Blanks
<1> DEFINE k == [b EXCEPT !.status = "PLANNED", !.truck = p.truck]
<1>3. k \in RoundRow BY DEF RoundRow, Statuses, PlanRow
<1>4. k.status = "PLANNED" /\ k.truck = p.truck /\ k.dated = b.dated /\ k.told = b.told
  BY DEF RoundRow
<1>5. ~b.dated /\ ~b.told BY <1>2 DEF NoRound
<1>6. /\ p.do = "create" /\ c \notin RoundsMade /\ round' = [round EXCEPT ![c] = k]
      /\ plan' = [plan EXCEPT ![r] = NoPlan] /\ UNCHANGED <<truck, entangled>>
  BY <1>1, <1>2 DEF InsertRound, PlanEnds
<1> HIDE DEF k
<1>7. p.truck \in Vehicles BY <1>1, <1>6 DEF CollectionsInv, PlanHolds
<1>8. plan' \in [Planners -> PlanRow] /\ \A q \in Planners : plan'[q] = IF q = r THEN NoPlan ELSE plan[q]
  BY <1>6, Blanks DEF CollectionsInv, CollectionsTypes
<1>9. round' \in [Rounds -> RoundRow] /\ \A d \in Rounds : round'[d] = IF d = c THEN k ELSE round[d]
  BY <1>3, <1>6 DEF CollectionsInv, CollectionsTypes
<1>10. RoundsMade' = RoundsMade \cup {c} /\ TrucksMade' = TrucksMade /\ Vehicles' = Vehicles
  BY <1>4, <1>6, <1>9 DEF RoundsMade, TrucksMade, Vehicles
<1>11. CollectionsTypes' /\ PlatesUnique'
  BY <1>6, <1>8, <1>9, <1>10 DEF CollectionsInv, CollectionsTypes, PlatesUnique
<1>12. \A q \in Planners : PlanHolds(plan[q])'
  <2>1. PlanHolds(NoPlan)' BY IdlePlan DEF PlanHolds
  <2>2. \A q \in Planners \ {r} : PlanHolds(plan[q])' BY <1>8, <1>10 DEF CollectionsInv, PlanHolds
  <2> QED BY <1>8, <2>1, <2>2
<1>13. \A d \in RoundsMade' : RoundHolds(d)'
  <2>1. RoundHolds(c)'
    <3>1. \A q \in Planners : plan'[q].of # c
      BY <1>6, <1>8, IdlePlan, CollectionsAssumption DEF CollectionsInv, PlanHolds
    <3> QED BY <1>4, <1>5, <1>7, <1>9, <1>10, <3>1 DEF RoundHolds
  <2>2. \A d \in RoundsMade : RoundHolds(d)'
    <3> SUFFICES ASSUME NEW d \in RoundsMade PROVE RoundHolds(d)' OBVIOUS
    <3>1. d \in Rounds /\ d # c /\ RoundHolds(d) /\ d # 0
      BY <1>6, CollectionsAssumption DEF RoundsMade, CollectionsInv
    <3>2. round'[d] = round[d] /\ \A q \in Planners : plan'[q].of = d => plan[q].of = d
      BY <1>8, <1>9, <3>1, IdlePlan
    <3> QED BY <1>6, <1>10, <3>1, <3>2 DEF RoundHolds
  <2> QED BY <1>10, <2>1, <2>2
<1> QED BY <1>11, <1>12, <1>13 DEF CollectionsInv

\* The request of r writes k to its collection
LEMMA PlanWrites ==
  ASSUME CollectionsInv, NEW r \in Planners, NEW c \in RoundsMade, NEW k \in RoundRow,
         plan[r].of = c, round' = [round EXCEPT ![c] = k], plan' = [plan EXCEPT ![r] = NoPlan],
         UNCHANGED <<truck, entangled>>, k.status # "NONE", k.truck \in Vehicles,
         c \notin entangled => (k.dated \/ k.told => k.status = "COMPLETED")
  PROVE  CollectionsInv'
<1>1. plan' \in [Planners -> PlanRow] /\ \A q \in Planners : plan'[q] = IF q = r THEN NoPlan ELSE plan[q]
  BY Blanks DEF CollectionsInv, CollectionsTypes
<1>2. c \in Rounds BY DEF RoundsMade
<1>3. round' \in [Rounds -> RoundRow] /\ \A d \in Rounds : round'[d] = IF d = c THEN k ELSE round[d]
  BY <1>2 DEF CollectionsInv, CollectionsTypes
<1>4. RoundsMade' = RoundsMade /\ TrucksMade' = TrucksMade /\ Vehicles' = Vehicles
  BY <1>3 DEF RoundsMade, TrucksMade, Vehicles
<1>5. CollectionsTypes' /\ PlatesUnique'
  BY <1>1, <1>3, <1>4 DEF CollectionsInv, CollectionsTypes, PlatesUnique
<1>6. \A q \in Planners : PlanHolds(plan[q])'
  <2>1. PlanHolds(NoPlan)' BY IdlePlan DEF PlanHolds
  <2>2. \A q \in Planners \ {r} : PlanHolds(plan[q])' BY <1>1, <1>4 DEF CollectionsInv, PlanHolds
  <2> QED BY <1>1, <2>1, <2>2
<1>7. \A d \in RoundsMade' : RoundHolds(d)'
  <2> SUFFICES ASSUME NEW d \in RoundsMade PROVE RoundHolds(d)' BY <1>4
  <2>1. RoundHolds(d) /\ d \in Rounds /\ d # 0 BY CollectionsAssumption DEF CollectionsInv, RoundsMade
  <2>2. \A q \in Planners : plan'[q].of = d => q # r /\ plan[q].of = d BY <1>1, <2>1, IdlePlan
  <2>3. CASE d = c
    <3>1. d \notin entangled => \A q \in Planners : plan'[q].of # d
      BY <2>1, <2>2, <2>3 DEF RoundHolds
    <3> QED BY <1>3, <1>4, <2>1, <2>3, <3>1 DEF RoundHolds
  <2>4. CASE d # c
    BY <1>3, <1>4, <2>1, <2>2, <2>4 DEF RoundHolds
  <2> QED BY <2>3, <2>4
<1> QED BY <1>5, <1>6, <1>7 DEF CollectionsInv

\* It is updated, completed or cancelled
LEMMA WriteRoundStep ==
  \A r \in Planners, told \in BOOLEAN :
    CollectionsInv /\ (WriteChange(r) \/ WriteComplete(r, told) \/ WriteCancel(r)) => CollectionsInv'
<1> SUFFICES ASSUME NEW r \in Planners, NEW told \in BOOLEAN, CollectionsInv
             PROVE  WriteChange(r) \/ WriteComplete(r, told) \/ WriteCancel(r) => CollectionsInv'
  OBVIOUS
<1>1. PICK p \in PlanRow : p = plan[r] BY DEF CollectionsInv, CollectionsTypes
<1>2. PICK c : c = p.of OBVIOUS
<1>3. ASSUME p.do \in {"update", "complete", "cancel"}
      PROVE  /\ c \in RoundsMade /\ c \in Rounds /\ round[c] \in RoundRow /\ round[c].truck \in Vehicles
             /\ round[c].status # "NONE"
             /\ c \notin entangled => ~round[c].dated /\ ~round[c].told
  <2>1. c \in RoundsMade BY <1>1, <1>2, <1>3 DEF CollectionsInv, PlanHolds
  <2>2. RoundHolds(c) /\ c \in Rounds /\ round[c].status # "NONE"
    BY <2>1 DEF CollectionsInv, RoundsMade
  <2>3. round[c] \in RoundRow BY <2>2 DEF CollectionsInv, CollectionsTypes
  <2>4. c \notin entangled => round[c].status \notin Closed BY <1>1, <1>2, <2>2 DEF RoundHolds
  <2> QED BY <2>1, <2>2, <2>3, <2>4 DEF RoundHolds, Closed
<1>4. ASSUME WriteChange(r) PROVE CollectionsInv'
  <2>1. p.do = "update" /\ p.status \in Statuses /\ p.truck \in Vehicles
    BY <1>1, <1>4 DEF WriteChange, CollectionsInv, PlanHolds
  <2>2. PICK t \in RoundRow : t = round[c] BY <1>3, <2>1
  <2> DEFINE k == [t EXCEPT !.status = p.status, !.truck = p.truck]
  <2>3. k \in RoundRow BY DEF RoundRow, PlanRow
  <2>4. k.status = p.status /\ k.truck = p.truck /\ k.dated = t.dated /\ k.told = t.told
    BY DEF RoundRow
  <2>5. /\ round' = [round EXCEPT ![c] = k] /\ plan' = [plan EXCEPT ![r] = NoPlan]
        /\ UNCHANGED <<truck, entangled>>
    BY <1>1, <1>2, <1>4, <2>2 DEF WriteChange, PlanEnds
  <2>6. p.status # "NONE" BY <2>1 DEF Statuses
  <2> HIDE DEF k
  <2> QED BY <1>1, <1>2, <1>3, <2>1, <2>2, <2>3, <2>4, <2>5, <2>6, PlanWrites
<1>5. ASSUME WriteComplete(r, told) PROVE CollectionsInv'
  <2>1. p.do = "complete" BY <1>1, <1>5 DEF WriteComplete
  <2>2. PICK t \in RoundRow : t = round[c] BY <1>3, <2>1
  <2>3. PICK b \in BOOLEAN : b = (t.told \/ told) OBVIOUS
  <2> DEFINE k == [t EXCEPT !.status = "COMPLETED", !.dated = TRUE, !.told = b]
  <2>4. k \in RoundRow BY DEF RoundRow, Statuses
  <2>5. k.status = "COMPLETED" /\ k.truck = t.truck BY DEF RoundRow
  <2>6. /\ round' = [round EXCEPT ![c] = k] /\ plan' = [plan EXCEPT ![r] = NoPlan]
        /\ UNCHANGED <<truck, entangled>>
    BY <1>1, <1>2, <1>5, <2>2, <2>3 DEF WriteComplete, PlanEnds
  <2> HIDE DEF k
  <2> QED BY <1>1, <1>2, <1>3, <2>1, <2>2, <2>4, <2>5, <2>6, PlanWrites
<1>6. ASSUME WriteCancel(r) PROVE CollectionsInv'
  <2>1. p.do = "cancel" BY <1>1, <1>6 DEF WriteCancel
  <2>2. PICK t \in RoundRow : t = round[c] BY <1>3, <2>1
  <2> DEFINE k == [t EXCEPT !.status = "CANCELLED"]
  <2>3. k \in RoundRow BY DEF RoundRow, Statuses
  <2>4. k.status = "CANCELLED" /\ k.truck = t.truck /\ k.dated = t.dated /\ k.told = t.told
    BY DEF RoundRow
  <2>5. /\ round' = [round EXCEPT ![c] = k] /\ plan' = [plan EXCEPT ![r] = NoPlan]
        /\ UNCHANGED <<truck, entangled>>
    BY <1>1, <1>2, <1>6, <2>2 DEF WriteCancel, PlanEnds
  <2> HIDE DEF k
  <2> QED BY <1>1, <1>2, <1>3, <2>1, <2>2, <2>3, <2>4, <2>5, PlanWrites
<1> QED BY <1>4, <1>5, <1>6

\* Each step preserves the invariant
LEMMA CollectionsNextInv == CollectionsInv /\ [CollectionsNext]_collectionsVars => CollectionsInv'
<1> SUFFICES ASSUME CollectionsInv, [CollectionsNext]_collectionsVars PROVE CollectionsInv'
  OBVIOUS
<1>1. CASE UNCHANGED collectionsVars
  BY <1>1 DEF collectionsVars, CollectionsInv, CollectionsTypes, PlatesUnique, PlanHolds, RoundHolds,
              RoundsMade, TrucksMade, Vehicles
<1>2. CASE \E v \in Trucks :
             \/ \E p \in Plates : CreateTruck(v, p) \/ \E active \in BOOLEAN : UpdateTruck(v, p, active)
             \/ RemoveTruck(v)
  BY <1>2, TruckStep, Zenon
<1>3. CASE \E r \in Planners :
             \/ \E v \in Trucks \cup {NoTruck} :
                  \/ BeginRound(r, v)
                  \/ \E c \in Rounds, status \in Statuses : BeginChange(r, c, status, v)
             \/ \E c \in Rounds : InsertRound(r, c) \/ BeginComplete(r, c) \/ BeginCancel(r, c)
             \/ WriteChange(r) \/ WriteCancel(r)
             \/ \E told \in BOOLEAN : WriteComplete(r, told)
  <2>1. "PLANNED" \in Statuses /\ NoTruck \in Trucks \cup {NoTruck} /\ TRUE \in BOOLEAN BY DEF Statuses
  <2> QED BY <1>3, <2>1, BeginRoundStep, BeginPlanStep, InsertRoundStep, WriteRoundStep, Zenon
<1> QED BY <1>1, <1>2, <1>3, Zenon DEF CollectionsNext

\* However requests overlap, a collection one request at a time is about is open while it is,
\* and vehicles exist and keep their plates (CoopVehiclesService, CoopCollectionsService)
THEOREM CollectionsInvariance == CollectionsSpec => []CollectionsInv
  BY CollectionsInitInv, CollectionsNextInv, PTL DEF CollectionsSpec

\* ... and it is enough
LEMMA CollectionsInvImplies == CollectionsInv => CollectionsSafety
  BY DEF CollectionsInv, CollectionsTypes, PlatesUnique, RoundHolds, RoundRow, PlanRow, Vehicles,
         RoundsMade, CollectionsSafety, CollectionsTypeOK, CollectedIsCompleted

-----------------------------------------------------------------------------
(***************************************************************************)
(* Reviews: the rating of a transporter is the sum of what he was given. A *)
(* request that has added up the reviews knows those that are committed,   *)
(* unless another one crossed it.                                          *)
(***************************************************************************)

\* What may be reviewed, the shapes of a review and of a request under way
Reviewed == Trips \cup Bought
ReviewRow == [of : Reviewed \cup {"none"}, note : Nat]
GradeRow == [at : {"idle", "insert", "commit"}, of : Reviewed \cup {"none"}, note : Nat,
             sum : Nat, count : Nat, met : BOOLEAN]

\* Types of the rows
RatingsTypes ==
  /\ avis \in [Reviews -> ReviewRow] /\ grade \in [Raters -> GradeRow]
  /\ rating \in [sum : Nat, count : Nat] /\ outdated \in BOOLEAN /\ doubled \subseteq delivered
  /\ \A i \in Written : avis[i].of \in delivered /\ avis[i].note \in Marks

\* The request g reviews what was delivered; its aggregate is that of the reviews with
\* its own, until it meets another
GradeHolds(g) ==
  /\ g.at = "idle" => g.of = "none"
  /\ g.at # "idle" => g.of \in delivered \cap Reviewed /\ g.note \in Marks
  /\ g.at = "commit" =>
       /\ g.of \in Trips
       /\ ~g.met => g.sum = Total(OfTrips) + g.note /\ g.count = Cardinality(OfTrips) + 1

\* ... and is the only one to review it, unless another overlaps
OnlyGrade(r) ==
  grade[r].of # "none" /\ grade[r].of \notin doubled =>
    /\ \A i \in Written : avis[i].of # grade[r].of
    /\ \A q \in Raters \ {r} : grade[q].of # grade[r].of

\* The inductive invariant
RatingsInv ==
  /\ RatingsTypes /\ OneReview /\ RatingIsAverage
  /\ \A r \in Raters : GradeHolds(grade[r]) /\ OnlyGrade(r)

\* A review that is not there yet
LEMMA Unwritten == NoReview \in ReviewRow /\ NoReview.of = "none"
  BY DEF NoReview, ReviewRow

\* A request at rest
LEMMA Ungraded == NoGrade \in GradeRow /\ NoGrade.at = "idle" /\ NoGrade.of = "none" /\ GradeHolds(NoGrade)
<1>1. NoGrade \in GradeRow BY DEF NoGrade, GradeRow
<1>2. NoGrade.at = "idle" /\ NoGrade.of = "none" BY DEF NoGrade
<1> QED BY <1>1, <1>2 DEF GradeHolds

\* The aggregate of the reviews of trips
LEMMA AggregateType ==
  ASSUME avis \in [Reviews -> ReviewRow]
  PROVE  /\ Total(OfTrips) \in Nat /\ Cardinality(OfTrips) \in Nat /\ IsFiniteSet(OfTrips)
         /\ OfTrips = {i \in Reviews : avis[i].of \in Trips}
<1>1. OfTrips = {i \in Reviews : avis[i].of \in Trips}
  BY RatingsAssumption DEF OfTrips, Written
<1>2. IsFiniteSet(OfTrips) BY <1>1, FS_Subset, RatingsAssumption
<1>3. PICK f : f = [i \in Reviews |-> avis[i].note] OBVIOUS
<1>4. \A i \in OfTrips : f[i] \in Nat BY <1>1, <1>3 DEF ReviewRow
<1>5. SumFunctionOnSet(f, OfTrips) \in Nat BY <1>2, <1>4, SumNat
<1> QED BY <1>1, <1>2, <1>3, <1>5, FS_CardinalityType DEF Total

\* It depends on the reviews of trips only
LEMMA AggregateSame ==
  ASSUME avis \in [Reviews -> ReviewRow], avis' \in [Reviews -> ReviewRow],
         \A i \in Reviews : avis'[i] = avis[i] \/ (avis[i].of \notin Trips /\ avis'[i].of \notin Trips)
  PROVE  OfTrips' = OfTrips /\ Total(OfTrips)' = Total(OfTrips)
<1>1. OfTrips = {i \in Reviews : avis[i].of \in Trips} /\ IsFiniteSet(OfTrips) BY AggregateType
<1>2. OfTrips' = {i \in Reviews : avis'[i].of \in Trips}
  BY RatingsAssumption DEF OfTrips, Written
<1>3. OfTrips' = OfTrips BY <1>1, <1>2
<1>4. PICK f : f = [i \in Reviews |-> avis[i].note] OBVIOUS
<1>5. PICK g : g = [i \in Reviews |-> avis'[i].note] OBVIOUS
<1>6. \A i \in OfTrips : f[i] \in Int /\ f[i] = g[i] BY <1>1, <1>3, <1>2, <1>4, <1>5 DEF ReviewRow
<1>7. SumFunctionOnSet(f, OfTrips) = SumFunctionOnSet(g, OfTrips)
  BY <1>1, <1>6, SumEqual DEF Ints
<1> QED BY <1>3, <1>4, <1>5, <1>7 DEF Total

\* A review of a trip more
LEMMA AggregateMore ==
  ASSUME avis \in [Reviews -> ReviewRow], NEW i \in Reviews, i \notin Written, NEW k \in ReviewRow,
         k.of \in Trips, avis' = [avis EXCEPT ![i] = k]
  PROVE  /\ Total(OfTrips)' = Total(OfTrips) + k.note
         /\ Cardinality(OfTrips)' = Cardinality(OfTrips) + 1
<1>1. OfTrips = {j \in Reviews : avis[j].of \in Trips} /\ IsFiniteSet(OfTrips) BY AggregateType
<1>2. OfTrips' = {j \in Reviews : avis'[j].of \in Trips}
  BY RatingsAssumption DEF OfTrips, Written
<1>3. i \notin OfTrips /\ OfTrips' = OfTrips \cup {i} BY <1>1, <1>2 DEF Written, OfTrips
<1>4. Cardinality(OfTrips \cup {i}) = Cardinality(OfTrips) + 1 BY <1>1, <1>3, FS_AddElement
<1>5. PICK f : f = [j \in Reviews |-> avis[j].note] OBVIOUS
<1>6. PICK g : g = [j \in Reviews |-> avis'[j].note] OBVIOUS
<1>7. /\ \A j \in OfTrips : f[j] \in Int /\ f[j] = g[j]
      /\ g[i] = k.note /\ k.note \in Int /\ \A j \in OfTrips \cup {i} : g[j] \in Int
  BY <1>1, <1>3, <1>5, <1>6 DEF ReviewRow
<1>8. SumFunctionOnSet(f, OfTrips) = SumFunctionOnSet(g, OfTrips)
  BY <1>1, <1>7, SumEqual DEF Ints
<1>9. SumFunctionOnSet(g, OfTrips \cup {i}) = g[i] + SumFunctionOnSet(g, OfTrips)
  BY <1>1, <1>3, <1>7, SumAdd DEF Ints
<1>10. SumFunctionOnSet(g, OfTrips) \in Int BY <1>1, <1>7, SumType DEF Ints
<1> QED BY <1>3, <1>4, <1>5, <1>6, <1>7, <1>8, <1>9, <1>10 DEF Total

\* The invariant holds at first
LEMMA RatingsInitInv == RatingsInit => RatingsInv
<1> SUFFICES ASSUME RatingsInit PROVE RatingsInv OBVIOUS
<1>1. \A i \in Reviews : avis[i] = NoReview BY DEF RatingsInit
<1>2. avis \in [Reviews -> ReviewRow] BY Unwritten DEF RatingsInit
<1>3. Written = {} /\ OfTrips = {} BY <1>1, Unwritten DEF Written, OfTrips
<1>4. grade \in [Raters -> GradeRow] BY Ungraded DEF RatingsInit
<1>5. rating \in [sum : Nat, count : Nat] /\ outdated = FALSE /\ doubled = {} BY DEF RatingsInit
<1>6. RatingsTypes BY <1>2, <1>3, <1>4, <1>5 DEF RatingsTypes
<1>7. Total({}) = 0 /\ Cardinality({}) = 0
  <2>1. PICK f : f = [i \in Reviews |-> avis[i].note] OBVIOUS
  <2>2. SumFunctionOnSet(f, {}) = 0 BY SumEmpty
  <2>3. Cardinality({}) = 0 BY FS_EmptySet
  <2> QED BY <2>1, <2>2, <2>3 DEF Total
<1>8. rating = [sum |-> Total(OfTrips), count |-> Cardinality(OfTrips)]
  <2>1. rating = [sum |-> 0, count |-> 0] BY DEF RatingsInit
  <2> QED BY <1>3, <1>7, <2>1
<1>9. \A r \in Raters : grade[r] = NoGrade BY DEF RatingsInit
<1> QED BY <1>3, <1>6, <1>8, <1>9, Ungraded DEF RatingsInv, OneReview, RatingIsAverage, OnlyGrade

\* Something is delivered, and may be reviewed
LEMMA DeliverStep == \A x \in Reviewed : RatingsInv /\ Deliver(x) => RatingsInv'
<1> SUFFICES ASSUME NEW x \in Reviewed, RatingsInv, Deliver(x) PROVE RatingsInv'
  OBVIOUS
<1>1. delivered \subseteq delivered' /\ UNCHANGED <<avis, rating, grade, outdated, doubled>> BY DEF Deliver
<1>2. Written' = Written /\ OfTrips' = OfTrips /\ Total(OfTrips)' = Total(OfTrips)
  BY <1>1 DEF Written, OfTrips, Total
<1>3. RatingsTypes' /\ OneReview' BY <1>1, <1>2 DEF RatingsInv, RatingsTypes, OneReview
<1>4. RatingIsAverage' BY <1>1, <1>2 DEF RatingsInv, RatingIsAverage
<1>5. \A r \in Raters : GradeHolds(grade[r])' /\ OnlyGrade(r)'
  BY <1>1, <1>2 DEF RatingsInv, GradeHolds, OnlyGrade
<1> QED BY <1>3, <1>4, <1>5 DEF RatingsInv

\* A review is asked for
LEMMA BeginGradeStep ==
  \A r \in Raters, x \in Reviewed, mark \in Marks : RatingsInv /\ Begins(r, x, mark) => RatingsInv'
<1> SUFFICES ASSUME NEW r \in Raters, NEW x \in Reviewed, NEW mark \in Marks, RatingsInv,
                    Begins(r, x, mark)
             PROVE RatingsInv'
  OBVIOUS
<1>1. PICK k \in GradeRow : k = NoGrade BY Ungraded
<1> DEFINE g == [k EXCEPT !.at = "insert", !.of = x, !.note = mark]
<1>2. mark \in Nat BY RatingsAssumption
<1>3. g \in GradeRow BY <1>2 DEF GradeRow
<1>4. g.at = "insert" /\ g.of = x /\ g.note = mark BY DEF GradeRow
<1>5. grade' = [grade EXCEPT ![r] = g] /\ UNCHANGED <<delivered, avis, rating, outdated>>
  BY <1>1 DEF Begins
<1> HIDE DEF g
<1>6. /\ x \in delivered /\ \A i \in Written : avis[i].of # x
      /\ doubled \subseteq doubled' /\ doubled' \subseteq doubled \cup {x}
      /\ x \notin doubled' => \A q \in Raters : grade[q].of # x
      /\ grade[r].at = "idle"
  BY DEF Begins, Rateable, Pausing
<1>7. grade' \in [Raters -> GradeRow] /\ \A q \in Raters : grade'[q] = IF q = r THEN g ELSE grade[q]
  BY <1>3, <1>5 DEF RatingsInv, RatingsTypes
<1>8. Written' = Written /\ OfTrips' = OfTrips /\ Total(OfTrips)' = Total(OfTrips)
  BY <1>5 DEF Written, OfTrips, Total
<1>9. RatingsTypes' /\ OneReview' BY <1>5, <1>6, <1>7, <1>8 DEF RatingsInv, RatingsTypes, OneReview
<1>10. RatingIsAverage' BY <1>5, <1>8 DEF RatingsInv, RatingIsAverage
<1>11. ASSUME NEW q \in Raters PROVE GradeHolds(grade[q])' /\ OnlyGrade(q)'
  <2>1. CASE q = r
    <3>1. GradeHolds(g)' BY <1>4, <1>5, <1>6 DEF GradeHolds
    <3>2. OnlyGrade(q)' BY <1>4, <1>5, <1>6, <1>7, <1>8, <2>1 DEF OnlyGrade
    <3> QED BY <1>7, <2>1, <3>1, <3>2
  <2>2. CASE q # r
    <3>1. GradeHolds(grade[q])' BY <1>5, <1>7, <1>8, <2>2 DEF RatingsInv, GradeHolds
    <3>2. OnlyGrade(q)
      BY DEF RatingsInv
    <3>3. OnlyGrade(q)'
      <4> SUFFICES ASSUME grade[q].of # "none", grade[q].of \notin doubled'
                   PROVE  /\ \A i \in Written : avis[i].of # grade[q].of
                          /\ \A p \in Raters \ {q} : grade'[p].of # grade[q].of
        BY <1>5, <1>7, <1>8, <2>2 DEF OnlyGrade
      <4>1. grade[q].of # x BY <1>6
      <4> QED BY <1>4, <1>6, <1>7, <3>2, <4>1 DEF OnlyGrade
    <3> QED BY <3>1, <3>3
  <2> QED BY <2>1, <2>2
<1> QED BY <1>9, <1>10, <1>11 DEF RatingsInv

\* It is inserted, and the reviews are added up in the same transaction
LEMMA AggregateStep == \A r \in Raters : RatingsInv /\ Aggregate(r) => RatingsInv'
<1> SUFFICES ASSUME NEW r \in Raters, RatingsInv, Aggregate(r) PROVE RatingsInv'
  OBVIOUS
<1>1. PICK k \in GradeRow : k = grade[r] BY DEF RatingsInv, RatingsTypes
<1>2. PICK s \in Nat, c \in Nat : s = Total(OfTrips) + k.note /\ c = Cardinality(OfTrips) + 1
  BY AggregateType DEF RatingsInv, RatingsTypes, GradeRow
<1> DEFINE h == [k EXCEPT !.sum = s, !.count = c]
           g == [h EXCEPT !.at = "commit"]
<1>3. h \in GradeRow /\ h.sum = s /\ h.count = c /\ h.of = k.of /\ h.note = k.note /\ h.met = k.met
  BY DEF GradeRow
<1>4. grade' = [grade EXCEPT ![r] = g] /\ UNCHANGED <<delivered, avis, rating, outdated, doubled>>
  BY <1>1, <1>2 DEF Aggregate
<1> HIDE DEF h
<1>5. g \in GradeRow /\ g.at = "commit" /\ g.sum = s /\ g.count = c /\ g.of = k.of /\ g.note = k.note
  BY <1>3 DEF GradeRow
<1> HIDE DEF g
<1>6. k.at = "insert" /\ k.of \in Trips BY <1>1 DEF Aggregate
<1>7. grade' \in [Raters -> GradeRow] /\ \A q \in Raters : grade'[q] = IF q = r THEN g ELSE grade[q]
  BY <1>4, <1>5 DEF RatingsInv, RatingsTypes
<1>8. Written' = Written /\ OfTrips' = OfTrips /\ Total(OfTrips)' = Total(OfTrips)
  BY <1>4 DEF Written, OfTrips, Total
<1>9. RatingsTypes' /\ OneReview' BY <1>4, <1>7, <1>8 DEF RatingsInv, RatingsTypes, OneReview
<1>10. RatingIsAverage' BY <1>4, <1>8 DEF RatingsInv, RatingIsAverage
<1>11. \A q \in Raters : grade'[q].of = grade[q].of BY <1>1, <1>5, <1>7
<1>12. ASSUME NEW q \in Raters PROVE GradeHolds(grade[q])' /\ OnlyGrade(q)'
  <2>1. OnlyGrade(q)' BY <1>4, <1>8, <1>11 DEF RatingsInv, OnlyGrade
  <2>2. CASE q = r
    <3>1. k.of \in delivered \cap Reviewed /\ k.note \in Marks
      BY <1>1, <1>6 DEF RatingsInv, GradeHolds
    <3>2. GradeHolds(g)' BY <1>2, <1>4, <1>5, <1>6, <1>8, <3>1 DEF GradeHolds
    <3> QED BY <1>7, <2>1, <2>2, <3>2
  <2>3. CASE q # r
    <3>1. GradeHolds(grade[q])' BY <1>4, <1>7, <1>8, <2>3 DEF RatingsInv, GradeHolds
    <3> QED BY <2>1, <3>1
  <2> QED BY <2>2, <2>3
<1> QED BY <1>9, <1>10, <1>12 DEF RatingsInv

\* The request of r stores its review at i: nobody else reviews the same, but for overlaps
LEMMA Stored ==
  ASSUME RatingsInv, NEW r \in Raters, NEW i \in Reviews, i \notin Written, NEW k \in ReviewRow,
         grade[r].at # "idle", k.of = grade[r].of, k.note = grade[r].note,
         avis' = [avis EXCEPT ![i] = k], UNCHANGED <<delivered, doubled>>,
         \A q \in Raters : grade'[q].of = IF q = r THEN "none" ELSE grade[q].of
  PROVE  /\ avis' \in [Reviews -> ReviewRow]
         /\ \A j \in Written' : avis'[j].of \in delivered' /\ avis'[j].note \in Marks
         /\ OneReview' /\ \A q \in Raters : OnlyGrade(q)'
<1>1. avis' \in [Reviews -> ReviewRow] /\ \A j \in Reviews : avis'[j] = IF j = i THEN k ELSE avis[j]
  BY DEF RatingsInv, RatingsTypes
<1>2. grade[r].of \in delivered \cap Reviewed /\ grade[r].note \in Marks BY DEF RatingsInv, GradeHolds
<1>3. grade[r].of # "none" BY <1>2, RatingsAssumption DEF Reviewed
<1>4. Written' = Written \cup {i} BY <1>1, <1>3 DEF Written
<1>5. \A j \in Written : j \in Reviews /\ avis'[j] = avis[j] BY <1>1 DEF Written
<1>6. avis'[i] = k BY <1>1
<1>7. \A j \in Written' : avis'[j].of \in delivered' /\ avis'[j].note \in Marks
  BY <1>2, <1>4, <1>5, <1>6 DEF RatingsInv, RatingsTypes
<1>8. k.of \notin doubled =>
        /\ \A j \in Written : avis[j].of # k.of
        /\ \A q \in Raters \ {r} : grade[q].of # k.of
  BY <1>3 DEF RatingsInv, OnlyGrade
<1>9. OneReview'
  <2> SUFFICES ASSUME NEW a \in Written', NEW b \in Written', avis'[a].of = avis'[b].of,
                      avis'[a].of \notin doubled
               PROVE  a = b
    BY DEF OneReview
  <2>1. CASE a \in Written /\ b \in Written BY <1>5, <2>1 DEF RatingsInv, OneReview
  <2>2. CASE a = i /\ b \in Written BY <1>5, <1>6, <1>8, <2>2
  <2>3. CASE b = i /\ a \in Written BY <1>5, <1>6, <1>8, <2>3
  <2> QED BY <1>4, <2>1, <2>2, <2>3
<1>10. ASSUME NEW q \in Raters PROVE OnlyGrade(q)'
  <2> SUFFICES ASSUME grade'[q].of # "none", grade'[q].of \notin doubled
               PROVE  /\ \A j \in Written' : avis'[j].of # grade'[q].of
                      /\ \A p \in Raters \ {q} : grade'[p].of # grade'[q].of
    BY DEF OnlyGrade
  <2>1. q # r /\ grade'[q].of = grade[q].of OBVIOUS
  <2>2. /\ \A j \in Written : avis[j].of # grade[q].of
        /\ \A p \in Raters \ {q} : grade[p].of # grade[q].of
    BY <2>1 DEF RatingsInv, OnlyGrade
  <2>3. k.of # grade[q].of BY <2>1, <2>2
  <2>4. \A j \in Written' : avis'[j].of # grade'[q].of
    BY <1>4, <1>5, <1>6, <2>1, <2>2, <2>3
  <2>5. \A p \in Raters \ {q} : grade'[p].of # grade'[q].of BY <2>1, <2>2
  <2> QED BY <2>4, <2>5
<1> QED BY <1>1, <1>7, <1>9, <1>10

\* A request that has met another
LEMMA MetGrade ==
  ASSUME NEW g \in GradeRow, NEW met \in BOOLEAN
  PROVE  /\ [g EXCEPT !.met = met] \in GradeRow
         /\ [g EXCEPT !.met = met].at = g.at /\ [g EXCEPT !.met = met].of = g.of
         /\ [g EXCEPT !.met = met].note = g.note /\ [g EXCEPT !.met = met].met = met
  BY DEF GradeRow

\* ... which commits
LEMMA CommitGradeStep ==
  \A r \in Raters, i \in Reviews : RatingsInv /\ CommitGrade(r, i) => RatingsInv'
<1> SUFFICES ASSUME NEW r \in Raters, NEW i \in Reviews, RatingsInv, CommitGrade(r, i)
             PROVE RatingsInv'
  OBVIOUS
<1>1. PICK g \in GradeRow : g = grade[r] BY DEF RatingsInv, RatingsTypes
<1> DEFINE k == [of |-> g.of, note |-> g.note]
<1>2. k \in ReviewRow BY DEF ReviewRow, GradeRow
<1>3. k.of = g.of /\ k.note = g.note OBVIOUS
<1>4. /\ g.at = "commit" /\ i \notin Written /\ avis' = [avis EXCEPT ![i] = k]
      /\ rating' = [sum |-> g.sum, count |-> g.count] /\ outdated' = g.met
      /\ grade' = [Meets(r) EXCEPT ![r] = NoGrade] /\ UNCHANGED <<delivered, doubled>>
  BY <1>1 DEF CommitGrade
<1> HIDE DEF k
<1>5. g.of \in Trips /\ (~g.met => g.sum = Total(OfTrips) + g.note /\ g.count = Cardinality(OfTrips) + 1)
  BY <1>1, <1>4 DEF RatingsInv, GradeHolds
<1>6. \A q \in Raters : grade[q] \in GradeRow BY DEF RatingsInv, RatingsTypes
<1>7. /\ grade' \in [Raters -> GradeRow] /\ grade'[r] = NoGrade
      /\ \A q \in Raters \ {r} :
           /\ grade'[q].at = grade[q].at /\ grade'[q].of = grade[q].of /\ grade'[q].note = grade[q].note
           /\ grade'[q].at = "commit" => grade'[q].met
  <2>1. Meets(r) = [q \in Raters |-> IF q # r /\ grade[q].at = "commit"
                                   THEN [grade[q] EXCEPT !.met = TRUE] ELSE grade[q]]
    BY DEF Meets
  <2>2. \A q \in Raters :
          \/ grade[q].at # "commit" /\ Meets(r)[q] = grade[q]
          \/ Meets(r)[q] = [grade[q] EXCEPT !.met = TRUE]
          \/ q = r /\ Meets(r)[q] = grade[q]
    BY <2>1
  <2>3. \A q \in Raters : Meets(r)[q] \in GradeRow BY <1>6, <2>2, MetGrade
  <2>4. Meets(r) \in [Raters -> GradeRow] BY <2>1, <2>3
  <2>5. /\ grade' \in [Raters -> GradeRow] /\ grade'[r] = NoGrade
        /\ \A q \in Raters \ {r} : grade'[q] = Meets(r)[q]
    BY <1>4, <2>4, Ungraded
  <2>6. ASSUME NEW q \in Raters \ {r}
        PROVE  /\ grade'[q].at = grade[q].at /\ grade'[q].of = grade[q].of
               /\ grade'[q].note = grade[q].note /\ (grade'[q].at = "commit" => grade'[q].met)
    <3>1. PICK c \in GradeRow : c = grade[q] BY <1>6
    <3>2. CASE grade'[q] = c /\ grade[q].at # "commit" BY <3>1, <3>2
    <3>3. CASE grade'[q] = [c EXCEPT !.met = TRUE] BY <3>1, <3>3, MetGrade
    <3> QED BY <2>2, <2>5, <3>1, <3>2, <3>3
  <2> QED BY <2>5, <2>6
<1>8. \A q \in Raters : grade'[q].of = IF q = r THEN "none" ELSE grade[q].of BY <1>7, Ungraded
<1>9. /\ avis' \in [Reviews -> ReviewRow]
      /\ \A j \in Written' : avis'[j].of \in delivered' /\ avis'[j].note \in Marks
      /\ OneReview' /\ \A q \in Raters : OnlyGrade(q)'
  BY <1>1, <1>2, <1>3, <1>4, <1>8, Stored
<1>10. /\ Total(OfTrips)' = Total(OfTrips) + g.note
       /\ Cardinality(OfTrips)' = Cardinality(OfTrips) + 1
  BY <1>2, <1>3, <1>4, <1>5, AggregateMore DEF RatingsInv, RatingsTypes
<1>11. RatingIsAverage' BY <1>4, <1>5, <1>10 DEF RatingIsAverage
<1>12. RatingsTypes'
  <2>1. rating' \in [sum : Nat, count : Nat] /\ outdated' \in BOOLEAN BY <1>4 DEF GradeRow
  <2>2. doubled' \subseteq delivered' BY <1>4 DEF RatingsInv, RatingsTypes
  <2> QED BY <1>7, <1>9, <2>1, <2>2 DEF RatingsTypes
<1>13. \A q \in Raters : GradeHolds(grade[q])'
  <2> SUFFICES ASSUME NEW q \in Raters PROVE GradeHolds(grade[q])' OBVIOUS
  <2>1. CASE q = r BY <1>7, <2>1, Ungraded DEF GradeHolds
  <2>2. CASE q # r BY <1>4, <1>7, <2>2 DEF RatingsInv, GradeHolds
  <2> QED BY <2>1, <2>2
<1> QED BY <1>9, <1>11, <1>12, <1>13 DEF RatingsInv

\* A review of an order is stored
LEMMA StoreStep ==
  \A r \in Raters, i \in Reviews : RatingsInv /\ InsertReview(r, i) => RatingsInv'
<1> SUFFICES ASSUME NEW r \in Raters, NEW i \in Reviews, RatingsInv, InsertReview(r, i)
             PROVE RatingsInv'
  OBVIOUS
<1>1. PICK g \in GradeRow : g = grade[r] BY DEF RatingsInv, RatingsTypes
<1> DEFINE k == [of |-> g.of, note |-> g.note]
<1>2. k \in ReviewRow BY DEF ReviewRow, GradeRow
<1>3. k.of = g.of /\ k.note = g.note OBVIOUS
<1>4. /\ g.at = "insert" /\ g.of \in Bought /\ i \notin Written /\ avis' = [avis EXCEPT ![i] = k]
      /\ grade' = [grade EXCEPT ![r] = NoGrade] /\ UNCHANGED <<delivered, rating, outdated, doubled>>
  BY <1>1 DEF InsertReview
<1> HIDE DEF k
<1>5. grade' \in [Raters -> GradeRow] /\ \A q \in Raters : grade'[q] = IF q = r THEN NoGrade ELSE grade[q]
  BY <1>4, Ungraded DEF RatingsInv, RatingsTypes
<1>6. \A q \in Raters : grade'[q].of = IF q = r THEN "none" ELSE grade[q].of BY <1>5, Ungraded
<1>7. /\ avis' \in [Reviews -> ReviewRow]
      /\ \A j \in Written' : avis'[j].of \in delivered' /\ avis'[j].note \in Marks
      /\ OneReview' /\ \A q \in Raters : OnlyGrade(q)'
  BY <1>1, <1>2, <1>3, <1>4, <1>6, Stored
<1>8. OfTrips' = OfTrips /\ Total(OfTrips)' = Total(OfTrips)
  <2>1. avis \in [Reviews -> ReviewRow] BY DEF RatingsInv, RatingsTypes
  <2>2. avis[i].of \notin Trips BY <1>4, RatingsAssumption DEF Written
  <2>3. k.of \notin Trips BY <1>3, <1>4, RatingsAssumption
  <2>4. \A j \in Reviews : avis'[j] = avis[j] \/ (avis[j].of \notin Trips /\ avis'[j].of \notin Trips)
    BY <1>4, <2>1, <2>2, <2>3
  <2> QED BY <1>7, <2>1, <2>4, AggregateSame
<1>9. RatingIsAverage' BY <1>4, <1>8 DEF RatingsInv, RatingIsAverage
<1>10. RatingsTypes' BY <1>4, <1>5, <1>7 DEF RatingsInv, RatingsTypes
<1>11. \A q \in Raters : GradeHolds(grade[q])'
  <2> SUFFICES ASSUME NEW q \in Raters PROVE GradeHolds(grade[q])' OBVIOUS
  <2>1. CASE q = r BY <1>5, <2>1, Ungraded DEF GradeHolds
  <2>2. CASE q # r BY <1>4, <1>5, <1>8, <2>2 DEF RatingsInv, GradeHolds
  <2> QED BY <2>1, <2>2
<1> QED BY <1>7, <1>9, <1>10, <1>11 DEF RatingsInv

\* A review is deleted
LEMMA DeleteStep == \A i \in Reviews : RatingsInv /\ DeleteReview(i) => RatingsInv'
<1> SUFFICES ASSUME NEW i \in Reviews, RatingsInv, DeleteReview(i) PROVE RatingsInv'
  OBVIOUS
<1>1. /\ avis' = [avis EXCEPT ![i] = NoReview] /\ UNCHANGED <<delivered, rating, doubled>>
      /\ outdated' = (outdated \/ avis[i].of \in Trips)
      /\ grade' = IF avis[i].of \in Trips
                  THEN [q \in Raters |-> [grade[q] EXCEPT !.met = @ \/ grade[q].at = "commit"]]
                  ELSE grade
  BY DEF DeleteReview
<1>2. avis' \in [Reviews -> ReviewRow] /\ \A j \in Reviews : avis'[j] = IF j = i THEN NoReview ELSE avis[j]
  BY <1>1, Unwritten DEF RatingsInv, RatingsTypes
<1>3. Written' \subseteq Written /\ \A j \in Written' : avis'[j] = avis[j]
  BY <1>2, Unwritten DEF Written
<1>4. \A q \in Raters : grade[q] \in GradeRow BY DEF RatingsInv, RatingsTypes
<1>5. /\ grade' \in [Raters -> GradeRow]
      /\ \A q \in Raters :
           /\ grade'[q].at = grade[q].at /\ grade'[q].of = grade[q].of /\ grade'[q].note = grade[q].note
           /\ avis[i].of \in Trips /\ grade'[q].at = "commit" => grade'[q].met
           /\ avis[i].of \notin Trips => grade'[q] = grade[q]
  <2>1. CASE avis[i].of \notin Trips BY <1>1, <2>1 DEF RatingsInv, RatingsTypes
  <2>2. CASE avis[i].of \in Trips
    <3>1. grade' = [q \in Raters |-> [grade[q] EXCEPT !.met = grade[q].met \/ grade[q].at = "commit"]]
      BY <1>1, <2>2
    <3>2. ASSUME NEW q \in Raters
          PROVE  /\ grade'[q] \in GradeRow
                 /\ grade'[q].at = grade[q].at /\ grade'[q].of = grade[q].of
                 /\ grade'[q].note = grade[q].note /\ (grade'[q].at = "commit" => grade'[q].met)
      <4>1. PICK c \in GradeRow : c = grade[q] BY <1>4
      <4>2. PICK m \in BOOLEAN : m = (c.met \/ c.at = "commit") OBVIOUS
      <4>3. grade'[q] = [c EXCEPT !.met = m] BY <3>1, <4>1, <4>2
      <4> QED BY <4>1, <4>2, <4>3, MetGrade
    <3>3. grade' \in [Raters -> GradeRow] BY <3>1, <3>2
    <3> QED BY <2>2, <3>2, <3>3
  <2> QED BY <2>1, <2>2
<1>6. avis[i].of \notin Trips => OfTrips' = OfTrips /\ Total(OfTrips)' = Total(OfTrips)
  <2> SUFFICES ASSUME avis[i].of \notin Trips PROVE OfTrips' = OfTrips /\ Total(OfTrips)' = Total(OfTrips)
    OBVIOUS
  <2>1. avis'[i].of \notin Trips BY <1>2, Unwritten, RatingsAssumption
  <2>2. \A j \in Reviews : avis'[j] = avis[j] \/ (avis[j].of \notin Trips /\ avis'[j].of \notin Trips)
    BY <1>2, <2>1
  <2>3. avis \in [Reviews -> ReviewRow] BY DEF RatingsInv, RatingsTypes
  <2> QED BY <1>2, <2>2, <2>3, AggregateSame
<1>7. RatingIsAverage' BY <1>1, <1>6 DEF RatingsInv, RatingIsAverage
<1>8. RatingsTypes'
  <2>1. outdated' \in BOOLEAN BY <1>1
  <2> QED BY <1>1, <1>2, <1>3, <1>5, <2>1 DEF RatingsInv, RatingsTypes
<1>9. OneReview' BY <1>1, <1>3 DEF RatingsInv, OneReview
<1>10. ASSUME NEW q \in Raters PROVE GradeHolds(grade[q])' /\ OnlyGrade(q)'
  <2>1. OnlyGrade(q)' BY <1>1, <1>3, <1>5 DEF RatingsInv, OnlyGrade
  <2>2. GradeHolds(grade[q])'
    <3>1. CASE avis[i].of \in Trips BY <1>1, <1>5, <3>1 DEF RatingsInv, GradeHolds
    <3>2. CASE avis[i].of \notin Trips BY <1>1, <1>5, <1>6, <3>2 DEF RatingsInv, GradeHolds
    <3> QED BY <3>1, <3>2
  <2> QED BY <2>1, <2>2
<1> QED BY <1>7, <1>8, <1>9, <1>10 DEF RatingsInv

\* Each step preserves the invariant
LEMMA RatingsNextInv == RatingsInv /\ [RatingsNext]_ratingsVars => RatingsInv'
<1> SUFFICES ASSUME RatingsInv, [RatingsNext]_ratingsVars PROVE RatingsInv'
  OBVIOUS
<1>1. CASE UNCHANGED ratingsVars
  <2>1. UNCHANGED <<delivered, avis, rating, grade, outdated, doubled>> BY <1>1 DEF ratingsVars
  <2>2. Written' = Written /\ OfTrips' = OfTrips /\ Total(OfTrips)' = Total(OfTrips)
    BY <2>1 DEF Written, OfTrips, Total
  <2>3. RatingsTypes' /\ OneReview' BY <2>1, <2>2 DEF RatingsInv, RatingsTypes, OneReview
  <2>4. RatingIsAverage' BY <2>1, <2>2 DEF RatingsInv, RatingIsAverage
  <2>5. \A q \in Raters : GradeHolds(grade[q])' /\ OnlyGrade(q)'
    BY <2>1, <2>2 DEF RatingsInv, GradeHolds, OnlyGrade
  <2> QED BY <2>3, <2>4, <2>5 DEF RatingsInv
<1>2. CASE RatingsNext
  BY <1>2, DeliverStep, BeginGradeStep, AggregateStep, CommitGradeStep, StoreStep, DeleteStep, Zenon
     DEF RatingsNext, Reviewed, BeginEvaluate, BeginReview
<1> QED BY <1>1, <1>2

\* However reviews overlap, a request that added them up knows those that are committed, unless
\* another one crossed it (evaluateShipment, laisserAvis, deleteAvis)
THEOREM RatingsInvariance == RatingsSpec => []RatingsInv
  BY RatingsInitInv, RatingsNextInv, PTL DEF RatingsSpec

\* ... and it is enough
LEMMA RatingsInvImplies == RatingsInv => RatingsSafety
<1> SUFFICES ASSUME RatingsInv PROVE RatingsSafety OBVIOUS
<1>1. \A r \in Raters : grade[r].at \in {"idle", "insert", "commit"}
  BY DEF RatingsInv, RatingsTypes, GradeRow
<1>2. RatingsTypeOK BY <1>1 DEF RatingsInv, RatingsTypes, RatingsTypeOK
<1> QED BY <1>2 DEF RatingsInv, RatingsSafety

-----------------------------------------------------------------------------
(***************************************************************************)
(* The assistant. Questions and answers are compared by counting who waits *)
(* between them; the newest conversation never had an answer or had the    *)
(* last one.                                                               *)
(***************************************************************************)

\* The shapes of a request and of a conversation
Turning == {"idle", "create", "ask", "think", "answer", "date"}

TurnRow == [at : Turning, in : Chats \cup {Anew}, reply : Replies \cup {"none"}]

TurnsRow == [asked : Nat, answered : Nat, drafts : BOOLEAN]

\* Types of the rows
AssistantTypes ==
  /\ asker \in {"FARMER", "BUYER"}
  /\ opened \in SUBSET Chats /\ restarts \in SUBSET opened /\ spoken \in SUBSET opened
  /\ IF spoken = {} THEN recent = Anew ELSE recent \in spoken
  /\ turns \in [Chats -> TurnsRow]
  /\ turn \in [Askers -> TurnRow]
  /\ lost \in [Chats -> Nat]
  /\ latecome \in BOOLEAN /\ twice \in BOOLEAN

\* The conversations were opened in order, and one of them is the newest
InOrder ==
  /\ \A c \in opened : \A d \in Chats : d < c => d \in opened
  /\ opened # {} => \E m \in opened : \A d \in opened : d <= m

\* A request under way is about a conversation that was opened; a draft is a farmer's
TurnHolds(r) ==
  /\ turn[r].at \in {"ask", "think", "answer", "date"} => turn[r].in \in opened
  /\ turn[r].reply = "draft" => asker = "FARMER"

\* The newest conversation never had an answer, or had the last one
NewestLeads == opened # {} /\ ~latecome => Newest \in Silent \/ recent = Newest

\* One conversation was not a restart at most, and none is while a request makes the first
OneFirst ==
  /\ \A c \in opened \ restarts : \A d \in opened \ restarts : c = d
  /\ \A r \in Askers :
       turn[r].at = "create" =>
         /\ opened \ restarts = {}
         /\ \A q \in Askers \ {r} : turn[q].at # "create"

\* The requests whose question is stored in a conversation, and not the answer
Awaiting(c) == {r \in Askers : turn[r].in = c /\ turn[r].at \in {"think", "answer"}}

\* The inductive invariant
AssistantInv ==
  /\ AssistantTypes
  /\ InOrder
  /\ \A r \in Askers : TurnHolds(r)
  /\ \A c \in Chats : turns[c].drafts => asker = "FARMER"
  /\ EveryAnswer
  /\ NewestLeads
  /\ ~twice => OneFirst

\* A request at rest
LEMMA NoTurnType == NoTurn \in TurnRow /\ NoTurn.at = "idle" /\ NoTurn.reply = "none"
  BY DEF NoTurn, TurnRow, Turning, Replies

\* The invariant holds at first
LEMMA AssistantInitInv == AssistantInit => AssistantInv
<1> SUFFICES ASSUME AssistantInit PROVE AssistantInv
  OBVIOUS
<1> USE DEF AssistantInit
<1>0. PICK v \in TurnRow : v = NoTurn
  BY NoTurnType
<1>1. v.at = "idle" /\ v.reply = "none" /\ turn = [r \in Askers |-> v]
  BY <1>0, NoTurnType
<1>2. AssistantTypes
  BY <1>1 DEF AssistantTypes, TurnsRow
<1>3. InOrder /\ NewestLeads
  BY DEF InOrder, NewestLeads
<1>4. \A r \in Askers : TurnHolds(r)
  BY <1>1 DEF TurnHolds
<1>5. \A c \in Chats : turns[c].drafts => asker = "FARMER"
  OBVIOUS
<1>6. EveryAnswer
  <2> SUFFICES ASSUME NEW c \in Chats
      PROVE  turns[c].asked = turns[c].answered + lost[c] + Cardinality(Awaiting(c))
    BY DEF EveryAnswer, Awaiting
  <2>1. Awaiting(c) = {}
    BY <1>1 DEF Awaiting
  <2>2. Cardinality(Awaiting(c)) = 0
    BY <2>1, FS_EmptySet
  <2> QED BY <2>2
<1>7. OneFirst
  BY <1>1 DEF OneFirst
<1> QED BY <1>2, <1>3, <1>4, <1>5, <1>6, <1>7 DEF AssistantInv

\* What a step of one request does to the rows, and to who waits for an answer
LEMMA OneTurn ==
  ASSUME AssistantTypes, NEW r \in Askers, NEW v \in TurnRow,
         turn' = [turn EXCEPT ![r] = v]
  PROVE  /\ turn' \in [Askers -> TurnRow]
         /\ turn'[r] = v
         /\ \A q \in Askers : q # r => turn'[q] = turn[q]
         /\ \A c \in Chats :
              Awaiting(c)' = IF v.in = c /\ v.at \in {"think", "answer"}
                             THEN Awaiting(c) \cup {r} ELSE Awaiting(c) \ {r}
  BY DEF AssistantTypes, Awaiting

\* The requests that wait are finitely many
LEMMA AwaitingCount ==
  ASSUME NEW c, NEW r \in Askers
  PROVE  /\ Cardinality(Awaiting(c)) \in Nat
         /\ r \notin Awaiting(c) => Cardinality(Awaiting(c) \cup {r}) = Cardinality(Awaiting(c)) + 1
         /\ r \in Awaiting(c) => Cardinality(Awaiting(c) \ {r}) = Cardinality(Awaiting(c)) - 1
<1>1. IsFiniteSet(Awaiting(c))
  BY AssistantAssumption, FS_Subset DEF Awaiting
<1> QED BY <1>1, FS_AddElement, FS_RemoveElement, FS_CardinalityType

\* The counts stand when no question is stored and nobody starts or stops to wait
LEMMA SameCounts ==
  ASSUME AssistantInv, UNCHANGED <<turns, lost>>,
         \A c \in Chats : Awaiting(c)' = Awaiting(c)
  PROVE  EveryAnswer'
<1> SUFFICES ASSUME NEW c \in Chats
    PROVE  turns'[c].asked = turns'[c].answered + lost'[c] + Cardinality(Awaiting(c)')
  BY DEF EveryAnswer, Awaiting
<1>1. turns[c].asked = turns[c].answered + lost[c] + Cardinality(Awaiting(c))
  BY DEF AssistantInv, EveryAnswer, Awaiting
<1> QED BY <1>1

\* A conversation is opened: it is the newest, and never had an answer
LEMMA OpensStep ==
  ASSUME AssistantInv, NEW c \in Chats, Opens(c), UNCHANGED <<spoken, recent>>
  PROVE  InOrder' /\ NewestLeads' /\ opened' \in SUBSET Chats /\ opened \subseteq opened'
<1> USE DEF Opens
<1>1. Chats \subseteq Nat /\ opened \subseteq Chats /\ spoken \subseteq opened
  BY AssistantAssumption DEF AssistantInv, AssistantTypes
<1>2. \A d \in opened : d < c
  <2> SUFFICES ASSUME NEW d \in opened, ~(d < c) PROVE FALSE
    OBVIOUS
  <2>1. d # c /\ c \in Nat /\ d \in Nat
    BY <1>1
  <2>2. c < d
    BY <2>1
  <2> QED BY <2>2 DEF AssistantInv, InOrder
<1>3. \A d \in opened' : d <= c
  BY <1>1, <1>2
<1>4. InOrder'
  <2>1. \A a \in opened' : \A d \in Chats : d < a => d \in opened'
    BY <1>1 DEF AssistantInv, InOrder
  <2> QED BY <1>3, <2>1 DEF InOrder
<1>5. Newest' = c
  <2>1. opened' \subseteq Nat /\ c \in opened'
    BY <1>1
  <2>2. \E b \in opened' : \A d \in opened' : d <= b
    BY <1>3, <2>1
  <2>3. Newest' \in opened' /\ \A d \in opened' : d <= Newest'
    BY <2>2, Zenon DEF Newest
  <2> QED BY <1>3, <2>1, <2>3
<1>6. c \in Silent'
  BY <1>1 DEF Silent
<1> QED BY <1>1, <1>4, <1>5, <1>6 DEF NewestLeads

\* A request that changes neither the conversations nor the counts
LEMMA WalkStep ==
  ASSUME AssistantInv, NEW r \in Askers, NEW v \in TurnRow,
         turn' = [turn EXCEPT ![r] = v],
         v.at \in {"ask", "think", "answer", "date"} => v.in \in opened,
         v.reply = "draft" => asker = "FARMER",
         v.at # "create",
         (turn[r].at \in {"think", "answer"}) <=> (v.at \in {"think", "answer"}),
         v.at \in {"think", "answer"} => v.in = turn[r].in,
         UNCHANGED <<asker, restarts, opened, spoken, recent, turns, lost, latecome, twice>>
  PROVE  AssistantInv'
<1>1. AssistantTypes
  BY DEF AssistantInv
<1>2. /\ turn' \in [Askers -> TurnRow] /\ turn'[r] = v
      /\ \A q \in Askers : q # r => turn'[q] = turn[q]
      /\ \A c \in Chats :
              Awaiting(c)' = IF v.in = c /\ v.at \in {"think", "answer"}
                             THEN Awaiting(c) \cup {r} ELSE Awaiting(c) \ {r}
  BY <1>1, OneTurn
<1>3. \A c \in Chats : Awaiting(c)' = Awaiting(c)
  BY <1>2 DEF Awaiting
<1>4. EveryAnswer'
  BY <1>3, SameCounts
<1>5. AssistantTypes'
  BY <1>1, <1>2 DEF AssistantTypes
<1>6. InOrder' /\ NewestLeads'
  BY DEF AssistantInv, InOrder, NewestLeads, Newest, Silent
<1>7. \A q \in Askers : TurnHolds(q)'
  BY <1>2 DEF AssistantInv, TurnHolds
<1>8. \A c \in Chats : turns'[c].drafts => asker' = "FARMER"
  BY DEF AssistantInv
<1>9. ~twice' => OneFirst'
  BY <1>2 DEF AssistantInv, OneFirst
<1> QED BY <1>4, <1>5, <1>6, <1>7, <1>8, <1>9 DEF AssistantInv

\* A request finds its conversation
LEMMA AsksStep ==
  ASSUME AssistantInv, NEW r \in Askers, NEW c \in opened, Asks(r, c)
  PROVE  AssistantInv'
<1> DEFINE v == [NoTurn EXCEPT !.at = "ask", !.in = c]
<1>1. c \in Chats
  BY DEF AssistantInv, AssistantTypes
<1>2. v \in TurnRow /\ v.at = "ask" /\ v.in = c /\ v.reply = "none"
  BY <1>1 DEF NoTurn, TurnRow, Turning, Replies
<1>3. turn' = [turn EXCEPT ![r] = v] /\ turn[r].at = "idle"
  BY DEF Asks, AtRest
<1>4. UNCHANGED <<asker, restarts, opened, spoken, recent, turns, lost, latecome, twice>>
  BY DEF Asks
<1> HIDE DEF v
<1> QED BY <1>2, <1>3, <1>4, WalkStep

\* The model answers, fails or calls a tool
LEMMA ThinkStep ==
  ASSUME AssistantInv, NEW r \in Askers, NEW outcome \in {"plain", "tool", "sorry"},
         Think(r, asker, outcome)
  PROVE  AssistantInv'
<1>1. turn \in [Askers -> TurnRow] /\ TurnHolds(r)
  BY DEF AssistantInv, AssistantTypes
<1>2. PICK k \in TurnRow : k = turn[r]
  BY <1>1
<1>3. PICK w \in Replies : w = (IF outcome = "tool" THEN Tool(asker) ELSE outcome)
  BY DEF Replies, Tool
<1>4. w = "draft" => asker = "FARMER"
  BY <1>3 DEF Tool
<1> DEFINE v == [k EXCEPT !.at = "answer", !.reply = w]
<1>5. v \in TurnRow /\ v.at = "answer" /\ v.in = k.in /\ v.reply = w
  BY DEF TurnRow, Turning
<1>6. turn' = [turn EXCEPT ![r] = v] /\ k.at = "think"
  BY <1>1, <1>2, <1>3 DEF Think
<1>7. UNCHANGED <<asker, restarts, opened, spoken, recent, turns, lost, latecome, twice>>
  BY DEF Think
<1>8. v.in \in opened
  BY <1>1, <1>2, <1>5, <1>6 DEF TurnHolds
<1> HIDE DEF v
<1> QED BY <1>2, <1>4, <1>5, <1>6, <1>7, <1>8, WalkStep

\* A request finds no conversation: none was opened
LEMMA FindNoChatStep ==
  ASSUME AssistantInv, NEW r \in Askers, FindNoChat(r)
  PROVE  AssistantInv'
<1>1. AssistantTypes /\ TurnHolds(r)
  BY DEF AssistantInv
<1>2. PICK k \in TurnRow : k = turn[r]
  BY <1>1 DEF AssistantTypes
<1> DEFINE v == [k EXCEPT !.at = "create"]
<1>3. v \in TurnRow /\ v.at = "create" /\ v.in = k.in /\ v.reply = k.reply
  BY DEF TurnRow, Turning
<1>4. turn' = [turn EXCEPT ![r] = v] /\ k.at = "idle"
  BY <1>1, <1>2 DEF FindNoChat, AtRest, AssistantTypes
<1>5. /\ UNCHANGED <<asker, restarts, opened, spoken, recent, turns, lost, latecome>>
      /\ twice' = (twice \/ \E q \in Askers \ {r} : turn[q].at = "create")
  BY DEF FindNoChat
<1>6. opened = {}
  BY <1>1 DEF FindNoChat, Active, Silent, AssistantTypes
<1> HIDE DEF v
<1>7. /\ turn' \in [Askers -> TurnRow] /\ turn'[r] = v
      /\ \A q \in Askers : q # r => turn'[q] = turn[q]
      /\ \A c \in Chats :
              Awaiting(c)' = IF v.in = c /\ v.at \in {"think", "answer"}
                             THEN Awaiting(c) \cup {r} ELSE Awaiting(c) \ {r}
  BY <1>1, <1>3, <1>4, OneTurn
<1>8. \A c \in Chats : Awaiting(c)' = Awaiting(c)
  BY <1>2, <1>3, <1>4, <1>7 DEF Awaiting
<1>9. EveryAnswer'
  BY <1>5, <1>8, SameCounts
<1>10. AssistantTypes'
  BY <1>1, <1>5, <1>7 DEF AssistantTypes
<1>11. InOrder' /\ NewestLeads'
  BY <1>5 DEF AssistantInv, InOrder, NewestLeads, Newest, Silent
<1>12. \A q \in Askers : TurnHolds(q)'
  BY <1>2, <1>3, <1>5, <1>7 DEF AssistantInv, TurnHolds
<1>13. \A c \in Chats : turns'[c].drafts => asker' = "FARMER"
  BY <1>5 DEF AssistantInv
<1>14. ~twice' => OneFirst'
  BY <1>5, <1>6, <1>7 DEF AssistantInv, OneFirst
<1> QED BY <1>9, <1>10, <1>11, <1>12, <1>13, <1>14 DEF AssistantInv

\* ... and makes one
LEMMA CreateChatStep ==
  ASSUME AssistantInv, NEW r \in Askers, NEW c \in Chats, CreateChat(r, c)
  PROVE  AssistantInv'
<1>1. AssistantTypes /\ TurnHolds(r)
  BY DEF AssistantInv
<1>2. PICK k \in TurnRow : k = turn[r]
  BY <1>1 DEF AssistantTypes
<1> DEFINE v == [k EXCEPT !.at = "ask", !.in = c]
<1>3. v \in TurnRow /\ v.at = "ask" /\ v.in = c /\ v.reply = k.reply
  BY DEF TurnRow, Turning
<1>4. turn' = [turn EXCEPT ![r] = v] /\ k.at = "create"
  BY <1>1, <1>2 DEF CreateChat, AssistantTypes
<1>5. /\ UNCHANGED <<asker, restarts, spoken, recent, turns, lost, twice>>
      /\ Opens(c) /\ opened' = opened \cup {c} /\ c \notin opened /\ latecome' = FALSE
  BY DEF CreateChat, Opens
<1> HIDE DEF v
<1>6. InOrder' /\ NewestLeads' /\ opened' \in SUBSET Chats /\ opened \subseteq opened'
  BY <1>5, OpensStep
<1>7. /\ turn' \in [Askers -> TurnRow] /\ turn'[r] = v
      /\ \A q \in Askers : q # r => turn'[q] = turn[q]
      /\ \A d \in Chats :
              Awaiting(d)' = IF v.in = d /\ v.at \in {"think", "answer"}
                             THEN Awaiting(d) \cup {r} ELSE Awaiting(d) \ {r}
  BY <1>1, <1>3, <1>4, OneTurn
<1>8. \A d \in Chats : Awaiting(d)' = Awaiting(d)
  BY <1>2, <1>3, <1>4, <1>7 DEF Awaiting
<1>9. EveryAnswer'
  BY <1>5, <1>8, SameCounts
<1>10. AssistantTypes'
  BY <1>1, <1>5, <1>6, <1>7 DEF AssistantTypes
<1>12. \A q \in Askers : TurnHolds(q)'
  BY <1>2, <1>3, <1>5, <1>7 DEF AssistantInv, TurnHolds
<1>13. \A d \in Chats : turns'[d].drafts => asker' = "FARMER"
  BY <1>5 DEF AssistantInv
<1>14. ~twice' => OneFirst'
  BY <1>1, <1>2, <1>3, <1>4, <1>5, <1>7 DEF AssistantInv, AssistantTypes, OneFirst
<1> QED BY <1>6, <1>9, <1>10, <1>12, <1>13, <1>14 DEF AssistantInv

\* The question is stored: one more waits for an answer
LEMMA StoreQuestionStep ==
  ASSUME AssistantInv, NEW r \in Askers, StoreQuestion(r)
  PROVE  AssistantInv'
<1>1. AssistantTypes /\ TurnHolds(r)
  BY DEF AssistantInv
<1>2. PICK k \in TurnRow : k = turn[r]
  BY <1>1 DEF AssistantTypes
<1>3. k.at = "ask" /\ k.in \in opened /\ k.in \in Chats
  BY <1>1, <1>2 DEF StoreQuestion, TurnHolds, AssistantTypes
<1>4. PICK b \in Chats : b = k.in
  BY <1>3
<1>5. PICK w \in TurnsRow : w = turns[b]
  BY <1>1 DEF AssistantTypes
<1> DEFINE v == [k EXCEPT !.at = "think"]
           u == [w EXCEPT !.asked = @ + 1]
<1>6. v \in TurnRow /\ v.at = "think" /\ v.in = k.in /\ v.reply = k.reply
  BY DEF TurnRow, Turning
<1>7. u \in TurnsRow /\ u.asked = w.asked + 1 /\ u.answered = w.answered /\ u.drafts = w.drafts
  BY DEF TurnsRow
<1>8. /\ turn' = [turn EXCEPT ![r] = v] /\ turns' = [turns EXCEPT ![b] = u]
      /\ UNCHANGED <<asker, restarts, opened, spoken, recent, lost, latecome, twice>>
  BY <1>1, <1>2, <1>4, <1>5 DEF StoreQuestion, AssistantTypes
<1> HIDE DEF v, u
<1>9. /\ turn' \in [Askers -> TurnRow] /\ turn'[r] = v
      /\ \A q \in Askers : q # r => turn'[q] = turn[q]
      /\ \A d \in Chats :
              Awaiting(d)' = IF v.in = d /\ v.at \in {"think", "answer"}
                             THEN Awaiting(d) \cup {r} ELSE Awaiting(d) \ {r}
  BY <1>1, <1>6, <1>8, OneTurn
<1>10. turns' \in [Chats -> TurnsRow] /\ turns'[b] = u /\ \A d \in Chats : d # b => turns'[d] = turns[d]
  BY <1>1, <1>7, <1>8 DEF AssistantTypes
<1>11. EveryAnswer'
  <2> SUFFICES ASSUME NEW d \in Chats
      PROVE  turns'[d].asked = turns'[d].answered + lost'[d] + Cardinality(Awaiting(d)')
    BY DEF EveryAnswer, Awaiting
  <2>1. turns[d].asked = turns[d].answered + lost[d] + Cardinality(Awaiting(d))
    BY DEF AssistantInv, EveryAnswer, Awaiting
  <2>2. r \notin Awaiting(d)
    BY <1>2, <1>3 DEF Awaiting
  <2>3. CASE d = b
    <3>1. Awaiting(d)' = Awaiting(d) \cup {r}
      BY <1>4, <1>6, <1>9, <2>3
    <3>2. /\ Cardinality(Awaiting(d)') = Cardinality(Awaiting(d)) + 1
          /\ Cardinality(Awaiting(d)) \in Nat
      BY <2>2, <3>1, AwaitingCount
    <3>3. lost[d] \in Nat /\ w.asked \in Nat /\ w.answered \in Nat /\ lost'[d] = lost[d]
      BY <1>1, <1>8 DEF AssistantTypes, TurnsRow
    <3> QED BY <1>5, <1>7, <1>10, <2>1, <2>3, <3>2, <3>3
  <2>4. CASE d # b
    <3>1. Awaiting(d)' = Awaiting(d)
      BY <1>4, <1>6, <1>9, <2>2, <2>4
    <3> QED BY <1>8, <1>10, <2>1, <2>4, <3>1
  <2> QED BY <2>3, <2>4
<1>12. AssistantTypes'
  BY <1>1, <1>8, <1>9, <1>10 DEF AssistantTypes
<1>13. InOrder' /\ NewestLeads'
  BY <1>8 DEF AssistantInv, InOrder, NewestLeads, Newest, Silent
<1>14. \A q \in Askers : TurnHolds(q)'
  BY <1>2, <1>3, <1>6, <1>8, <1>9 DEF AssistantInv, TurnHolds
<1>15. \A d \in Chats : turns'[d].drafts => asker' = "FARMER"
  BY <1>5, <1>7, <1>8, <1>10 DEF AssistantInv
<1>16. ~twice' => OneFirst'
  BY <1>6, <1>8, <1>9 DEF AssistantInv, OneFirst
<1> QED BY <1>11, <1>12, <1>13, <1>14, <1>15, <1>16 DEF AssistantInv

\* ... which is stored: one less waits
LEMMA StoreAnswerStep ==
  ASSUME AssistantInv, NEW r \in Askers, StoreAnswer(r)
  PROVE  AssistantInv'
<1>1. AssistantTypes /\ TurnHolds(r)
  BY DEF AssistantInv
<1>2. PICK k \in TurnRow : k = turn[r]
  BY <1>1 DEF AssistantTypes
<1>3. k.at = "answer" /\ k.in \in opened /\ k.in \in Chats
  BY <1>1, <1>2 DEF StoreAnswer, TurnHolds, AssistantTypes
<1>4. PICK b \in Chats : b = k.in
  BY <1>3
<1>5. PICK w \in TurnsRow : w = turns[b]
  BY <1>1 DEF AssistantTypes
<1>51. PICK drafted \in BOOLEAN : drafted = (w.drafts \/ k.reply = "draft")
  OBVIOUS
<1> DEFINE v == [k EXCEPT !.at = "date"]
           u == [w EXCEPT !.answered = @ + 1, !.drafts = drafted]
<1>6. v \in TurnRow /\ v.at = "date" /\ v.in = k.in /\ v.reply = k.reply
  BY DEF TurnRow, Turning
<1>7. u \in TurnsRow /\ u.asked = w.asked /\ u.answered = w.answered + 1 /\ u.drafts = drafted
  <2> DEFINE y == [w EXCEPT !.answered = @ + 1]
  <2>1. y \in TurnsRow /\ y.asked = w.asked /\ y.answered = w.answered + 1
    BY DEF TurnsRow
  <2>2. u = [y EXCEPT !.drafts = drafted]
    BY DEF TurnsRow
  <2> HIDE DEF y, u
  <2> QED BY <2>1, <2>2 DEF TurnsRow
<1>8. /\ turn' = [turn EXCEPT ![r] = v] /\ turns' = [turns EXCEPT ![b] = u]
      /\ UNCHANGED <<asker, restarts, opened, spoken, recent, lost, latecome, twice>>
  BY <1>1, <1>2, <1>4, <1>5, <1>51 DEF StoreAnswer, AssistantTypes
<1> HIDE DEF v, u
<1>9. /\ turn' \in [Askers -> TurnRow] /\ turn'[r] = v
      /\ \A q \in Askers : q # r => turn'[q] = turn[q]
      /\ \A d \in Chats :
              Awaiting(d)' = IF v.in = d /\ v.at \in {"think", "answer"}
                             THEN Awaiting(d) \cup {r} ELSE Awaiting(d) \ {r}
  BY <1>1, <1>6, <1>8, OneTurn
<1>10. turns' \in [Chats -> TurnsRow] /\ turns'[b] = u /\ \A d \in Chats : d # b => turns'[d] = turns[d]
  BY <1>1, <1>7, <1>8 DEF AssistantTypes
<1>11. EveryAnswer'
  <2> SUFFICES ASSUME NEW d \in Chats
      PROVE  turns'[d].asked = turns'[d].answered + lost'[d] + Cardinality(Awaiting(d)')
    BY DEF EveryAnswer, Awaiting
  <2>1. turns[d].asked = turns[d].answered + lost[d] + Cardinality(Awaiting(d))
    BY DEF AssistantInv, EveryAnswer, Awaiting
  <2>2. Awaiting(d)' = Awaiting(d) \ {r}
    BY <1>6, <1>9
  <2>3. CASE d = b
    <3>1. r \in Awaiting(d)
      BY <1>2, <1>3, <1>4, <2>3 DEF Awaiting
    <3>2. /\ Cardinality(Awaiting(d)') = Cardinality(Awaiting(d)) - 1
          /\ Cardinality(Awaiting(d)) \in Nat
      BY <2>2, <3>1, AwaitingCount
    <3>3. lost[d] \in Nat /\ w.asked \in Nat /\ w.answered \in Nat /\ lost'[d] = lost[d]
      BY <1>1, <1>8 DEF AssistantTypes, TurnsRow
    <3> QED BY <1>5, <1>7, <1>10, <2>1, <2>3, <3>2, <3>3
  <2>4. CASE d # b
    <3>1. Awaiting(d)' = Awaiting(d)
      BY <1>2, <1>4, <2>2, <2>4 DEF Awaiting
    <3> QED BY <1>8, <1>10, <2>1, <2>4, <3>1
  <2> QED BY <2>3, <2>4
<1>12. AssistantTypes'
  BY <1>1, <1>8, <1>9, <1>10 DEF AssistantTypes
<1>13. InOrder' /\ NewestLeads'
  BY <1>8 DEF AssistantInv, InOrder, NewestLeads, Newest, Silent
<1>14. \A q \in Askers : TurnHolds(q)'
  BY <1>2, <1>3, <1>6, <1>8, <1>9 DEF AssistantInv, TurnHolds
<1>15. \A d \in Chats : turns'[d].drafts => asker' = "FARMER"
  <2>1. drafted => asker = "FARMER"
    BY <1>1, <1>2, <1>5, <1>51 DEF AssistantInv, TurnHolds
  <2> QED BY <1>7, <1>8, <1>10, <2>1 DEF AssistantInv
<1>16. ~twice' => OneFirst'
  BY <1>6, <1>8, <1>9 DEF AssistantInv, OneFirst
<1> QED BY <1>11, <1>12, <1>13, <1>14, <1>15, <1>16 DEF AssistantInv

\* The conversation is dated
LEMMA DateChatStep ==
  ASSUME AssistantInv, NEW r \in Askers, DateChat(r)
  PROVE  AssistantInv'
<1>1. AssistantTypes /\ TurnHolds(r)
  BY DEF AssistantInv
<1>2. PICK k \in TurnRow : k = turn[r]
  BY <1>1 DEF AssistantTypes
<1>3. k.at = "date" /\ k.in \in opened /\ k.in \in Chats
  BY <1>1, <1>2 DEF DateChat, TurnHolds, AssistantTypes
<1>4. PICK v \in TurnRow : v = NoTurn
  BY NoTurnType
<1>5. v.at = "idle" /\ v.reply = "none"
  BY <1>4, NoTurnType
<1>6. /\ turn' = [turn EXCEPT ![r] = v]
      /\ spoken' = spoken \cup {k.in} /\ recent' = k.in
      /\ latecome' = (latecome \/ k.in # Newest)
      /\ UNCHANGED <<asker, restarts, opened, turns, lost, twice>>
  BY <1>2, <1>4 DEF DateChat
<1>7. /\ turn' \in [Askers -> TurnRow] /\ turn'[r] = v
      /\ \A q \in Askers : q # r => turn'[q] = turn[q]
      /\ \A d \in Chats :
              Awaiting(d)' = IF v.in = d /\ v.at \in {"think", "answer"}
                             THEN Awaiting(d) \cup {r} ELSE Awaiting(d) \ {r}
  BY <1>1, <1>6, OneTurn
<1>8. \A d \in Chats : Awaiting(d)' = Awaiting(d)
  BY <1>2, <1>3, <1>5, <1>7 DEF Awaiting
<1>9. EveryAnswer'
  BY <1>6, <1>8, SameCounts
<1>10. AssistantTypes'
  BY <1>1, <1>3, <1>6, <1>7 DEF AssistantTypes
<1>11. InOrder'
  BY <1>6 DEF AssistantInv, InOrder
<1>12. NewestLeads'
  <2>1. Newest' = Newest
    BY <1>6 DEF Newest
  <2> QED BY <1>6, <2>1 DEF NewestLeads
<1>13. \A q \in Askers : TurnHolds(q)'
  BY <1>5, <1>6, <1>7 DEF AssistantInv, TurnHolds
<1>14. \A d \in Chats : turns'[d].drafts => asker' = "FARMER"
  BY <1>6 DEF AssistantInv
<1>15. ~twice' => OneFirst'
  BY <1>5, <1>6, <1>7 DEF AssistantInv, OneFirst
<1> QED BY <1>9, <1>10, <1>11, <1>12, <1>13, <1>14, <1>15 DEF AssistantInv

\* A request dies: its question is lost, if it had no answer yet
LEMMA ChatDiesStep ==
  ASSUME AssistantInv, NEW r \in Askers, ChatDies(r)
  PROVE  AssistantInv'
<1>1. AssistantTypes /\ TurnHolds(r)
  BY DEF AssistantInv
<1>2. PICK k \in TurnRow : k = turn[r]
  BY <1>1 DEF AssistantTypes
<1>3. k.at \in {"think", "answer", "date"} /\ k.in \in opened /\ k.in \in Chats
  BY <1>1, <1>2 DEF ChatDies, TurnHolds, AssistantTypes
<1>4. PICK v \in TurnRow : v = NoTurn
  BY NoTurnType
<1>5. v.at = "idle" /\ v.reply = "none"
  BY <1>4, NoTurnType
<1>6. /\ turn' = [turn EXCEPT ![r] = v]
      /\ lost' = IF k.at = "date" THEN lost ELSE [lost EXCEPT ![k.in] = @ + 1]
      /\ UNCHANGED <<asker, restarts, opened, spoken, recent, turns, latecome, twice>>
  BY <1>2, <1>4 DEF ChatDies
<1>7. /\ turn' \in [Askers -> TurnRow] /\ turn'[r] = v
      /\ \A q \in Askers : q # r => turn'[q] = turn[q]
      /\ \A d \in Chats :
              Awaiting(d)' = IF v.in = d /\ v.at \in {"think", "answer"}
                             THEN Awaiting(d) \cup {r} ELSE Awaiting(d) \ {r}
  BY <1>1, <1>6, OneTurn
<1>8. lost' \in [Chats -> Nat]
  BY <1>1, <1>3, <1>6 DEF AssistantTypes
<1>9. EveryAnswer'
  <2> SUFFICES ASSUME NEW d \in Chats
      PROVE  turns'[d].asked = turns'[d].answered + lost'[d] + Cardinality(Awaiting(d)')
    BY DEF EveryAnswer, Awaiting
  <2>1. turns[d].asked = turns[d].answered + lost[d] + Cardinality(Awaiting(d))
    BY DEF AssistantInv, EveryAnswer, Awaiting
  <2>2. Awaiting(d)' = Awaiting(d) \ {r}
    BY <1>5, <1>7
  <2>3. CASE d = k.in /\ k.at # "date"
    <3>1. r \in Awaiting(d)
      BY <1>2, <1>3, <2>3 DEF Awaiting
    <3>2. /\ Cardinality(Awaiting(d)') = Cardinality(Awaiting(d)) - 1
          /\ Cardinality(Awaiting(d)) \in Nat
      BY <2>2, <3>1, AwaitingCount
    <3>3. lost[d] \in Nat /\ turns[d].asked \in Nat /\ turns[d].answered \in Nat
      BY <1>1 DEF AssistantTypes, TurnsRow
    <3>4. lost'[d] = lost[d] + 1 /\ turns'[d] = turns[d]
      BY <1>1, <1>6, <2>3 DEF AssistantTypes
    <3> QED BY <2>1, <3>2, <3>3, <3>4
  <2>4. CASE ~(d = k.in /\ k.at # "date")
    <3>1. Awaiting(d)' = Awaiting(d)
      BY <1>2, <2>2, <2>4 DEF Awaiting
    <3>2. lost'[d] = lost[d] /\ turns' = turns
      BY <1>1, <1>3, <1>6, <2>4 DEF AssistantTypes
    <3> QED BY <2>1, <3>1, <3>2
  <2> QED BY <2>3, <2>4
<1>10. AssistantTypes'
  BY <1>1, <1>6, <1>7, <1>8 DEF AssistantTypes
<1>11. InOrder' /\ NewestLeads'
  BY <1>6 DEF AssistantInv, InOrder, NewestLeads, Newest, Silent
<1>13. \A q \in Askers : TurnHolds(q)'
  BY <1>5, <1>6, <1>7 DEF AssistantInv, TurnHolds
<1>14. \A d \in Chats : turns'[d].drafts => asker' = "FARMER"
  BY <1>6 DEF AssistantInv
<1>15. ~twice' => OneFirst'
  BY <1>5, <1>6, <1>7 DEF AssistantInv, OneFirst
<1> QED BY <1>9, <1>10, <1>11, <1>13, <1>14, <1>15 DEF AssistantInv

\* Another conversation is opened
LEMMA ResetSessionStep ==
  ASSUME AssistantInv, NEW c \in Chats, ResetSession(c)
  PROVE  AssistantInv'
<1>1. AssistantTypes
  BY DEF AssistantInv
<1>2. /\ UNCHANGED <<asker, spoken, recent, turns, turn, lost, twice>>
      /\ Opens(c) /\ opened' = opened \cup {c} /\ c \notin opened /\ latecome' = FALSE
      /\ restarts' = restarts \cup {c}
  BY DEF ResetSession, Opens
<1>3. InOrder' /\ NewestLeads' /\ opened' \in SUBSET Chats /\ opened \subseteq opened'
  BY <1>2, OpensStep
<1>4. EveryAnswer'
  <2>1. \A d \in Chats : Awaiting(d)' = Awaiting(d)
    BY <1>2 DEF Awaiting
  <2> QED BY <1>2, <2>1, SameCounts
<1>5. AssistantTypes'
  BY <1>1, <1>2, <1>3 DEF AssistantTypes
<1>6. \A q \in Askers : TurnHolds(q)'
  BY <1>2 DEF AssistantInv, TurnHolds
<1>7. \A d \in Chats : turns'[d].drafts => asker' = "FARMER"
  BY <1>2 DEF AssistantInv
<1>8. ~twice' => OneFirst'
  <2>1. opened' \ restarts' = opened \ restarts
    BY <1>2
  <2> QED BY <1>2, <2>1 DEF AssistantInv, OneFirst
<1> QED BY <1>3, <1>4, <1>5, <1>6, <1>7, <1>8 DEF AssistantInv

\* Each step preserves the invariant
LEMMA AssistantNextInv == AssistantInv /\ [AssistantNext]_assistantVars => AssistantInv'
<1> SUFFICES ASSUME AssistantInv, [AssistantNext]_assistantVars PROVE AssistantInv'
  OBVIOUS
<1>1. ASSUME NEW c \in Chats, ResetSession(c) PROVE AssistantInv'
  BY <1>1, ResetSessionStep
<1>2. ASSUME NEW r \in Askers, FindNoChat(r) PROVE AssistantInv'
  BY <1>2, FindNoChatStep
<1>3. ASSUME NEW r \in Askers, StoreQuestion(r) PROVE AssistantInv'
  BY <1>3, StoreQuestionStep
<1>4. ASSUME NEW r \in Askers, StoreAnswer(r) PROVE AssistantInv'
  BY <1>4, StoreAnswerStep
<1>5. ASSUME NEW r \in Askers, DateChat(r) PROVE AssistantInv'
  BY <1>5, DateChatStep
<1>6. ASSUME NEW r \in Askers, ChatDies(r) PROVE AssistantInv'
  BY <1>6, ChatDiesStep
<1>7. ASSUME NEW r \in Askers, NEW c \in Chats, NameChat(r, c) PROVE AssistantInv'
  BY <1>7, AsksStep DEF NameChat
<1>8. ASSUME NEW r \in Askers, NEW c \in Chats, ResumeChat(r, c) PROVE AssistantInv'
  <2>1. c \in opened
    BY <1>8 DEF ResumeChat, Active, Silent, AssistantInv, AssistantTypes
  <2> QED BY <1>8, <2>1, AsksStep DEF ResumeChat
<1>9. ASSUME NEW r \in Askers, NEW c \in Chats, CreateChat(r, c) PROVE AssistantInv'
  BY <1>9, CreateChatStep
<1>10. ASSUME NEW r \in Askers, NEW outcome \in {"plain", "tool", "sorry"},
              Think(r, asker, outcome)
       PROVE  AssistantInv'
  BY <1>10, ThinkStep
<1>11. CASE UNCHANGED assistantVars
  <2>1. \A c \in Chats : Awaiting(c)' = Awaiting(c)
    BY <1>11 DEF assistantVars, Awaiting
  <2>2. EveryAnswer'
    BY <1>11, <2>1, SameCounts DEF assistantVars
  <2> QED BY <1>11, <2>2 DEF assistantVars, AssistantInv, AssistantTypes, InOrder, TurnHolds,
                         NewestLeads, Newest, Silent, OneFirst
<1> QED BY <1>1, <1>2, <1>3, <1>4, <1>5, <1>6, <1>7, <1>8, <1>9, <1>10, <1>11, Zenon
        DEF AssistantNext

\* However requests overlap, die and restart, questions are those answered, lost or waiting, and
\* the newest conversation had no answer or the last one (AiAssistantService)
THEOREM AssistantInvariance == AssistantSpec => []AssistantInv
  BY AssistantInitInv, AssistantNextInv, PTL DEF AssistantSpec

\* ... and it is enough
LEMMA AssistantInvImplies == AssistantInv => AssistantSafety
<1> SUFFICES ASSUME AssistantInv PROVE AssistantSafety
  OBVIOUS
<1>1. AssistantTypeOK
  BY DEF AssistantInv, AssistantTypes, AssistantTypeOK, TurnRow, Turning
<1>2. EveryAnswer
  BY DEF AssistantInv
<1>3. ActiveIsNewest
  BY DEF AssistantInv, AssistantTypes, NewestLeads, ActiveIsNewest, Active, Silent
<1>4. OneBeginning
  <2> SUFFICES ASSUME ~twice PROVE Cardinality(opened \ restarts) <= 1
    BY DEF OneBeginning
  <2>1. CASE opened \ restarts = {}
    BY <2>1, FS_EmptySet
  <2>2. CASE opened \ restarts # {}
    <3>1. PICK c \in opened \ restarts : TRUE
      BY <2>2
    <3>2. opened \ restarts = {c}
      BY <3>1 DEF AssistantInv, OneFirst
    <3>3. Cardinality({c}) = 1
      BY FS_Singleton
    <3> QED BY <3>2, <3>3
  <2> QED BY <2>1, <2>2
<1> QED BY <1>1, <1>2, <1>3, <1>4 DEF AssistantSafety

\* For any number of conversations and requests: every question has its answer in its
\* conversation unless the server stopped, the newest conversation is the one resumed, first
\* questions share one unless they crossed, and a draft is a farmer's (chat, resetSession)
THEOREM AssistantIsSafe == AssistantSpec => []AssistantSafety
  BY AssistantInvariance, AssistantInvImplies, PTL

-----------------------------------------------------------------------------
(***************************************************************************)
(* Together, as the runs check them                                        *)
(***************************************************************************)

\* Conversations: two people have one, a message is dated and heard by who is connected
\* (MessagingService, MessagingGateway), for any number of people, sockets and requests
THEOREM TalkIsSafe == MessagingSpec /\ GatewaySpec => []TalkSafety
<1>1. MessagingSpec => []MessagingSafety
  BY MessagingInvariance, MessagingInvImplies, PTL
<1>2. GatewaySpec => []GatewaySafety
  BY GatewayInvariance, GatewayInvImplies, PTL
<1>3. MessagingSafety /\ GatewaySafety => TalkSafety
  BY DEF TalkSafety
<1> QED BY <1>1, <1>2, <1>3, PTL

\* How users are reached: by notifications that are stored and devices that are theirs, by
\* reminders that come once, by numbers shown to those with a tie (NotificationsService,
\* PrevisionsReminderCron, MaskingService)
THEOREM ReachIsSafe == NoticesSpec /\ ReminderSpec /\ ContactsSpec => []ReachSafety
<1>1. NoticesSpec => []NoticesSafety
  BY NoticesInvariance, NoticesInvImplies, PTL
<1>2. ReminderSpec => []ReminderSafety
  BY ReminderInvariance, ReminderInvImplies, PTL
<1>3. ContactsSpec => []ContactsSafety
  BY ContactsInvariance, ContactsInvImplies, PTL
<1>4. NoticesSafety /\ ReminderSafety /\ ContactsSafety => ReachSafety
  BY DEF ReachSafety
<1> QED BY <1>1, <1>2, <1>3, <1>4, PTL

\* What is carried and how it was done: collections by vehicles that exist, ratings that are
\* the sum of the reviews (CoopVehiclesService, CoopCollectionsService,
\* LogisticsService)
THEOREM CarriedIsSafe == CollectionsSpec /\ RatingsSpec => []CarriedSafety
<1>1. CollectionsSpec => []CollectionsSafety
  BY CollectionsInvariance, CollectionsInvImplies, PTL
<1>2. RatingsSpec => []RatingsSafety
  BY RatingsInvariance, RatingsInvImplies, PTL
<1>3. CollectionsSafety /\ RatingsSafety => CarriedSafety
  BY DEF CarriedSafety
<1> QED BY <1>1, <1>2, <1>3, PTL

=============================================================================
