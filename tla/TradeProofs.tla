---------------------------- MODULE TradeProofs -----------------------------
(***************************************************************************)
(* What is proved of how goods come to be offered and sold, for any number *)
(* of parties and of requests that overlap: the members of cooperatives,   *)
(* the negotiation of a price, the calls for a harvest, and the sales of a *)
(* cooperative with the shares of its members. They share no state: each   *)
(* has an invariant of its own.                                            *)
(***************************************************************************)
EXTENDS MCTrade, SumLemmas

-----------------------------------------------------------------------------

\* One active row at most
OneActive ==
  \A f \in Farmers : \A c, d \in Coops :
    member[c][f] = "ACTIVE" /\ member[d][f] = "ACTIVE" => c = d

\* A farmer a cooperative has still to create has no row, and no request is about him
Unborn ==
  \A f \in Farmers : managed[f] = {"unborn"} =>
    /\ \A c \in Coops : member[c][f] = "NONE"
    /\ \A h \in Hands : f \notin hand[h].of

\* A farmer without a telephone is asked nothing: he can only be removed
Unheard ==
  \A f \in Farmers : managed[f] # {} =>
    \A h \in Hands : f \in hand[h].of => hand[h].do = "remove"

\* A request is about one farmer and one cooperative, and so is a letter
Single(row) == (\E f \in Farmers : row.of = {f}) /\ (\E c \in Coops : row.to = {c})

\* An answer is about the farmer and the cooperative of its letter
AnswerTo(c) ==
  c.do \in {"accept", "reject"} => \E l \in Letters :
    /\ c.letter = {l} /\ letter[l].kind # "NONE"
    /\ letter[l].of = c.of /\ letter[l].to = c.to

Matched ==
  /\ \A l \in Letters : letter[l].kind # "NONE" => Single(letter[l])
  /\ \A l \in Letters : letter[l].kind = "NONE" => letter[l].status = "NONE"
  /\ \A h \in Hands : hand[h].do # "idle" => Single(hand[h])
  /\ \A h \in Hands : AnswerTo(hand[h])

MemberInv == MemberTypeOK /\ OneActive /\ Unborn /\ Unheard /\ Matched /\ AcceptedIsMember

\* The shapes of a request and of a letter
HandRow == [do : {"idle", "join", "invite", "accept", "reject", "remove"},
            of : SUBSET Farmers, to : SUBSET Coops, letter : SUBSET Letters,
            saw : SUBSET (Coops \X {"NONE", "ACTIVE", "INACTIVE"})]
LetterRow == [kind : {"NONE", "join", "invite"}, of : SUBSET Farmers,
              to : SUBSET Coops, status : {"NONE", "PENDING", "ACCEPTED", "REJECTED"}]

\* A request that may be made: of a farmer who was born, and is asked nothing when managed
MayBeMade(c) ==
  /\ c \in HandRow
  /\ c.do # "idle" => Single(c)
  /\ AnswerTo(c)
  /\ \A f \in c.of : managed[f] # {"unborn"} /\ (managed[f] # {} => c.do = "remove")

-----------------------------------------------------------------------------
(* Lemmas about the operators                                              *)

\* A hand at rest holds a request that may be made
LEMMA HandRestType == MayBeMade(NoHand) /\ NoHand.do = "idle" /\ NoHand.of = {}
  BY DEF MayBeMade, NoHand, HandRow, AnswerTo

\* What a request reads of a farmer
LEMMA ViewType ==
  ASSUME MemberTypeOK, NEW f \in Farmers
  PROVE  View(f) \in SUBSET (Coops \X {"NONE", "ACTIVE", "INACTIVE"})
  BY DEF MemberTypeOK, View

\* The farmer, the cooperative and the letter of a request are those it names
LEMMA NamedRows ==
  ASSUME MemberInv, NEW h \in Hands, hand[h].do # "idle"
  PROVE  /\ Who(h) \in Farmers /\ hand[h].of = {Who(h)}
         /\ Which(h) \in Coops /\ hand[h].to = {Which(h)}
         /\ hand[h].do \in {"accept", "reject"} =>
              /\ Its(h) \in Letters /\ letter[Its(h)].kind # "NONE"
              /\ letter[Its(h)].of = {Who(h)} /\ letter[Its(h)].to = {Which(h)}
<1>1. \E f \in Farmers : hand[h].of = {f}
  BY DEF MemberInv, Matched, Single
<1>2. \E c \in Coops : hand[h].to = {c}
  BY DEF MemberInv, Matched, Single
<1>3. Who(h) \in Farmers /\ hand[h].of = {Who(h)}
  BY <1>1 DEF Who
<1>4. Which(h) \in Coops /\ hand[h].to = {Which(h)}
  BY <1>2 DEF Which
<1>5. ASSUME hand[h].do \in {"accept", "reject"}
      PROVE  /\ Its(h) \in Letters /\ letter[Its(h)].kind # "NONE"
             /\ letter[Its(h)].of = hand[h].of /\ letter[Its(h)].to = hand[h].to
  <2>1. PICK l \in Letters :
          /\ hand[h].letter = {l} /\ letter[l].kind # "NONE"
          /\ letter[l].of = hand[h].of /\ letter[l].to = hand[h].to
    BY <1>5 DEF MemberInv, Matched, AnswerTo
  <2>2. Its(h) = l
    BY <2>1 DEF Its
  <2> QED BY <2>1, <2>2
<1> QED BY <1>3, <1>4, <1>5

-----------------------------------------------------------------------------
(* The steps                                                               *)

\* A request is made or dropped, and nothing else changes
LEMMA HandStep ==
  ASSUME MemberInv, NEW h \in Hands, NEW c, MayBeMade(c), hand' = [hand EXCEPT ![h] = c],
         UNCHANGED <<member, coopOf, letter, managed, refused, jostled>>
  PROVE  MemberInv'
<1>1. /\ hand'[h] = c /\ \A g \in Hands \ {h} : hand'[g] = hand[g]
      /\ hand' \in [Hands -> HandRow]
  BY DEF MemberInv, MemberTypeOK, HandRow, MayBeMade
<1>2. MemberTypeOK'
  BY <1>1 DEF MemberInv, MemberTypeOK, HandRow
<1>3. OneActive' /\ AcceptedIsMember'
  BY DEF MemberInv, OneActive, AcceptedIsMember
<1>4. Unborn' /\ Unheard'
  BY <1>1 DEF MemberInv, Unborn, Unheard, MayBeMade
<1>5. Matched'
  BY <1>1 DEF MemberInv, Matched, MayBeMade, Single, AnswerTo
<1> QED BY <1>2, <1>3, <1>4, <1>5 DEF MemberInv

\* A farmer asks or is invited, an answer is begun, or a removal
LEMMA MemberBeginStep ==
  ASSUME MemberInv, NEW h \in Hands,
         \/ \E f \in Farmers, c \in Coops : CheckRemove(h, c, f)
         \/ \E f \in Farmers, c \in Coops :
              Autonomous(f) /\ (CreateJoinRequest(h, f, c) \/ CreateInvitation(h, f, c))
         \/ \E l \in Letters, yes \in BOOLEAN :
              HandleJoinRequest(h, l, yes) \/ HandleInvitation(h, l, yes)
  PROVE  MemberInv'
<1>1. ASSUME NEW f \in Farmers, NEW c \in Coops, CheckRemove(h, c, f) PROVE MemberInv'
  <2> DEFINE new == [do |-> "remove", of |-> {f}, to |-> {c}, letter |-> {}, saw |-> View(f)]
  <2>1. managed[f] # {"unborn"}
    BY <1>1 DEF CheckRemove, MemberInv, Unborn
  <2>2. MayBeMade(new)
    BY <2>1, ViewType DEF MayBeMade, HandRow, Single, AnswerTo, MemberInv
  <2> QED BY <1>1, <2>2, HandStep DEF CheckRemove
<1>2. ASSUME NEW f \in Farmers, NEW c \in Coops, Autonomous(f),
             CreateJoinRequest(h, f, c) \/ CreateInvitation(h, f, c)
      PROVE  MemberInv'
  <2>1. PICK how \in {"join", "invite"} : Asks(h, how, f, c)
    BY <1>2 DEF CreateJoinRequest, CreateInvitation
  <2> DEFINE new == [do |-> how, of |-> {f}, to |-> {c}, letter |-> {}, saw |-> View(f)]
  <2>2. MayBeMade(new)
    BY <1>2, ViewType DEF MayBeMade, HandRow, Single, AnswerTo, MemberInv, Autonomous
  <2> QED BY <2>1, <2>2, HandStep DEF Asks
<1>3. ASSUME NEW l \in Letters, NEW yes \in BOOLEAN,
             HandleJoinRequest(h, l, yes) \/ HandleInvitation(h, l, yes)
      PROVE  MemberInv'
  <2>1. PICK how \in {"join", "invite"} : TakeUp(h, l, how, yes)
    BY <1>3 DEF HandleJoinRequest, HandleInvitation
  <2>2. letter[l].kind = how /\ Single(letter[l])
    BY <2>1 DEF TakeUp, MemberInv, Matched
  <2>3. PICK f \in Farmers : letter[l].of = {f}
    BY <2>2 DEF Single
  <2> DEFINE new == [do |-> IF yes THEN "accept" ELSE "reject", of |-> {f},
                     to |-> letter[l].to, letter |-> {l}, saw |-> View(f)]
  <2>4. managed[f] = {}
    BY <2>3 DEF MemberInv, MemberTypeOK
  <2>5. MayBeMade(new)
    <3>1. new \in HandRow
      BY ViewType DEF HandRow, MemberInv, MemberTypeOK
    <3>2. Single(new) /\ AnswerTo(new)
      BY <2>2, <2>3 DEF Single, AnswerTo
    <3> QED BY <2>4, <3>1, <3>2 DEF MayBeMade
  <2>6. hand' = [hand EXCEPT ![h] = new]
    BY <2>1, <2>3 DEF TakeUp
  <2> QED BY <2>1, <2>5, <2>6, HandStep DEF TakeUp
<1> QED BY <1>1, <1>2, <1>3

\* A request ends with its letter changed at most in its status, or written if it was blank,
\* and with members who gained or lost a row
LEMMA EndStep ==
  ASSUME MemberInv, NEW h \in Hands, hand' = [hand EXCEPT ![h] = NoHand], UNCHANGED managed,
         member' \in [Coops -> [Farmers -> {"NONE", "ACTIVE", "INACTIVE"}]],
         coopOf' \in [Farmers -> SUBSET Coops],
         letter' \in [Letters -> LetterRow],
         refused' \in SUBSET Farmers, jostled' \in SUBSET Farmers,
         OneActive', AcceptedIsMember',
         \A f \in Farmers, c \in Coops :
           member'[c][f] # member[c][f] => f \in hand[h].of,
         \A l \in Letters : letter[l].kind # "NONE" =>
           /\ letter'[l].kind = letter[l].kind
           /\ letter'[l].of = letter[l].of /\ letter'[l].to = letter[l].to,
         \A l \in Letters : letter[l].kind = "NONE" =>
           \/ letter'[l] = letter[l]
           \/ /\ Single(letter'[l]) /\ letter'[l].kind # "NONE"
              /\ letter'[l].of = hand[h].of /\ hand[h].do # "remove"
  PROVE  MemberInv'
<1>1. /\ hand'[h] = NoHand /\ \A g \in Hands \ {h} : hand'[g] = hand[g]
      /\ hand' \in [Hands -> HandRow]
  BY HandRestType DEF MemberInv, MemberTypeOK, HandRow, MayBeMade
<1>2. ASSUME NEW l \in Letters
      PROVE  /\ letter[l].kind # "NONE" =>
                  /\ letter'[l].kind = letter[l].kind
                  /\ letter'[l].of = letter[l].of /\ letter'[l].to = letter[l].to
             /\ letter[l].kind = "NONE" =>
                  \/ letter'[l] = letter[l]
                  \/ /\ Single(letter'[l]) /\ letter'[l].kind # "NONE"
                     /\ letter'[l].of = hand[h].of /\ hand[h].do # "remove"
             /\ letter[l].kind # "NONE" => letter'[l].kind # "NONE"
  BY DEF MemberInv, MemberTypeOK
<1>3. MemberTypeOK'
  <2>1. ASSUME NEW f \in Farmers, managed[f] # {}, NEW l \in Letters PROVE f \notin letter'[l].of
    <3>1. f \notin letter[l].of
      BY <2>1 DEF MemberInv, MemberTypeOK
    <3>2. f \in hand[h].of => hand[h].do = "remove"
      BY <2>1 DEF MemberInv, Unheard
    <3> QED BY <1>2, <3>1, <3>2
  <2> QED BY <1>1, <2>1 DEF MemberInv, MemberTypeOK, HandRow, LetterRow
<1>4. Unborn' /\ Unheard'
  BY <1>1, HandRestType DEF MemberInv, Unborn, Unheard
<1>5. Matched'
  <2>1. ASSUME NEW l \in Letters, letter'[l].kind # "NONE" PROVE Single(letter'[l])
    <3>1. CASE letter[l].kind = "NONE"
      BY <1>2, <2>1, <3>1
    <3>2. CASE letter[l].kind # "NONE"
      <4>1. Single(letter[l])
        BY <3>2 DEF MemberInv, Matched
      <4> QED BY <1>2, <3>2, <4>1 DEF Single
    <3> QED BY <3>1, <3>2
  <2>2. ASSUME NEW l \in Letters, letter'[l].kind = "NONE" PROVE letter'[l].status = "NONE"
    BY <1>2, <2>2 DEF MemberInv, Matched
  <2>3. ASSUME NEW g \in Hands, hand'[g].do # "idle" PROVE Single(hand'[g])
    BY <1>1, <2>3, HandRestType DEF MemberInv, Matched
  <2>4. ASSUME NEW g \in Hands, hand'[g].do \in {"accept", "reject"}
        PROVE  \E l \in Letters :
                 /\ hand'[g].letter = {l} /\ letter'[l].kind # "NONE"
                 /\ letter'[l].of = hand'[g].of /\ letter'[l].to = hand'[g].to
    <3>1. hand'[g] = hand[g]
      BY <1>1, <2>4, HandRestType
    <3>2. PICK l \in Letters :
            /\ hand[g].letter = {l} /\ letter[l].kind # "NONE"
            /\ letter[l].of = hand[g].of /\ letter[l].to = hand[g].to
      BY <2>4, <3>1 DEF MemberInv, Matched, AnswerTo
    <3> QED BY <1>2, <3>1, <3>2
  <2> QED BY <2>1, <2>2, <2>3, <2>4 DEF Matched, AnswerTo
<1> QED BY <1>3, <1>4, <1>5 DEF MemberInv

\* A row that changes its status keeps what it is
LEMMA Restated ==
  ASSUME MemberInv, NEW k \in Letters, NEW s \in {"ACCEPTED", "REJECTED"},
         letter[k].kind # "NONE", letter' = [letter EXCEPT ![k].status = s]
  PROVE  /\ letter' \in [Letters -> LetterRow]
         /\ \A l \in Letters :
              /\ letter'[l].kind = letter[l].kind
              /\ letter'[l].of = letter[l].of /\ letter'[l].to = letter[l].to
         /\ \A l \in Letters : letter[l].kind = "NONE" => letter'[l] = letter[l]
         /\ letter'[k].status = s
         /\ \A l \in Letters \ {k} : letter'[l] = letter[l]
<1>1. letter \in [Letters -> LetterRow]
  BY DEF MemberInv, MemberTypeOK, LetterRow
<1>2. [letter[k] EXCEPT !.status = s] \in LetterRow
  BY <1>1 DEF LetterRow
<1>3. letter' = [letter EXCEPT ![k] = [letter[k] EXCEPT !.status = s]]
  OBVIOUS
<1> QED BY <1>1, <1>2, <1>3 DEF LetterRow

\* The farmers who were refused or jostled stay farmers
LEMMA JostleType ==
  ASSUME MemberInv, NEW h \in Hands, Who(h) \in Farmers, Jostle(h)
  PROVE  jostled' \in SUBSET Farmers
  BY DEF MemberInv, MemberTypeOK, Jostle

\* A request or an invitation is written
LEMMA WriteStep ==
  ASSUME MemberInv, NEW h \in Hands, NEW l \in Letters, WriteLetter(h, l)
  PROVE  MemberInv'
<1> DEFINE new == [kind |-> hand[h].do, of |-> hand[h].of, to |-> hand[h].to,
                   status |-> "PENDING"]
<1>1. /\ hand[h].do \in {"join", "invite"} /\ letter[l] = NoLetter
      /\ letter' = letter \/ letter' = [letter EXCEPT ![l] = new]
      /\ hand' = [hand EXCEPT ![h] = NoHand]
      /\ UNCHANGED <<member, coopOf, managed, refused, jostled>>
  BY DEF WriteLetter, LetGo
<1>2. letter \in [Letters -> LetterRow] /\ hand[h] \in HandRow
  BY DEF MemberInv, MemberTypeOK, LetterRow, HandRow
<1>3. new \in LetterRow /\ Single(new) /\ new.status = "PENDING"
  BY <1>1, <1>2 DEF LetterRow, HandRow, MemberInv, Matched, Single
<1>4. letter' \in [Letters -> LetterRow]
  BY <1>1, <1>2, <1>3
<1>5. letter[l].kind = "NONE" /\ letter[l].status = "NONE"
  BY <1>1 DEF NoLetter
<1>6. \A k \in Letters : letter'[k] = letter[k] \/ (k = l /\ letter'[k] = new)
  BY <1>1, <1>2
<1>7. AcceptedIsMember' /\ OneActive'
  BY <1>1, <1>3, <1>6 DEF MemberInv, OneActive, AcceptedIsMember
<1>8. \A k \in Letters : letter[k].kind = "NONE" =>
        \/ letter'[k] = letter[k]
        \/ /\ Single(letter'[k]) /\ letter'[k].kind # "NONE"
           /\ letter'[k].of = hand[h].of /\ hand[h].do # "remove"
  <2>1. new.kind # "NONE" /\ new.of = hand[h].of /\ hand[h].do # "remove"
    BY <1>1
  <2> HIDE DEF new
  <2> QED BY <1>3, <1>6, <2>1
<1> QED
  BY <1>1, <1>4, <1>5, <1>6, <1>7, <1>8, EndStep DEF MemberInv, MemberTypeOK

\* Rows of one farmer in one cooperative change, of a farmer the request is about
LEMMA MemberRow ==
  ASSUME MemberInv, NEW c \in Coops, NEW f \in Farmers, NEW s \in {"NONE", "ACTIVE", "INACTIVE"},
         member' = [member EXCEPT ![c][f] = s]
  PROVE  /\ member' \in [Coops -> [Farmers -> {"NONE", "ACTIVE", "INACTIVE"}]]
         /\ member'[c][f] = s
         /\ \A d \in Coops, g \in Farmers : d # c \/ g # f => member'[d][g] = member[d][g]
  BY DEF MemberInv, MemberTypeOK

\* An answer is accepted: the indexes refuse a second active row
LEMMA AcceptStep ==
  ASSUME MemberInv, NEW h \in Hands, Accept(h)
  PROVE  MemberInv'
<1> DEFINE f == Who(h)
           c == Which(h)
           k == Its(h)
<1>1. /\ f \in Farmers /\ hand[h].of = {f} /\ c \in Coops /\ hand[h].to = {c}
      /\ k \in Letters /\ letter[k].kind # "NONE"
      /\ letter[k].of = {f} /\ letter[k].to = {c}
  BY NamedRows DEF Accept
<1>2. hand' = [hand EXCEPT ![h] = NoHand] /\ managed' = managed
  BY DEF Accept, LetGo
<1>3. CASE ~(Insertable(c, f) /\ OneInStatus(k, "ACCEPTED"))
  <2>1. /\ refused' = IF ActiveIn(f) = {} THEN refused \cup {f} ELSE refused
        /\ UNCHANGED <<letter, member, coopOf, jostled>>
    BY <1>3 DEF Accept
  <2>2. OneActive' /\ AcceptedIsMember'
    BY <2>1 DEF MemberInv, OneActive, AcceptedIsMember
  <2>3. refused' \in SUBSET Farmers
    BY <1>1, <2>1 DEF MemberInv, MemberTypeOK
  <2> HIDE DEF f, c, k
  <2> QED BY <1>2, <2>1, <2>2, <2>3, EndStep DEF MemberInv, MemberTypeOK, LetterRow
<1>4. CASE Insertable(c, f) /\ OneInStatus(k, "ACCEPTED")
  <2>1. /\ letter' = [letter EXCEPT ![k].status = "ACCEPTED"]
        /\ member' = [member EXCEPT ![c][f] = "ACTIVE"]
        /\ coopOf' = [coopOf EXCEPT ![f] = {c}]
        /\ Jostle(h) /\ refused' = refused
    BY <1>4 DEF Accept
  <2>2. \A d \in Coops : member[d][f] # "ACTIVE"
    BY <1>4 DEF Insertable, ActiveIn
  <2>3. jostled' \in SUBSET Farmers
    BY <1>1, <2>1, JostleType
  <2> HIDE DEF f, c, k
  <2>4. /\ member' \in [Coops -> [Farmers -> {"NONE", "ACTIVE", "INACTIVE"}]]
        /\ member'[c][f] = "ACTIVE"
        /\ \A d \in Coops, g \in Farmers : d # c \/ g # f => member'[d][g] = member[d][g]
    BY <1>1, <2>1, MemberRow
  <2>5. /\ letter' \in [Letters -> LetterRow]
        /\ \A l \in Letters :
             /\ letter'[l].kind = letter[l].kind
             /\ letter'[l].of = letter[l].of /\ letter'[l].to = letter[l].to
        /\ \A l \in Letters : letter[l].kind = "NONE" => letter'[l] = letter[l]
        /\ \A l \in Letters \ {k} : letter'[l] = letter[l]
    BY <1>1, <2>1, Restated
  <2>6. OneActive'
    BY <1>1, <2>2, <2>4 DEF MemberInv, OneActive
  <2>7. AcceptedIsMember'
    <3>1. ASSUME NEW l \in Letters, letter'[l].status = "ACCEPTED",
                 NEW g \in letter'[l].of, NEW d \in letter'[l].to
          PROVE  member'[d][g] # "NONE"
      <4>1. g \in Farmers /\ d \in Coops
        BY <2>5 DEF LetterRow
      <4>2. CASE l = k
        BY <1>1, <2>4, <2>5, <4>2
      <4>3. CASE l # k
        BY <2>4, <2>5, <4>1, <4>3, <3>1 DEF MemberInv, AcceptedIsMember
      <4> QED BY <4>2, <4>3
    <3> QED BY <3>1 DEF AcceptedIsMember
  <2>8. coopOf' \in [Farmers -> SUBSET Coops]
    BY <1>1, <2>1 DEF MemberInv, MemberTypeOK
  <2>9. \A g \in Farmers, d \in Coops : member'[d][g] # member[d][g] => g \in hand[h].of
    BY <1>1, <2>4
  <2> QED
    BY <1>2, <2>1, <2>3, <2>4, <2>5, <2>6, <2>7, <2>8, <2>9, EndStep DEF MemberInv, MemberTypeOK
<1> QED BY <1>3, <1>4

\* A request is turned down, or its refusal is an error
LEMMA RejectStep ==
  ASSUME MemberInv, NEW h \in Hands, Reject(h)
  PROVE  MemberInv'
<1> DEFINE k == Its(h)
<1>1. /\ Who(h) \in Farmers /\ k \in Letters /\ letter[k].kind # "NONE"
  BY NamedRows DEF Reject
<1>2. /\ hand' = [hand EXCEPT ![h] = NoHand]
      /\ UNCHANGED <<member, coopOf, managed, refused>>
      /\ \/ letter' = [letter EXCEPT ![k].status = "REJECTED"] /\ Jostle(h)
         \/ UNCHANGED <<letter, jostled>>
  BY DEF Reject, LetGo
<1>3. jostled' \in SUBSET Farmers
  BY <1>1, <1>2, JostleType DEF MemberInv, MemberTypeOK
<1> HIDE DEF k
<1>4. /\ letter' \in [Letters -> LetterRow]
      /\ \A l \in Letters :
           /\ letter'[l].kind = letter[l].kind
           /\ letter'[l].of = letter[l].of /\ letter'[l].to = letter[l].to
      /\ \A l \in Letters : letter[l].kind = "NONE" => letter'[l] = letter[l]
      /\ \A l \in Letters : letter'[l].status = "ACCEPTED" => letter[l].status = "ACCEPTED"
  <2>1. CASE letter' = [letter EXCEPT ![k].status = "REJECTED"]
    BY <1>1, <2>1, Restated
  <2>2. CASE UNCHANGED letter
    BY <2>2 DEF MemberInv, MemberTypeOK, LetterRow
  <2> QED BY <1>2, <2>1, <2>2
<1>5. OneActive' /\ AcceptedIsMember'
  BY <1>2, <1>4 DEF MemberInv, OneActive, AcceptedIsMember
<1> QED BY <1>2, <1>3, <1>4, <1>5, EndStep DEF MemberInv, MemberTypeOK

\* A member is removed: the row stays, no longer active
LEMMA RemoveStep ==
  ASSUME MemberInv, NEW h \in Hands, RemoveMember(h)
  PROVE  MemberInv'
<1> DEFINE f == Who(h)
           c == Which(h)
<1>1. f \in Farmers /\ hand[h].of = {f} /\ c \in Coops
  BY NamedRows DEF RemoveMember
<1>2. /\ hand' = [hand EXCEPT ![h] = NoHand]
      /\ member' = [member EXCEPT ![c][f] = "INACTIVE"]
      /\ coopOf' = [coopOf EXCEPT ![f] = NoCoop]
      /\ Jostle(h)
      /\ UNCHANGED <<letter, managed, refused>>
  BY DEF RemoveMember, LetGo
<1>3. jostled' \in SUBSET Farmers
  BY <1>1, <1>2, JostleType
<1> HIDE DEF f, c
<1>4. /\ member' \in [Coops -> [Farmers -> {"NONE", "ACTIVE", "INACTIVE"}]]
      /\ member'[c][f] = "INACTIVE"
      /\ \A d \in Coops, g \in Farmers : d # c \/ g # f => member'[d][g] = member[d][g]
  BY <1>1, <1>2 DEF MemberInv, MemberTypeOK
<1>5. OneActive'
  BY <1>1, <1>4 DEF MemberInv, OneActive
<1>6. AcceptedIsMember'
  <2>1. ASSUME NEW l \in Letters, letter[l].status = "ACCEPTED",
               NEW g \in letter[l].of, NEW d \in letter[l].to
        PROVE  member'[d][g] # "NONE"
    <3>1. g \in Farmers /\ d \in Coops /\ member[d][g] # "NONE"
      BY <2>1 DEF MemberInv, MemberTypeOK, AcceptedIsMember
    <3> QED BY <1>4, <3>1
  <2> QED BY <1>2, <2>1 DEF AcceptedIsMember
<1>7. coopOf' \in [Farmers -> SUBSET Coops]
  BY <1>1, <1>2 DEF MemberInv, MemberTypeOK, NoCoop
<1>8. \A g \in Farmers, d \in Coops : member'[d][g] # member[d][g] => g \in hand[h].of
  BY <1>1, <1>4
<1> QED
  BY <1>2, <1>3, <1>4, <1>5, <1>6, <1>7, <1>8, EndStep DEF MemberInv, MemberTypeOK, LetterRow

\* A cooperative creates a farmer nobody had heard of
LEMMA MemberCreateStep ==
  ASSUME MemberInv, NEW c \in Coops, NEW f \in Farmers, CreateManagedMember(c, f)
  PROVE  MemberInv'
<1>1. /\ managed[f] = {"unborn"}
      /\ managed' = [managed EXCEPT ![f] = {c}]
      /\ member' = [member EXCEPT ![c][f] = "ACTIVE"]
      /\ coopOf' = [coopOf EXCEPT ![f] = {c}]
      /\ UNCHANGED <<letter, hand, refused, jostled>>
  BY DEF CreateManagedMember
<1>2. /\ \A d \in Coops : member[d][f] = "NONE"
      /\ \A h \in Hands : f \notin hand[h].of
  BY <1>1 DEF MemberInv, Unborn
<1>3. /\ member' \in [Coops -> [Farmers -> {"NONE", "ACTIVE", "INACTIVE"}]]
      /\ member'[c][f] = "ACTIVE"
      /\ \A d \in Coops, g \in Farmers : d # c \/ g # f => member'[d][g] = member[d][g]
  BY <1>1, MemberRow
<1>4. /\ managed' \in [Farmers -> SUBSET (Coops \cup {"unborn"})]
      /\ managed'[f] = {c} /\ \A g \in Farmers \ {f} : managed'[g] = managed[g]
  BY <1>1 DEF MemberInv, MemberTypeOK
<1>5. MemberTypeOK'
  <2>1. coopOf' \in [Farmers -> SUBSET Coops]
    BY <1>1 DEF MemberInv, MemberTypeOK
  <2>2. \A g \in Farmers : managed'[g] # {} => \A l \in Letters : g \notin letter[l].of
    BY <1>1, <1>4 DEF MemberInv, MemberTypeOK
  <2> QED BY <1>1, <1>3, <1>4, <2>1, <2>2 DEF MemberInv, MemberTypeOK
<1>6. OneActive'
  BY <1>2, <1>3 DEF MemberInv, OneActive
<1>7. Unborn'
  <2>1. {c} # {"unborn"}
    BY MemberAssumption
  <2> QED BY <1>1, <1>3, <1>4, <2>1 DEF MemberInv, Unborn
<1>8. Unheard'
  BY <1>1, <1>2, <1>4 DEF MemberInv, Unheard
<1>9. Matched'
  BY <1>1 DEF MemberInv, Matched, AnswerTo, Single
<1>10. AcceptedIsMember'
  <2>1. ASSUME NEW l \in Letters, letter[l].status = "ACCEPTED",
               NEW g \in letter[l].of, NEW d \in letter[l].to
        PROVE  member'[d][g] # "NONE"
    <3>1. g \in Farmers /\ d \in Coops /\ member[d][g] # "NONE"
      BY <2>1 DEF MemberInv, MemberTypeOK, AcceptedIsMember
    <3> QED BY <1>3, <3>1
  <2> QED BY <1>1, <2>1 DEF AcceptedIsMember
<1> QED BY <1>5, <1>6, <1>7, <1>8, <1>9, <1>10 DEF MemberInv

\* A managed farmer becomes his own master
LEMMA PromoteStep ==
  ASSUME MemberInv, NEW f \in Farmers, PromoteManagedMember(f)
  PROVE  MemberInv'
<1>1. /\ managed[f] # {"unborn"} /\ managed' = [managed EXCEPT ![f] = {}]
      /\ UNCHANGED <<member, coopOf, letter, hand, refused, jostled>>
  BY DEF PromoteManagedMember
<1>2. /\ managed' \in [Farmers -> SUBSET (Coops \cup {"unborn"})]
      /\ managed'[f] = {} /\ \A g \in Farmers \ {f} : managed'[g] = managed[g]
  BY <1>1 DEF MemberInv, MemberTypeOK
<1>3. MemberTypeOK'
  BY <1>1, <1>2 DEF MemberInv, MemberTypeOK
<1>4. OneActive' /\ AcceptedIsMember'
  BY <1>1 DEF MemberInv, OneActive, AcceptedIsMember
<1>5. Unborn' /\ Unheard'
  BY <1>1, <1>2 DEF MemberInv, Unborn, Unheard
<1>6. Matched'
  BY <1>1 DEF MemberInv, Matched, AnswerTo, Single
<1> QED BY <1>3, <1>4, <1>5, <1>6 DEF MemberInv

-----------------------------------------------------------------------------
(* The invariant                                                           *)

LEMMA MemberInitInv == MemberInit => MemberInv
<1> SUFFICES ASSUME MemberInit PROVE MemberInv
  OBVIOUS
<1>1. \A h \in Hands : hand[h] = NoHand
  BY DEF MemberInit
<1>2. \A l \in Letters : letter[l] = NoLetter
  BY DEF MemberInit
<1>3. MemberTypeOK
  <2>1. NoHand \in HandRow
    BY HandRestType DEF MayBeMade
  <2>2. hand \in [Hands -> HandRow]
    BY <2>1 DEF MemberInit
  <2>3. letter \in [Letters -> LetterRow]
    BY DEF MemberInit, NoLetter, LetterRow
  <2>4. managed \in [Farmers -> SUBSET (Coops \cup {"unborn"})]
    <3>1. managed \in [Farmers -> {{"unborn"}, {}}]
      BY DEF MemberInit
    <3>2. {{"unborn"}, {}} \subseteq SUBSET (Coops \cup {"unborn"})
      OBVIOUS
    <3> QED BY <3>1, <3>2
  <2>5. \A f \in Farmers : \A l \in Letters : f \notin letter[l].of
    BY <1>2 DEF NoLetter
  <2> QED
    BY <2>2, <2>3, <2>4, <2>5 DEF MemberInit, MemberTypeOK, NoCoop, HandRow, LetterRow
<1>4. OneActive /\ AcceptedIsMember
  BY <1>2 DEF MemberInit, OneActive, AcceptedIsMember, NoLetter
<1>5. Unborn /\ Unheard
  BY <1>1, HandRestType DEF MemberInit, Unborn, Unheard
<1>6. Matched
  BY <1>1, <1>2, HandRestType DEF Matched, NoLetter, MayBeMade
<1> QED BY <1>3, <1>4, <1>5, <1>6 DEF MemberInv

LEMMA MemberNextInv == MemberInv /\ [MemberNext]_memberVars => MemberInv'
<1> SUFFICES ASSUME MemberInv, [MemberNext]_memberVars PROVE MemberInv'
  OBVIOUS
<1>1. ASSUME NEW h \in Hands, Accept(h) \/ Reject(h) \/ RemoveMember(h) PROVE MemberInv'
  BY <1>1, AcceptStep, RejectStep, RemoveStep
<1>2. ASSUME NEW h \in Hands, NEW l \in Letters,
             \/ WriteLetter(h, l)
             \/ \E yes \in BOOLEAN : HandleJoinRequest(h, l, yes) \/ HandleInvitation(h, l, yes)
      PROVE  MemberInv'
  BY <1>2, WriteStep, MemberBeginStep
<1>3. ASSUME NEW h \in Hands, NEW f \in Farmers, NEW c \in Coops,
             \/ CheckRemove(h, c, f)
             \/ Autonomous(f) /\ (CreateJoinRequest(h, f, c) \/ CreateInvitation(h, f, c))
      PROVE  MemberInv'
  BY <1>3, MemberBeginStep
<1>4. ASSUME NEW f \in Farmers,
             PromoteManagedMember(f) \/ \E c \in Coops : CreateManagedMember(c, f)
      PROVE  MemberInv'
  BY <1>4, PromoteStep, MemberCreateStep
<1>5. CASE UNCHANGED memberVars
  <2>1. UNCHANGED <<member, coopOf, letter, managed, hand, refused, jostled>>
    BY <1>5 DEF memberVars
  <2>2. MemberTypeOK'
    BY <2>1 DEF MemberInv, MemberTypeOK
  <2>3. OneActive' /\ AcceptedIsMember'
    BY <2>1 DEF MemberInv, OneActive, AcceptedIsMember
  <2>4. Unborn' /\ Unheard'
    BY <2>1 DEF MemberInv, Unborn, Unheard
  <2>5. Matched'
    BY <2>1 DEF MemberInv, Matched, AnswerTo, Single
  <2> QED BY <2>2, <2>3, <2>4, <2>5 DEF MemberInv
<1> QED BY <1>1, <1>2, <1>3, <1>4, <1>5 DEF MemberNext

LEMMA MemberInvariance == MemberSpec => []MemberInv
  BY MemberInitInv, MemberNextInv, PTL DEF MemberSpec

-----------------------------------------------------------------------------
(* The shortcut of the account                                             *)

\* Who is about to be removed was read as an active member
ReadMember ==
  \A h \in Hands : hand[h].do = "remove" =>
    \A c \in hand[h].to : <<c, "ACTIVE">> \in hand[h].saw

ShortInv == MemberInv /\ ReadMember /\ ShortcutIsMembership

\* A request is made: of a removal, of an active member
LEMMA ReadMemberBegins ==
  ASSUME ShortInv, NEW h \in Hands, NEW f \in Farmers, NEW c \in Coops, NEW k,
         k.do = "remove" => member[c][f] = "ACTIVE" /\ k.to = {c} /\ k.saw = View(f),
         hand' = [hand EXCEPT ![h] = k]
  PROVE  ReadMember'
<1>1. hand'[h] = k /\ \A g \in Hands \ {h} : hand'[g] = hand[g]
  BY DEF ShortInv, MemberInv, MemberTypeOK
<1>2. member[c][f] = "ACTIVE" => <<c, "ACTIVE">> \in View(f)
  BY DEF View
<1> QED BY <1>1, <1>2 DEF ShortInv, ReadMember

\* A request ends
LEMMA ReadMemberEnds ==
  ASSUME ShortInv, NEW h \in Hands, LetGo(h)
  PROVE  ReadMember'
<1>1. hand'[h] = NoHand /\ \A g \in Hands \ {h} : hand'[g] = hand[g]
  BY DEF LetGo, ShortInv, MemberInv, MemberTypeOK
<1>2. NoHand.do # "remove"
  BY DEF NoHand
<1> QED BY <1>1, <1>2 DEF ShortInv, ReadMember

\* A membership and the shortcut are written together
LEMMA ShortcutWritten ==
  ASSUME ShortInv, NEW f \in Farmers, NEW cs \in SUBSET Coops,
         jostled \subseteq jostled', coopOf' = [coopOf EXCEPT ![f] = cs],
         \A c \in Coops, g \in Farmers \ {f} : member'[c][g] = member[c][g],
         f \notin jostled' => \A c \in Coops : member'[c][f] = "ACTIVE" <=> c \in cs
  PROVE  ShortcutIsMembership'
<1>1. coopOf'[f] = cs /\ \A g \in Farmers \ {f} : coopOf'[g] = coopOf[g]
  BY DEF ShortInv, MemberInv, MemberTypeOK
<1>2. f \notin jostled' => ActiveIn(f)' = cs
  BY DEF ActiveIn
<1>3. \A g \in Farmers \ {f} : ActiveIn(g)' = ActiveIn(g)
  BY DEF ActiveIn
<1> QED BY <1>1, <1>2, <1>3 DEF ShortInv, ShortcutIsMembership

\* No membership changes
LEMMA ShortcutKept ==
  ASSUME ShortInv, UNCHANGED <<member, coopOf>>, jostled \subseteq jostled'
  PROVE  ShortcutIsMembership'
<1>1. \A f \in Farmers : ActiveIn(f)' = ActiveIn(f)
  BY DEF ActiveIn
<1> QED BY <1>1 DEF ShortInv, ShortcutIsMembership

\* What was read is remembered, or differs
LEMMA JostleGrows ==
  ASSUME NEW h \in Hands, Jostle(h)
  PROVE  /\ jostled \subseteq jostled'
         /\ Who(h) \notin jostled' => View(Who(h)) = hand[h].saw
  BY DEF Jostle

\* Accepted where no active row was: the new one is the only one
LEMMA AcceptShort ==
  ASSUME ShortInv, NEW h \in Hands, Accept(h)
  PROVE  ReadMember' /\ ShortcutIsMembership'
<1> DEFINE f == Who(h)
           c == Which(h)
<1>1. f \in Farmers /\ c \in Coops
  BY NamedRows DEF Accept, ShortInv
<1>2. LetGo(h)
  BY DEF Accept
<1>3. CASE UNCHANGED <<letter, member, coopOf, jostled>>
  BY <1>2, <1>3, ShortcutKept, ReadMemberEnds
<1>4. CASE /\ Insertable(c, f) /\ Jostle(h)
           /\ member' = [member EXCEPT ![c][f] = "ACTIVE"] /\ coopOf' = [coopOf EXCEPT ![f] = {c}]
  <2>1. \A d \in Coops : member[d][f] # "ACTIVE"
    BY <1>4 DEF Insertable, ActiveIn
  <2>2. jostled \subseteq jostled'
    BY <1>4, JostleGrows
  <2> HIDE DEF f, c
  <2>3. /\ member'[c][f] = "ACTIVE"
        /\ \A d \in Coops, g \in Farmers : d # c \/ g # f => member'[d][g] = member[d][g]
    BY <1>1, <1>4, MemberRow DEF ShortInv
  <2>4. /\ {c} \in SUBSET Coops /\ coopOf' = [coopOf EXCEPT ![f] = {c}]
        /\ \A d \in Coops, g \in Farmers \ {f} : member'[d][g] = member[d][g]
        /\ \A d \in Coops : member'[d][f] = "ACTIVE" <=> d \in {c}
    BY <1>1, <1>4, <2>1, <2>3
  <2>5. ShortcutIsMembership'
    BY <1>1, <2>2, <2>4, ShortcutWritten
  <2> QED BY <1>2, <2>5, ReadMemberEnds
<1> QED BY <1>3, <1>4 DEF Accept

\* Removed as he was read: he has no other active row
LEMMA RemoveShort ==
  ASSUME ShortInv, NEW h \in Hands, RemoveMember(h)
  PROVE  ReadMember' /\ ShortcutIsMembership'
<1> DEFINE f == Who(h)
           c == Which(h)
<1>1. f \in Farmers /\ c \in Coops /\ hand[h].to = {c} /\ hand[h].do = "remove"
  BY NamedRows DEF RemoveMember, ShortInv
<1>2. /\ LetGo(h) /\ Jostle(h)
      /\ member' = [member EXCEPT ![c][f] = "INACTIVE"]
      /\ coopOf' = [coopOf EXCEPT ![f] = {}]
  BY DEF RemoveMember, NoCoop
<1>3. jostled \subseteq jostled' /\ (f \notin jostled' => View(f) = hand[h].saw)
  BY <1>2, JostleGrows
<1>4. <<c, "ACTIVE">> \in hand[h].saw
  BY <1>1 DEF ShortInv, ReadMember
<1> HIDE DEF f, c
<1>5. /\ member'[c][f] = "INACTIVE"
      /\ \A d \in Coops, g \in Farmers : d # c \/ g # f => member'[d][g] = member[d][g]
  BY <1>1, <1>2 DEF ShortInv, MemberInv, MemberTypeOK
<1>6. f \notin jostled' => member[c][f] = "ACTIVE"
  BY <1>3, <1>4 DEF View
<1>7. f \notin jostled' => \A d \in Coops : member'[d][f] = "ACTIVE" <=> d \in {}
  BY <1>1, <1>5, <1>6 DEF ShortInv, MemberInv, OneActive
<1>8. \A d \in Coops, g \in Farmers \ {f} : member'[d][g] = member[d][g]
  BY <1>5
<1>9. ShortcutIsMembership'
  <2> DEFINE cs == {}
  <2>1. cs \in SUBSET Coops /\ coopOf' = [coopOf EXCEPT ![f] = cs]
    BY <1>2
  <2>2. f \notin jostled' => \A d \in Coops : member'[d][f] = "ACTIVE" <=> d \in cs
    BY <1>7
  <2> HIDE DEF cs
  <2> QED BY <1>1, <1>3, <1>8, <2>1, <2>2, ShortcutWritten
<1> QED BY <1>2, <1>9, ReadMemberEnds

\* Created as a member: he had no row before
LEMMA CreateShort ==
  ASSUME ShortInv, NEW c \in Coops, NEW f \in Farmers, CreateManagedMember(c, f)
  PROVE  ReadMember' /\ ShortcutIsMembership'
<1>1. /\ managed[f] = {"unborn"} /\ member' = [member EXCEPT ![c][f] = "ACTIVE"]
      /\ coopOf' = [coopOf EXCEPT ![f] = {c}] /\ UNCHANGED <<hand, jostled>>
  BY DEF CreateManagedMember
<1>2. \A d \in Coops : member[d][f] = "NONE"
  BY <1>1 DEF ShortInv, MemberInv, Unborn
<1>3. /\ member'[c][f] = "ACTIVE"
      /\ \A d \in Coops, g \in Farmers : d # c \/ g # f => member'[d][g] = member[d][g]
  BY <1>1, MemberRow DEF ShortInv
<1>4. /\ {c} \in SUBSET Coops /\ jostled \subseteq jostled'
      /\ \A d \in Coops, g \in Farmers \ {f} : member'[d][g] = member[d][g]
      /\ \A d \in Coops : member'[d][f] = "ACTIVE" <=> d \in {c}
  BY <1>1, <1>2, <1>3
<1>5. ShortcutIsMembership'
  BY <1>1, <1>4, ShortcutWritten
<1>6. ReadMember'
  BY <1>1 DEF ShortInv, ReadMember
<1> QED BY <1>5, <1>6

\* The requests that are made
LEMMA BeginShort ==
  ASSUME ShortInv, NEW h \in Hands,
         \/ \E f \in Farmers, c \in Coops :
              CheckRemove(h, c, f) \/ CreateJoinRequest(h, f, c) \/ CreateInvitation(h, f, c)
         \/ \E l \in Letters, yes \in BOOLEAN :
              HandleJoinRequest(h, l, yes) \/ HandleInvitation(h, l, yes)
  PROVE  ReadMember' /\ ShortcutIsMembership'
<1>1. UNCHANGED <<member, coopOf, jostled>>
  BY DEF CheckRemove, CreateJoinRequest, CreateInvitation, Asks, HandleJoinRequest,
         HandleInvitation, TakeUp
<1>2. ShortcutIsMembership'
  BY <1>1, ShortcutKept
<1>3. ASSUME NEW f \in Farmers, NEW c \in Coops, CheckRemove(h, c, f) PROVE ReadMember'
  <2> DEFINE k == [do |-> "remove", of |-> {f}, to |-> {c}, letter |-> {}, saw |-> View(f)]
  <2>1. member[c][f] = "ACTIVE" /\ hand' = [hand EXCEPT ![h] = k]
    BY <1>3 DEF CheckRemove
  <2> QED BY <2>1, ReadMemberBegins
<1>4. ASSUME NEW f \in Farmers, NEW c \in Coops, NEW how \in {"join", "invite"},
             Asks(h, how, f, c)
      PROVE  ReadMember'
  <2> DEFINE k == [do |-> how, of |-> {f}, to |-> {c}, letter |-> {}, saw |-> View(f)]
  <2>1. hand' = [hand EXCEPT ![h] = k] /\ k.do # "remove"
    BY <1>4 DEF Asks
  <2> QED BY <2>1, ReadMemberBegins
<1>5. ASSUME NEW l \in Letters, NEW yes \in BOOLEAN,
             HandleJoinRequest(h, l, yes) \/ HandleInvitation(h, l, yes)
      PROVE  ReadMember'
  <2>1. \A f \in letter[l].of :
          hand' = [hand EXCEPT ![h] = [do |-> IF yes THEN "accept" ELSE "reject",
                     of |-> {f}, to |-> letter[l].to, letter |-> {l}, saw |-> View(f)]]
    BY <1>5 DEF HandleJoinRequest, HandleInvitation, TakeUp
  <2>2. letter[l].kind # "NONE"
    BY <1>5 DEF HandleJoinRequest, HandleInvitation, TakeUp
  <2>3. PICK f \in Farmers, c \in Coops : letter[l].of = {f} /\ letter[l].to = {c}
    BY <2>2 DEF ShortInv, MemberInv, Matched, Single
  <2> DEFINE k == [do |-> IF yes THEN "accept" ELSE "reject",
                   of |-> {f}, to |-> letter[l].to, letter |-> {l}, saw |-> View(f)]
  <2>4. hand' = [hand EXCEPT ![h] = k] /\ k.do # "remove"
    BY <2>1, <2>3
  <2> QED BY <2>3, <2>4, ReadMemberBegins
<1> QED BY <1>2, <1>3, <1>4, <1>5 DEF CreateJoinRequest, CreateInvitation

\* Every step keeps the shortcut
LEMMA ShortNext == ShortInv /\ [MemberNext]_memberVars => ShortInv'
<1> SUFFICES ASSUME ShortInv, [MemberNext]_memberVars PROVE ReadMember' /\ ShortcutIsMembership'
  BY MemberNextInv DEF ShortInv
<1>1. ASSUME NEW h \in Hands, Reject(h) \/ \E l \in Letters : WriteLetter(h, l)
      PROVE  ReadMember' /\ ShortcutIsMembership'
  <2>1. LetGo(h) /\ UNCHANGED <<member, coopOf>>
    BY <1>1 DEF Reject, WriteLetter
  <2>2. jostled \subseteq jostled'
    BY <1>1, JostleGrows DEF Reject, WriteLetter
  <2> QED BY <2>1, <2>2, ShortcutKept, ReadMemberEnds
<1>2. CASE (\E f \in Farmers : PromoteManagedMember(f)) \/ UNCHANGED memberVars
  <2>1. UNCHANGED <<member, coopOf, hand, jostled>>
    BY <1>2 DEF PromoteManagedMember, memberVars
  <2>2. ReadMember'
    BY <2>1 DEF ShortInv, ReadMember
  <2> QED BY <2>1, <2>2, ShortcutKept
<1> QED BY <1>1, <1>2, AcceptShort, RemoveShort, CreateShort, BeginShort DEF MemberNext

LEMMA ShortInit == MemberInit => ShortInv
<1> SUFFICES ASSUME MemberInit PROVE ReadMember /\ ShortcutIsMembership
  BY MemberInitInv DEF ShortInv
<1>1. ReadMember
  BY HandRestType DEF MemberInit, ReadMember
<1>2. ShortcutIsMembership
  BY DEF MemberInit, ShortcutIsMembership, ActiveIn, NoCoop
<1> QED BY <1>1, <1>2

-----------------------------------------------------------------------------
(* The theorems                                                            *)

\* Rows, letters and requests keep their shape, and a farmer who cannot sign in
\* is in no letter
THEOREM MembershipTypeCorrect == MemberSpec => []MemberTypeOK
<1>1. MemberInv => MemberTypeOK
  BY DEF MemberInv
<1> QED BY <1>1, MemberInvariance, PTL

\* However requests and invitations of several cooperatives are accepted, a
\* farmer is an active member of one cooperative at most
THEOREM OneCooperative == MemberSpec => []OneCoopAtMost
<1>1. MemberInv => OneCoopAtMost
  <2> SUFFICES ASSUME MemberInv, NEW f \in Farmers PROVE Cardinality(ActiveIn(f)) <= 1
    BY DEF OneCoopAtMost
  <2>1. CASE ActiveIn(f) = {}
    BY <2>1, FS_EmptySet
  <2>2. CASE ActiveIn(f) # {}
    <3>1. PICK c \in Coops : member[c][f] = "ACTIVE"
      BY <2>2 DEF ActiveIn
    <3>2. ActiveIn(f) = {c}
      BY <3>1 DEF ActiveIn, MemberInv, OneActive
    <3> QED BY <3>2, FS_Singleton
  <2> QED BY <2>1, <2>2
<1> QED BY <1>1, MemberInvariance, PTL

\* Whoever was accepted has a row of members in the cooperative that accepted him,
\* if only of a former member
THEOREM AcceptedHaveRows == MemberSpec => []AcceptedIsMember
<1>1. MemberInv => AcceptedIsMember
  BY DEF MemberInv
<1> QED BY <1>1, MemberInvariance, PTL

\* removeMember, handleJoinRequest and handleInvitation write users.cooperative_id together
\* with the membership: it names the active one, unless a request wrote on a stale reading
THEOREM ShortcutFollows == MemberSpec => []ShortcutIsMembership
<1>1. ShortInv => ShortcutIsMembership
  BY DEF ShortInv
<1> QED BY <1>1, ShortInit, ShortNext, PTL DEF MemberSpec

\* The four together, as the runs check them
THEOREM MembershipIsSafe == MemberSpec => []MemberSafety
<1>1. MemberTypeOK /\ OneCoopAtMost /\ ShortcutIsMembership /\ AcceptedIsMember => MemberSafety
  BY DEF MemberSafety
<1> QED BY <1>1, MembershipTypeCorrect, OneCooperative, ShortcutFollows, AcceptedHaveRows, PTL

-----------------------------------------------------------------------------

\* An offer that exists has terms
HasTerms == \A o \in Offers : offer[o].status # "NONE" => offer[o].kg \in Terms

\* What a request holds, by what it does
HoldsOffer(q) == tab[q].at # "idle" => \E o \in Offers : tab[q].of = {o}
Creating(q) ==
  tab[q].at = "create" =>
    /\ tab[q].kg \in Terms
    /\ \A o \in tab[q].of : offer[o].status = "NONE"
    /\ \A p \in Tabs \ {q} : tab[p].of # tab[q].of
Deciding(q) ==
  tab[q].at = "decide" =>
    /\ tab[q].saw.status \in OpenStatus /\ tab[q].saw.kg \in Terms
    /\ tab[q].act = "COUNTER_OFFER" => tab[q].kg \in Terms
    /\ \A o \in tab[q].of : offer[o].status # "NONE"
TabsHold == \A q \in Tabs : HoldsOffer(q) /\ Creating(q) /\ Deciding(q)

NegoInv == NegoTypeOK /\ HasTerms /\ TabsHold /\ OneOrderPerOffer /\ TermsHonoured

TabRows == [at : {"idle", "create", "decide"}, of : SUBSET Offers,
            act : Decisions, kg : Terms \cup {0}, saw : OfferRows, seen : SUBSET Offers]

-----------------------------------------------------------------------------
(* Lemmas about the operators                                              *)

\* The request of an idle tab
LEMMA TabRestType == NoOffer \in OfferRows /\ NoTab \in TabRows /\ NoTab.at = "idle" /\ NoTab.of = {}
  BY DEF NoOffer, NoTab, OfferRows, TabRows, NegotiationStatus, Decisions

\* The offer of a request is the one it names
LEMMA NamedOffer ==
  ASSUME NEW q \in Tabs, HoldsOffer(q), tab[q].at # "idle"
  PROVE  The(q) \in Offers /\ tab[q].of = {The(q)}
<1>1. PICK o \in Offers : tab[q].of = {o}
  BY DEF HoldsOffer
<1>2. The(q) = o
  BY <1>1 DEF The
<1> QED BY <1>1, <1>2

\* A sequence of one order
LEMMA OneOrder ==
  ASSUME NEW kg \in Terms
  PROVE  <<kg>> \in Seq(Terms) /\ Len(<<kg>>) <= 1 /\ <<kg>> # <<>>
  OBVIOUS

-----------------------------------------------------------------------------
(* The steps                                                               *)

\* A tab gives up its request, and nothing else changes
LEMMA DropStep ==
  ASSUME NegoInv, NEW q \in Tabs, Free(q), UNCHANGED <<kind, source, offer, orders, stale>>
  PROVE  NegoInv'
<1>1. /\ tab' \in [Tabs -> TabRows]
      /\ tab'[q] = NoTab /\ \A p \in Tabs \ {q} : tab'[p] = tab[p]
  BY TabRestType DEF NegoInv, NegoTypeOK, TabRows, Free
<1>2. NegoTypeOK'
  BY <1>1 DEF NegoInv, NegoTypeOK, TabRows
<1>3. HasTerms' /\ OneOrderPerOffer' /\ TermsHonoured'
  BY DEF NegoInv, HasTerms, OneOrderPerOffer, TermsHonoured
<1>4. TabsHold'
  BY <1>1, TabRestType DEF NegoInv, TabsHold, HoldsOffer, Creating, Deciding
<1> QED BY <1>2, <1>3, <1>4 DEF NegoInv

\* An idle tab takes up a request about one offer
LEMMA TakeStep ==
  ASSUME NegoInv, NEW q \in Tabs, tab[q].at = "idle", NEW r \in TabRows, NEW o \in Offers,
         r.of = {o},
         \/ r.at = "create" /\ r.kg \in Terms /\ Fresh(o)
         \/ /\ r.at = "decide" /\ offer[o].status # "NONE"
            /\ r.saw.status \in OpenStatus /\ r.saw.kg \in Terms
            /\ r.act = "COUNTER_OFFER" => r.kg \in Terms,
         tab' = [tab EXCEPT ![q] = r], UNCHANGED <<kind, source, offer, orders, stale>>
  PROVE  NegoInv'
<1>1. /\ tab' \in [Tabs -> TabRows]
      /\ tab'[q] = r /\ \A p \in Tabs \ {q} : tab'[p] = tab[p]
  BY DEF NegoInv, NegoTypeOK, TabRows
<1>2. NegoTypeOK'
  BY <1>1 DEF NegoInv, NegoTypeOK, TabRows
<1>3. HasTerms' /\ OneOrderPerOffer' /\ TermsHonoured'
  BY DEF NegoInv, HasTerms, OneOrderPerOffer, TermsHonoured
<1>4. TabsHold'
  <2>1. HoldsOffer(q)' /\ Creating(q)' /\ Deciding(q)'
    BY <1>1 DEF HoldsOffer, Creating, Deciding, Fresh
  <2>2. ASSUME NEW p \in Tabs \ {q} PROVE HoldsOffer(p)' /\ Creating(p)' /\ Deciding(p)'
    <3>1. HoldsOffer(p) /\ Creating(p) /\ Deciding(p)
      BY DEF NegoInv, TabsHold
    <3>2. tab[p].at = "create" => tab[p].of # {o}
      BY <3>1 DEF Creating, Fresh
    <3> QED BY <1>1, <3>1, <3>2 DEF HoldsOffer, Creating, Deciding
  <2> QED BY <2>1, <2>2 DEF TabsHold
<1> QED BY <1>2, <1>3, <1>4 DEF NegoInv

\* A party makes an offer: the checks pass
LEMMA CheckOfferStep ==
  ASSUME NegoInv, NEW q \in Tabs, NEW m \in Makers, NEW o \in Offers, NEW kg \in Terms,
         CheckOffer(q, m, o, kg)
  PROVE  NegoInv'
<1> DEFINE r == [NoTab EXCEPT !.at = "create", !.of = {o}, !.kg = kg,
                              !.saw = [NoOffer EXCEPT !.by = {m}], !.seen = LiveOf(m)]
<1>1. /\ tab[q].at = "idle" /\ Fresh(o) /\ tab' = [tab EXCEPT ![q] = r]
      /\ UNCHANGED <<kind, source, offer, orders, stale>>
  BY DEF CheckOffer
<1>2. LiveOf(m) \in SUBSET Offers /\ [NoOffer EXCEPT !.by = {m}] \in OfferRows
  BY DEF LiveOf, NoOffer, OfferRows, NegotiationStatus
<1>3. r \in TabRows /\ r.of = {o} /\ r.at = "create" /\ r.kg = kg
  BY <1>2, TabRestType DEF NoTab, TabRows, Decisions
<1> HIDE DEF r
<1> QED BY <1>1, <1>3, TakeStep

\* A party answers an offer: the read and the transition
LEMMA CheckDecisionStep ==
  ASSUME NegoInv, NEW q \in Tabs, NEW o \in Offers, NEW kg \in Terms, NEW act \in Answers,
         CheckDecision(q, o, act, IF act = "COUNTER_OFFER" THEN kg ELSE 0)
  PROVE  NegoInv'
<1> DEFINE n == IF act = "COUNTER_OFFER" THEN kg ELSE 0
           r == [NoTab EXCEPT !.at = "decide", !.of = {o}, !.act = act, !.kg = n,
                              !.saw = offer[o]]
<1>1. /\ tab[q].at = "idle" /\ offer[o].status # "NONE" /\ offer[o].status \in OpenStatus
      /\ tab' = [tab EXCEPT ![q] = r]
      /\ UNCHANGED <<kind, source, offer, orders, stale>>
  BY DEF CheckDecision, AssertTransition
<1>2. offer[o] \in OfferRows /\ offer[o].kg \in Terms
  BY <1>1 DEF NegoInv, NegoTypeOK, HasTerms
<1>3. act \in Decisions
  BY AnswersAssumption
<1>4. /\ r \in TabRows /\ r.of = {o} /\ r.at = "decide" /\ r.saw = offer[o]
      /\ r.act = "COUNTER_OFFER" => r.kg \in Terms
  BY <1>2, <1>3, TabRestType DEF NoTab, TabRows
<1> HIDE DEF r
<1> QED BY <1>1, <1>2, <1>4, TakeStep

\* The new offer is written
LEMMA NegoCreateStep ==
  ASSUME NegoInv, NEW q \in Tabs, CreateOffer(q)
  PROVE  /\ NegoInv'
         /\ \A o \in Offers : offer[o].status = "REJECTED_BY_RACE" => offer'[o] = offer[o]
<1> DEFINE o == The(q)
           new == [status |-> "PENDING", kg |-> tab[q].kg, by |-> tab[q].saw.by]
<1>1. /\ tab[q].at = "create" /\ offer' = [offer EXCEPT ![o] = new]
      /\ stale' = stale \/ stale' = stale \cup {o}
      /\ Free(q) /\ UNCHANGED <<kind, source, orders>>
  BY DEF CreateOffer
<1>2. HoldsOffer(q) /\ Creating(q)
  BY DEF NegoInv, TabsHold
<1>3. o \in Offers /\ tab[q].of = {o}
  BY <1>1, <1>2, NamedOffer
<1>4. tab[q].kg \in Terms /\ offer[o].status = "NONE" /\ \A p \in Tabs \ {q} : tab[p].of # {o}
  BY <1>1, <1>2, <1>3 DEF Creating
<1>5. new \in OfferRows /\ new.status = "PENDING" /\ new.kg \in Terms
  BY <1>4 DEF OfferRows, NegotiationStatus, OpenStatus, NegoInv, NegoTypeOK
<1> HIDE DEF o, new
<1>6. /\ tab' \in [Tabs -> TabRows]
      /\ tab'[q] = NoTab /\ \A p \in Tabs \ {q} : tab'[p] = tab[p]
  BY <1>1, TabRestType DEF NegoInv, NegoTypeOK, TabRows, Free
<1>7. /\ offer' \in [Offers -> OfferRows]
      /\ offer'[o] = new /\ \A p \in Offers \ {o} : offer'[p] = offer[p]
  BY <1>1, <1>3, <1>5 DEF NegoInv, NegoTypeOK
<1>8. NegoTypeOK'
  BY <1>1, <1>3, <1>6, <1>7 DEF NegoInv, NegoTypeOK, TabRows
<1>9. HasTerms' /\ OneOrderPerOffer'
  BY <1>1, <1>5, <1>7 DEF NegoInv, HasTerms, OneOrderPerOffer
<1>10. TabsHold'
  <2>1. ASSUME NEW p \in Tabs PROVE HoldsOffer(p)' /\ Creating(p)' /\ Deciding(p)'
    <3>1. CASE p = q
      BY <1>6, <3>1, TabRestType DEF HoldsOffer, Creating, Deciding
    <3>2. CASE p # q
      <4>1. HoldsOffer(p) /\ Creating(p) /\ Deciding(p) /\ tab[p].of # {o}
        BY <1>4, <3>2 DEF NegoInv, TabsHold
      <4>2. tab'[p] = tab[p]
        BY <1>6, <3>2
      <4>3. HoldsOffer(p)'
        BY <4>1, <4>2 DEF HoldsOffer
      <4>4. tab[p].at # "idle" => o \notin tab[p].of
        BY <4>1 DEF HoldsOffer
      <4>5. Creating(p)'
        <5>1. \A r \in tab[p].of : tab[p].at = "create" => offer'[r].status = "NONE"
          <6>1. ASSUME NEW r \in tab[p].of, tab[p].at = "create" PROVE offer'[r].status = "NONE"
            <7>1. r \in Offers \ {o} /\ offer[r].status = "NONE"
              BY <1>6, <4>1, <4>2, <4>4, <6>1 DEF Creating, TabRows
            <7> QED BY <1>7, <7>1
          <6> QED BY <6>1
        <5>2. \A s \in Tabs \ {p} : tab[p].at = "create" => tab'[s].of # tab'[p].of
          <6>1. ASSUME NEW s \in Tabs \ {p}, tab[p].at = "create" PROVE tab'[s].of # tab'[p].of
            <7>1. tab[s].of # tab[p].of /\ tab[p].of # {}
              BY <4>1, <6>1 DEF Creating, HoldsOffer
            <7> QED BY <1>6, <4>2, <7>1, TabRestType
          <6> QED BY <6>1
        <5> QED BY <4>1, <4>2, <5>1, <5>2 DEF Creating
      <4>6. Deciding(p)'
        <5>1. tab'[p].of \subseteq Offers
          BY <1>6 DEF TabRows
        <5> QED BY <1>7, <4>1, <4>2, <4>4, <5>1 DEF Deciding
      <4> QED BY <4>3, <4>5, <4>6
    <3> QED BY <3>1, <3>2
  <2> QED BY <2>1 DEF TabsHold
<1>11. TermsHonoured'
  <2>1. ASSUME NEW p \in Offers, p \notin stale'
        PROVE  IF offer'[p].status = "ACCEPTED" /\ kind # "contreOffre"
               THEN orders[p] = <<offer'[p].kg>> ELSE orders[p] = <<>>
    <3>1. p \notin stale
      BY <1>1, <2>1
    <3>2. IF offer[p].status = "ACCEPTED" /\ kind # "contreOffre"
          THEN orders[p] = <<offer[p].kg>> ELSE orders[p] = <<>>
      BY <3>1 DEF NegoInv, TermsHonoured
    <3> QED BY <1>4, <1>5, <1>7, <3>2
  <2> QED BY <1>1, <2>1 DEF TermsHonoured
<1> QED BY <1>4, <1>7, <1>8, <1>9, <1>10, <1>11 DEF NegoInv

\* An answer is written, and with an acceptance its order
LEMMA DecideStep ==
  ASSUME NegoInv, NEW q \in Tabs, Decide(q)
  PROVE  /\ NegoInv'
         /\ \A p \in Offers : offer[p].status = "REJECTED_BY_RACE" /\ p \notin stale'
              => offer'[p] = offer[p]
<1> DEFINE o == The(q)
           act == tab[q].act
           kg == IF act = "COUNTER_OFFER" THEN tab[q].kg ELSE offer[o].kg
           lost == {p \in Offers \ {o} : offer[p].status \in OpenStatus}
           makes == act = "ACCEPTED" /\ kind # "contreOffre"
<1>1. /\ tab[q].at = "decide"
      /\ offer' = [p \in Offers |->
           IF p = o THEN [offer[p] EXCEPT !.status = act, !.kg = kg]
           ELSE IF makes /\ p \in lost THEN [offer[p] EXCEPT !.status = "REJECTED_BY_RACE"]
           ELSE offer[p]]
      /\ orders' = IF makes THEN [orders EXCEPT ![o] = NewOrder(o, Agreed(q))] ELSE orders
      /\ stale' = IF offer[o] = tab[q].saw THEN stale ELSE stale \cup {o}
      /\ Free(q) /\ UNCHANGED <<kind, source>>
  BY DEF Decide, MakesOrder
<1>2. HoldsOffer(q) /\ Deciding(q)
  BY DEF NegoInv, TabsHold
<1>3. o \in Offers /\ tab[q].of = {o}
  BY <1>1, <1>2, NamedOffer
<1>4. /\ tab[q].saw.status \in OpenStatus /\ tab[q].saw.kg \in Terms
      /\ act = "COUNTER_OFFER" => tab[q].kg \in Terms
      /\ offer[o].status # "NONE" /\ offer[o].kg \in Terms
  BY <1>1, <1>2, <1>3 DEF Deciding, NegoInv, HasTerms
<1>5. offer \in [Offers -> OfferRows] /\ act \in Decisions /\ kg \in Terms
  BY <1>4 DEF NegoInv, NegoTypeOK
<1>6. /\ tab' \in [Tabs -> TabRows]
      /\ tab'[q] = NoTab /\ \A p \in Tabs \ {q} : tab'[p] = tab[p]
  BY <1>1, TabRestType DEF NegoInv, NegoTypeOK, TabRows, Free
<1>7. /\ offer'[o].status = act /\ offer'[o].kg = kg
      /\ offer'[o] \in OfferRows
  BY <1>1, <1>3, <1>5 DEF OfferRows, NegotiationStatus
<1>8. \A p \in Offers \ {o} :
        /\ offer'[p] \in OfferRows /\ offer'[p].kg = offer[p].kg
        /\ \/ offer'[p] = offer[p]
           \/ offer[p].status \in OpenStatus /\ offer'[p].status = "REJECTED_BY_RACE"
  BY <1>1, <1>5 DEF OfferRows, NegotiationStatus
<1>9. /\ NewOrder(o, Agreed(q)) \in Seq(Terms) /\ Len(NewOrder(o, Agreed(q))) <= 1
      /\ orders[o] = <<>> => NewOrder(o, Agreed(q)) = <<tab[q].saw.kg>>
  <2>1. orders[o] \in Seq(Terms) /\ Len(orders[o]) <= 1
    BY <1>3 DEF NegoInv, NegoTypeOK, OneOrderPerOffer
  <2> QED BY <1>4, <2>1, OneOrder DEF NewOrder, Agreed
<1>10. /\ orders' \in [Offers -> Seq(Terms)]
       /\ \A p \in Offers \ {o} : orders'[p] = orders[p]
       /\ orders'[o] = IF makes THEN NewOrder(o, Agreed(q)) ELSE orders[o]
  BY <1>1, <1>3, <1>9 DEF NegoInv, NegoTypeOK
<1>11. NegoTypeOK'
  <2>1. offer' \in [Offers -> OfferRows]
    BY <1>1, <1>7, <1>8
  <2> QED BY <1>1, <1>3, <1>6, <1>10, <2>1 DEF NegoInv, NegoTypeOK, TabRows
<1>12. HasTerms'
  <2>1. ASSUME NEW p \in Offers, offer'[p].status # "NONE" PROVE offer'[p].kg \in Terms
    <3>1. CASE p = o
      BY <1>5, <1>7, <3>1
    <3>2. CASE p # o
      <4>1. offer[p].status # "NONE"
        BY <1>8, <2>1, <3>2 DEF OpenStatus
      <4> QED BY <1>8, <3>2, <4>1 DEF NegoInv, HasTerms
    <3> QED BY <3>1, <3>2
  <2> QED BY <2>1 DEF HasTerms
<1>13. OneOrderPerOffer'
  BY <1>9, <1>10 DEF NegoInv, OneOrderPerOffer
<1>14. TabsHold'
  <2>1. ASSUME NEW p \in Tabs PROVE HoldsOffer(p)' /\ Creating(p)' /\ Deciding(p)'
    <3>1. CASE p = q
      BY <1>6, <3>1, TabRestType DEF HoldsOffer, Creating, Deciding
    <3>2. CASE p # q
      <4>1. HoldsOffer(p) /\ Creating(p) /\ Deciding(p)
        BY DEF NegoInv, TabsHold
      <4>2. tab'[p] = tab[p] /\ tab'[p].of \subseteq Offers
        BY <1>6, <3>2 DEF TabRows
      <4>3. HoldsOffer(p)'
        BY <4>1, <4>2 DEF HoldsOffer
      <4>4. tab[p].at = "create" => o \notin tab[p].of
        BY <1>4, <4>1 DEF Creating
      <4>5. Creating(p)'
        <5>1. \A r \in tab[p].of : tab[p].at = "create" => offer'[r].status = "NONE"
          <6>1. ASSUME NEW r \in tab[p].of, tab[p].at = "create" PROVE offer'[r].status = "NONE"
            <7>1. r \in Offers \ {o} /\ offer[r].status = "NONE"
              BY <4>1, <4>2, <4>4, <6>1 DEF Creating
            <7> QED BY <1>8, <7>1 DEF OpenStatus
          <6> QED BY <6>1
        <5>2. \A s \in Tabs \ {p} : tab[p].at = "create" => tab'[s].of # tab'[p].of
          <6>1. ASSUME NEW s \in Tabs \ {p}, tab[p].at = "create" PROVE tab'[s].of # tab'[p].of
            <7>1. tab[s].of # tab[p].of /\ tab[p].of # {}
              BY <4>1, <6>1 DEF Creating, HoldsOffer
            <7> QED BY <1>6, <4>2, <7>1, TabRestType
          <6> QED BY <6>1
        <5> QED BY <4>1, <4>2, <5>1, <5>2 DEF Creating
      <4>6. Deciding(p)'
        <5>1. \A r \in tab[p].of : tab[p].at = "decide" => offer'[r].status # "NONE"
          <6>1. ASSUME NEW r \in tab[p].of, tab[p].at = "decide" PROVE offer'[r].status # "NONE"
            <7>1. r \in Offers /\ offer[r].status # "NONE"
              BY <4>1, <4>2, <6>1 DEF Deciding
            <7>2. act # "NONE"
              BY <1>5 DEF Decisions
            <7> QED BY <1>7, <1>8, <7>1, <7>2
          <6> QED BY <6>1
        <5> QED BY <4>1, <4>2, <5>1 DEF Deciding
      <4> QED BY <4>3, <4>5, <4>6
    <3> QED BY <3>1, <3>2
  <2> QED BY <2>1 DEF TabsHold
<1>15. TermsHonoured'
  <2>1. ASSUME NEW p \in Offers, p \notin stale'
        PROVE  IF offer'[p].status = "ACCEPTED" /\ kind # "contreOffre"
               THEN orders'[p] = <<offer'[p].kg>> ELSE orders'[p] = <<>>
    <3>1. p \notin stale
      BY <1>1, <2>1
    <3>2. IF offer[p].status = "ACCEPTED" /\ kind # "contreOffre"
          THEN orders[p] = <<offer[p].kg>> ELSE orders[p] = <<>>
      BY <3>1 DEF NegoInv, TermsHonoured
    <3>3. CASE p = o
      <4>1. offer[o] = tab[q].saw
        BY <1>1, <2>1, <3>3
      <4>2. orders[o] = <<>>
        BY <1>4, <3>2, <3>3, <4>1 DEF OpenStatus
      <4> QED BY <1>7, <1>9, <1>10, <3>3, <4>1, <4>2
    <3>4. CASE p # o
      BY <1>8, <1>10, <3>2, <3>4 DEF OpenStatus
    <3> QED BY <3>3, <3>4
  <2> QED BY <1>1, <2>1 DEF TermsHonoured
<1>16. ASSUME NEW p \in Offers, offer[p].status = "REJECTED_BY_RACE", p \notin stale'
       PROVE  offer'[p] = offer[p]
  <2>1. p # o
    BY <1>1, <1>4, <1>16 DEF OpenStatus
  <2> QED BY <1>8, <1>16, <2>1 DEF OpenStatus
<1> QED BY <1>11, <1>12, <1>13, <1>14, <1>15, <1>16 DEF NegoInv

\* The source changes
LEMMA SourceStep ==
  ASSUME NegoInv, NEW s \in Sources, ChangeSource(s)
  PROVE  NegoInv'
<1>1. source' \in Sources /\ UNCHANGED <<kind, offer, orders, tab, stale>>
  BY DEF ChangeSource
<1>2. NegoTypeOK'
  BY <1>1 DEF NegoInv, NegoTypeOK
<1>3. HasTerms' /\ OneOrderPerOffer' /\ TermsHonoured'
  BY <1>1 DEF NegoInv, HasTerms, OneOrderPerOffer, TermsHonoured
<1>4. TabsHold'
  BY <1>1 DEF NegoInv, TabsHold, HoldsOffer, Creating, Deciding
<1> QED BY <1>2, <1>3, <1>4 DEF NegoInv

-----------------------------------------------------------------------------
(* The invariant                                                           *)

LEMMA NegoInitInv == NegoInit => NegoInv
<1> SUFFICES ASSUME NegoInit PROVE NegoInv
  OBVIOUS
<1>1. /\ \A o \in Offers : offer[o] = NoOffer /\ orders[o] = <<>>
      /\ \A q \in Tabs : tab[q] = NoTab
  BY DEF NegoInit
<1>2. NegoTypeOK
  BY TabRestType DEF NegoInit, NegoTypeOK, TabRows
<1>3. HasTerms /\ OneOrderPerOffer /\ TermsHonoured
  BY <1>1 DEF HasTerms, OneOrderPerOffer, TermsHonoured, NoOffer
<1>4. TabsHold
  BY <1>1, TabRestType DEF TabsHold, HoldsOffer, Creating, Deciding
<1> QED BY <1>2, <1>3, <1>4 DEF NegoInv

\* What a step may never do to an offer that lost the race
LEMMA NegoStep ==
  ASSUME NegoInv, [NegoNext]_negoVars
  PROVE  /\ NegoInv'
         /\ \A p \in Offers : offer[p].status = "REJECTED_BY_RACE" /\ p \notin stale'
              => offer'[p] = offer[p]
<1>1. ASSUME NEW q \in Tabs, CreateOffer(q)
      PROVE  /\ NegoInv'
             /\ \A o \in Offers : offer[o].status = "REJECTED_BY_RACE" => offer'[o] = offer[o]
  BY <1>1, NegoCreateStep
<1>2. ASSUME NEW q \in Tabs, AbortDecision(q) PROVE NegoInv' /\ UNCHANGED offer
  BY <1>2, DropStep DEF AbortDecision
<1>3. ASSUME NEW q \in Tabs,
             \/ TraiterCandidatureAchat(q) \/ TraiterPropositionVente(q)
             \/ TraiterContreOffreCoop(q)
      PROVE  /\ NegoInv'
             /\ \A p \in Offers : offer[p].status = "REJECTED_BY_RACE" /\ p \notin stale'
                  => offer'[p] = offer[p]
  BY <1>3, DecideStep
     DEF TraiterCandidatureAchat, TraiterPropositionVente, TraiterContreOffreCoop
<1>4. ASSUME NEW q \in Tabs, NEW o \in Offers, NEW kg \in Terms, NEW m \in Makers,
             \/ CreateCandidatureAchat(q, m, o, kg) \/ CreatePropositionVente(q, m, o, kg)
             \/ CreateContreOffreCoop(q, m, o, kg)
      PROVE  NegoInv' /\ UNCHANGED offer
  <2>1. CheckOffer(q, m, o, kg)
    BY <1>4 DEF CreateCandidatureAchat, CreatePropositionVente, CreateContreOffreCoop
  <2> QED BY <2>1, CheckOfferStep DEF CheckOffer
<1>5. ASSUME NEW q \in Tabs, NEW o \in Offers, NEW kg \in Terms, NEW act \in Answers,
             CheckDecision(q, o, act, IF act = "COUNTER_OFFER" THEN kg ELSE 0)
      PROVE  NegoInv' /\ UNCHANGED offer
  BY <1>5, CheckDecisionStep DEF CheckDecision
<1>6. ASSUME NEW s \in Sources, ChangeSource(s) PROVE NegoInv' /\ UNCHANGED offer
  BY <1>6, SourceStep DEF ChangeSource
<1>7. CASE UNCHANGED negoVars
  <2>1. UNCHANGED <<kind, source, offer, orders, tab, stale>>
    BY <1>7 DEF negoVars
  <2>2. NegoTypeOK'
    BY <2>1 DEF NegoInv, NegoTypeOK
  <2>3. HasTerms' /\ OneOrderPerOffer' /\ TermsHonoured'
    BY <2>1 DEF NegoInv, HasTerms, OneOrderPerOffer, TermsHonoured
  <2>4. TabsHold'
    BY <2>1 DEF NegoInv, TabsHold, HoldsOffer, Creating, Deciding
  <2> QED BY <2>1, <2>2, <2>3, <2>4 DEF NegoInv
<1> QED BY <1>1, <1>2, <1>3, <1>4, <1>5, <1>6, <1>7 DEF NegoNext

LEMMA NegoInvariance == NegoSpec => []NegoInv
<1>1. NegoInv /\ [NegoNext]_negoVars => NegoInv'
  BY NegoStep
<1> QED BY <1>1, NegoInitInv, PTL DEF NegoSpec

-----------------------------------------------------------------------------
(* One offer under way                                                     *)

\* A new offer is its maker's, who had none under way when he was checked
HadNone ==
  \A q \in Tabs : tab[q].at = "create" =>
    tab[q].seen = {} /\ \E m \in Makers : tab[q].saw.by = {m}

LiveInv == NegoInv /\ HadNone /\ OneLiveOffer

\* A tab gives up its request
LEMMA HadNoneEnds ==
  ASSUME LiveInv, NEW q \in Tabs, Free(q)
  PROVE  HadNone'
<1>1. tab'[q] = NoTab /\ \A p \in Tabs \ {q} : tab'[p] = tab[p]
  BY DEF Free, LiveInv, NegoInv, NegoTypeOK
<1> QED BY <1>1, TabRestType DEF LiveInv, HadNone

\* Nothing is written: no offer comes to life
LEMMA LiveKept ==
  ASSUME LiveInv, UNCHANGED <<offer, stale>>
  PROVE  OneLiveOffer'
  BY DEF LiveInv, OneLiveOffer

\* The checks of a new offer and of an answer
LEMMA CheckLive ==
  ASSUME LiveInv, NEW q \in Tabs, NEW o \in Offers, NEW kg,
         \/ \E m \in Makers : CheckOffer(q, m, o, kg)
         \/ \E act \in Answers : CheckDecision(q, o, act, kg)
  PROVE  HadNone' /\ OneLiveOffer'
<1>1. UNCHANGED <<offer, stale>>
  BY DEF CheckOffer, CheckDecision
<1>2. ASSUME NEW m \in Makers, CheckOffer(q, m, o, kg) PROVE HadNone'
  <2> DEFINE r == [NoTab EXCEPT !.at = "create", !.of = {o}, !.kg = kg,
                                !.saw = [NoOffer EXCEPT !.by = {m}], !.seen = LiveOf(m)]
  <2>1. tab' = [tab EXCEPT ![q] = r] /\ LiveOf(m) = {}
    BY <1>2 DEF CheckOffer, EnCours
  <2>2. r.seen = {} /\ r.saw.by = {m}
    BY <2>1 DEF NoTab, NoOffer
  <2> HIDE DEF r
  <2>3. tab'[q] = r /\ \A p \in Tabs \ {q} : tab'[p] = tab[p]
    BY <2>1 DEF LiveInv, NegoInv, NegoTypeOK
  <2> QED BY <2>2, <2>3 DEF LiveInv, HadNone
<1>3. ASSUME NEW act \in Answers, CheckDecision(q, o, act, kg) PROVE HadNone'
  <2>1. tab'[q].at = "decide" /\ \A p \in Tabs \ {q} : tab'[p] = tab[p]
    BY <1>3 DEF CheckDecision, NoTab, LiveInv, NegoInv, NegoTypeOK
  <2> QED BY <2>1 DEF LiveInv, HadNone
<1> QED BY <1>1, <1>2, <1>3, LiveKept

\* The new offer is the only one of its maker, or was written on a stale reading
LEMMA CreateLive ==
  ASSUME LiveInv, NEW q \in Tabs, CreateOffer(q)
  PROVE  HadNone' /\ OneLiveOffer'
<1> DEFINE o == The(q)
           new == [status |-> "PENDING", kg |-> tab[q].kg, by |-> tab[q].saw.by]
<1>1. /\ tab[q].at = "create" /\ offer' = [offer EXCEPT ![o] = new] /\ Free(q)
      /\ stale' = IF \E m \in tab[q].saw.by : LiveOf(m) = tab[q].seen
                  THEN stale ELSE stale \cup {o}
  BY DEF CreateOffer
<1>2. o \in Offers
  BY <1>1, NamedOffer DEF LiveInv, NegoInv, TabsHold
<1>3. PICK m \in Makers : tab[q].saw.by = {m} /\ tab[q].seen = {}
  BY <1>1 DEF LiveInv, HadNone
<1>4. new.by = {m}
  BY <1>3
<1> HIDE DEF o, new
<1>5. /\ offer'[o] = new /\ \A p \in Offers \ {o} : offer'[p] = offer[p]
  BY <1>1, <1>2 DEF LiveInv, NegoInv, NegoTypeOK
<1>6. CASE LiveOf(m) = {}
  <2>1. stale' = stale
    BY <1>1, <1>3, <1>6
  <2>2. \A p \in Offers : ~(offer[p].by = {m} /\ offer[p].status \in OpenStatus)
    BY <1>6 DEF LiveOf
  <2> QED BY <1>1, <1>4, <1>5, <2>1, <2>2, HadNoneEnds DEF LiveInv, OneLiveOffer
<1>7. CASE LiveOf(m) # {}
  <2>1. stale' = stale \cup {o}
    BY <1>1, <1>3, <1>7
  <2> QED BY <1>1, <1>5, <2>1, HadNoneEnds DEF LiveInv, OneLiveOffer
<1> QED BY <1>6, <1>7

\* An answer to an offer as it was read brings none to life
LEMMA DecideLive ==
  ASSUME LiveInv, NEW q \in Tabs, Decide(q)
  PROVE  HadNone' /\ OneLiveOffer'
<1> DEFINE o == The(q)
           act == tab[q].act
           kg == IF act = "COUNTER_OFFER" THEN tab[q].kg ELSE offer[o].kg
           lost == {p \in Offers \ {o} : offer[p].status \in OpenStatus}
           makes == MakesOrder(q)
<1>1. /\ tab[q].at = "decide" /\ Free(q)
      /\ offer' = [p \in Offers |->
           IF p = o THEN [offer[p] EXCEPT !.status = act, !.kg = kg]
           ELSE IF makes /\ p \in lost THEN [offer[p] EXCEPT !.status = "REJECTED_BY_RACE"]
           ELSE offer[p]]
      /\ stale' = IF offer[o] = tab[q].saw THEN stale ELSE stale \cup {o}
  BY DEF Decide
<1>2. o \in Offers /\ tab[q].of = {o}
  BY <1>1, NamedOffer DEF LiveInv, NegoInv, TabsHold
<1>3. tab[q].saw.status \in OpenStatus
  BY <1>1 DEF LiveInv, NegoInv, TabsHold, Deciding
<1>4. /\ \A p \in Offers : offer'[p].by = offer[p].by
      /\ \A p \in Offers \ {o} : offer'[p].status \in OpenStatus => offer[p].status \in OpenStatus
  BY <1>1 DEF LiveInv, NegoInv, NegoTypeOK, OfferRows, OpenStatus
<1>5. o \notin stale' => offer[o].status \in OpenStatus
  BY <1>1, <1>3
<1>6. stale \subseteq stale'
  BY <1>1
<1> HIDE DEF o, act, kg, lost, makes
<1>7. OneLiveOffer'
  BY <1>2, <1>4, <1>5, <1>6 DEF LiveInv, OneLiveOffer
<1> QED BY <1>1, <1>7, HadNoneEnds

\* Every step leaves a party one offer under way
LEMMA LiveNext == LiveInv /\ [NegoNext]_negoVars => LiveInv'
<1> SUFFICES ASSUME LiveInv, [NegoNext]_negoVars PROVE HadNone' /\ OneLiveOffer'
  BY NegoStep DEF LiveInv
<1>1. ASSUME NEW q \in Tabs, AbortDecision(q) PROVE HadNone' /\ OneLiveOffer'
  BY <1>1, HadNoneEnds, LiveKept DEF AbortDecision
<1>2. ASSUME NEW q \in Tabs, NEW o \in Offers, NEW kg \in Terms, NEW m \in Makers,
             \/ CreateCandidatureAchat(q, m, o, kg) \/ CreatePropositionVente(q, m, o, kg)
             \/ CreateContreOffreCoop(q, m, o, kg)
      PROVE  HadNone' /\ OneLiveOffer'
  BY <1>2, CheckLive DEF CreateCandidatureAchat, CreatePropositionVente, CreateContreOffreCoop
<1>3. ASSUME NEW q \in Tabs, NEW o \in Offers, NEW kg \in Terms, NEW act \in Answers,
             CheckDecision(q, o, act, IF act = "COUNTER_OFFER" THEN kg ELSE 0)
      PROVE  HadNone' /\ OneLiveOffer'
  BY <1>3, CheckLive
<1>4. ASSUME NEW s \in Sources, ChangeSource(s) PROVE HadNone' /\ OneLiveOffer'
  BY <1>4, LiveKept DEF ChangeSource, LiveInv, HadNone
<1>5. CASE UNCHANGED negoVars
  BY <1>5, LiveKept DEF negoVars, LiveInv, HadNone
<1> QED
  BY <1>1, <1>2, <1>3, <1>4, <1>5, CreateLive, DecideLive
     DEF NegoNext, TraiterCandidatureAchat, TraiterPropositionVente, TraiterContreOffreCoop

LEMMA LiveInit == NegoInit => LiveInv
<1> SUFFICES ASSUME NegoInit PROVE HadNone /\ OneLiveOffer
  BY NegoInitInv DEF LiveInv
<1> QED BY TabRestType DEF NegoInit, HadNone, OneLiveOffer, NoOffer, OpenStatus

-----------------------------------------------------------------------------
(* The theorems                                                            *)

\* Offers, orders and requests keep their shape, and orders are for agreed terms
THEOREM NegotiationTypeCorrect == NegoSpec => []NegoTypeOK
<1>1. NegoInv => NegoTypeOK
  BY DEF NegoInv
<1> QED BY <1>1, NegoInvariance, PTL

\* However many acceptances of one offer overlap, it has at most one order
THEOREM OneOrderEach == NegoSpec => []OneOrderPerOffer
<1>1. NegoInv => OneOrderPerOffer
  BY DEF NegoInv
<1> QED BY <1>1, NegoInvariance, PTL

\* An accepted offer's order is for its last terms and no other offer has one, but
\* for an offer written on a stale reading
THEOREM TermsAreHonoured == NegoSpec => []TermsHonoured
<1>1. NegoInv => TermsHonoured
  BY DEF NegoInv
<1> QED BY <1>1, NegoInvariance, PTL

\* An offer that lost the race stays lost, but for an answer already under way
THEOREM LosersStay == NegoSpec => LosersStayLost
<1>1. NegoInv /\ [NegoNext]_negoVars =>
        [\A o \in Offers : offer[o].status = "REJECTED_BY_RACE" /\ o \notin stale'
           => offer'[o] = offer[o]]_negoVars
  BY NegoStep
<1> QED BY <1>1, NegoInvariance, PTL DEF NegoSpec, LosersStayLost

\* createCandidatureAchat and the two others look for an offer under way: the same party
\* has one at most, unless two requests overlapped or a stale answer brought one back
THEOREM OneOfferUnderWay == NegoSpec => []OneLiveOffer
<1>1. LiveInv => OneLiveOffer
  BY DEF LiveInv
<1> QED BY <1>1, LiveInit, LiveNext, PTL DEF NegoSpec

\* The four together, as the runs check them
THEOREM NegotiationIsSafe == NegoSpec => []NegoSafety
<1>1. NegoTypeOK /\ OneOrderPerOffer /\ TermsHonoured /\ OneLiveOffer => NegoSafety
  BY DEF NegoSafety
<1> QED BY <1>1, NegotiationTypeCorrect, OneOrderEach, TermsAreHonoured, OneOfferUnderWay, PTL

-----------------------------------------------------------------------------
(***************************************************************************)
(* A call for a harvest: whoever answers is counted once, unless he        *)
(* answered twice at once, and a closed call stays closed.                 *)
(*                                                                         *)
(* The sums are compared term by term: an answer that comes changes one    *)
(* term (SumRemove, SumEqual), a confirmation none.                        *)
(***************************************************************************)

\* The shapes of a call, an answer and a request
CallRow == [status : {"NONE", "OPEN", "FULFILLED", "CLOSED"}, responses : Nat, offered : Nat]
AnswerRow == [segment : {"NONE", "MEMBRES", "COOPS_VOISINES", "INDEPENDANTS"},
              action : {"NONE", "ACCEPTED", "REJECTED", "CONFIRMED_BY_COOP"},
              kg : Kilos \cup {0}, confirmed : BOOLEAN]
VisitRow == [do : {"idle", "respond", "confirm", "close"}, of : SUBSET People,
             kg : Kilos \cup {0}]

\* Before the sollicitation exists nobody was asked and nobody is on his way
Unasked ==
  call.status = "NONE" =>
    /\ Recipients = {} /\ toldSolli = {} /\ doubled = {}
    /\ \A v \in Visits : VisitFree(v)

\* An answer and a confirmation are of one recipient
OfRecipient ==
  \A v \in Visits : visit[v].do \in {"respond", "confirm"} =>
    \E p \in Recipients : visit[v].of = {p}

\* Who has not answered offers nothing, and who accepted offers something
OffersAnswered ==
  \A p \in People :
    /\ ~Responded(p) => answer[p].kg = 0 /\ ~answer[p].confirmed
    /\ answer[p].action = "ACCEPTED" => answer[p].kg > 0

\* What is about to be confirmed is an offer, but for who answered twice
ConfirmsOffer ==
  \A v \in Visits, p \in People :
    visit[v].do = "confirm" /\ visit[v].of = {p} /\ p \notin doubled =>
      answer[p].action \in {"ACCEPTED", "CONFIRMED_BY_COOP"} /\ answer[p].kg > 0

\* The invariant
SolliInv == SolliSafety /\ Unasked /\ OfRecipient /\ OffersAnswered /\ ConfirmsOffer

\* Types of the rows
SolliRows ==
  /\ call \in CallRow /\ answer \in [People -> AnswerRow]
  /\ visit \in [Visits -> VisitRow]

\* What the invariant says of them
LEMMA SolliShape ==
  ASSUME SolliInv
  PROVE  SolliRows /\ toldSolli \subseteq Recipients /\ doubled \subseteq Recipients
  BY DEF SolliInv, SolliSafety, SolliTypeOK, SolliRows, CallRow, AnswerRow, VisitRow

\* A request at rest
LEMMA NoVisitType == NoVisit \in VisitRow
  BY DEF NoVisit, VisitRow

\* A step that writes at most a request: one to answer, to confirm, to close, or none
LEMMA VisitStep ==
  ASSUME SolliInv, NEW v \in Visits, NEW w \in VisitRow,
         visit' = [visit EXCEPT ![v] = w], UNCHANGED <<call, answer, toldSolli, doubled>>,
         expired' \in BOOLEAN,
         call.status = "NONE" => w.do = "idle",
         w.do \in {"respond", "confirm"} => \E p \in Recipients : w.of = {p},
         \A p \in People : w.do = "confirm" /\ w.of = {p} =>
           answer[p].action \in {"ACCEPTED", "CONFIRMED_BY_COOP"} /\ answer[p].kg > 0
  PROVE  SolliInv'
<1>1. SolliRows
  BY SolliShape
<1>2. SolliSafety'
  BY <1>1 DEF SolliInv, SolliSafety, SolliTypeOK, TotalsAddUp, ReachedIsNotOpen, ClosedIsTold,
              ConfirmedIsOffer, Recipients, Responded, SolliRows, VisitRow
<1>3. Unasked' /\ OfRecipient' /\ OffersAnswered' /\ ConfirmsOffer'
  BY <1>1 DEF SolliInv, Unasked, OfRecipient, OffersAnswered, ConfirmsOffer, Recipients,
              Responded, SolliRows, VisitFree
<1> QED BY <1>2, <1>3 DEF SolliInv

\* The one a request is of
LEMMA VisitorIs ==
  ASSUME NEW v, NEW p \in People, visit[v].of = {p}
  PROVE  Visitor(v) = p
<1>1. \A x \in People : visit[v].of = {x} <=> x = p
  OBVIOUS
<1> QED BY <1>1 DEF Visitor

\* A call goes out: nobody answered yet
LEMMA CreateSolli ==
  ASSUME SolliInv, NEW ticked, CreateSollicitation(ticked)
  PROVE  SolliInv'
<1> DEFINE to == [p \in People |-> IF p = President THEN "NONE" ELSE Segment(p, ticked)]
<1>1. /\ call.status = "NONE" /\ call' = [status |-> "OPEN", responses |-> 0, offered |-> 0]
      /\ answer' = [p \in People |-> [NoAnswer EXCEPT !.segment = to[p]]]
      /\ UNCHANGED <<visit, expired, toldSolli, doubled>>
  BY DEF CreateSollicitation
<1>2. /\ toldSolli = {} /\ doubled = {} /\ \A v \in Visits : visit[v].do = "idle"
      /\ SolliRows
  BY <1>1, SolliShape DEF SolliInv, Unasked, VisitFree
<1>3. ASSUME NEW p \in People
      PROVE  /\ answer'[p] \in AnswerRow /\ answer'[p].action = "NONE" /\ answer'[p].kg = 0
             /\ answer'[p].confirmed = FALSE
  BY <1>1 DEF NoAnswer, AnswerRow, Segment
<1>4. answer' \in [People -> AnswerRow] /\ call' \in CallRow
  BY <1>1, <1>3 DEF CallRow
<1>5. SolliTypeOK'
  BY <1>1, <1>2, <1>4 DEF SolliInv, SolliSafety, SolliTypeOK, CallRow, AnswerRow
<1>6. TotalsAddUp'
  <2> DEFINE f == [p \in People |-> answer'[p].kg]
  <2>1. {p \in Recipients' : Responded(p)'} = {}
    BY <1>3 DEF Recipients, Responded
  <2>2. Recipients' \in SUBSET People /\ IsFiniteSet(Recipients')
    <3>1. Recipients' \in SUBSET People
      BY DEF Recipients
    <3> QED BY <3>1, SolliAssumption, FS_Subset
  <2>3. \A p \in Recipients' : f[p] = 0
    BY <1>3, <2>2
  <2> HIDE DEF f
  <2>4. SumFunctionOnSet(f, Recipients') = 0
    BY <2>2, <2>3, SumZero
  <2> QED BY <1>1, <2>1, <2>4, FS_EmptySet DEF f, TotalsAddUp
<1>7. ReachedIsNotOpen' /\ ClosedIsTold' /\ ConfirmedIsOffer'
  <2>1. ReachedIsNotOpen'
    BY <1>1, SolliAssumption DEF ReachedIsNotOpen
  <2>2. ClosedIsTold'
    BY <1>1 DEF ClosedIsTold
  <2>3. ConfirmedIsOffer'
    BY <1>3 DEF ConfirmedIsOffer, Recipients
  <2> QED BY <2>1, <2>2, <2>3
<1>8. Unasked' /\ OfRecipient' /\ OffersAnswered' /\ ConfirmsOffer'
  BY <1>1, <1>2, <1>3 DEF Unasked, OfRecipient, OffersAnswered, ConfirmsOffer, Responded
<1> QED BY <1>5, <1>6, <1>7, <1>8 DEF SolliInv, SolliSafety

\* Whoever answers is counted; if it is his first answer, so is what he offers
LEMMA RespondSolli ==
  ASSUME SolliInv, NEW v \in Visits, Respond(v)
  PROVE  SolliInv'
<1>1. PICK p \in Recipients : visit[v].of = {p}
  BY DEF SolliInv, OfRecipient, Respond
<1>2. p \in People /\ Visitor(v) = p
  BY <1>1, VisitorIs DEF Recipients
<1>3. SolliRows /\ toldSolli \subseteq Recipients /\ doubled \subseteq Recipients
  BY SolliShape
<1>4. PICK kg \in Kilos \cup {0} : kg = visit[v].kg
  BY <1>3 DEF SolliRows, VisitRow
<1>5. kg \in Nat
  BY SolliAssumption
<1>6. /\ call' = Fulfil(call, kg) /\ visit' = [visit EXCEPT ![v] = NoVisit]
      /\ doubled' = (IF Responded(p) THEN doubled \cup {p} ELSE doubled)
      /\ UNCHANGED <<expired, toldSolli>>
  BY <1>2, <1>4 DEF Respond, VisitEnds
<1>7. /\ \A q \in People \ {p} : answer'[q] = answer[q]
      /\ answer'[p].action = (IF kg = 0 THEN "REJECTED" ELSE "ACCEPTED")
      /\ answer'[p].kg = kg /\ answer'[p].segment = answer[p].segment
      /\ answer'[p].confirmed = answer[p].confirmed
      /\ answer' \in [People -> AnswerRow]
  <2>1. answer' = [answer EXCEPT ![p].action = IF kg = 0 THEN "REJECTED" ELSE "ACCEPTED",
                                 ![p].kg = kg]
    BY <1>2, <1>4 DEF Respond
  <2>2. answer[p] \in AnswerRow
    BY <1>2, <1>3 DEF SolliRows
  <2> QED BY <1>2, <1>3, <2>1, <2>2 DEF SolliRows, AnswerRow
<1>8. /\ call'.responses = call.responses + 1 /\ call'.offered = call.offered + kg
      /\ call' \in CallRow
      /\ call'.status = (IF call.status = "OPEN" /\ call'.offered >= Asked THEN "FULFILLED"
                         ELSE call.status)
  <2>1. /\ Counted(call, kg).responses = call.responses + 1
        /\ Counted(call, kg).offered = call.offered + kg
        /\ Counted(call, kg).status = call.status /\ Counted(call, kg) \in CallRow
    <3> DEFINE c == [call EXCEPT !.responses = @ + 1]
    <3>1. /\ c \in CallRow /\ c.responses = call.responses + 1
          /\ c.offered = call.offered /\ c.status = call.status
      BY <1>3 DEF SolliRows, CallRow
    <3>2. Counted(call, kg) = [c EXCEPT !.offered = @ + kg]
      BY DEF Counted
    <3> HIDE DEF c
    <3> QED BY <1>5, <3>1, <3>2 DEF CallRow
  <2> QED BY <1>6, <2>1 DEF Fulfil, CallRow
<1>9. Recipients' = Recipients
  BY <1>7 DEF Recipients
<1>10. visit' \in [Visits -> VisitRow] /\ call.status # "NONE"
  BY <1>3, <1>6, NoVisitType DEF SolliRows, SolliInv, Unasked, VisitFree, Respond
<1>11. SolliTypeOK'
  BY <1>3, <1>6, <1>7, <1>8, <1>9, <1>10
     DEF SolliInv, SolliSafety, SolliTypeOK, CallRow, AnswerRow, VisitRow
<1>12. TotalsAddUp'
  <2> SUFFICES ASSUME doubled' = {}
               PROVE  /\ call'.responses = Cardinality({q \in Recipients' : Responded(q)'})
                      /\ call'.offered = SumFunctionOnSet([q \in People |-> answer'[q].kg],
                                                          Recipients')
    BY DEF TotalsAddUp
  <2> DEFINE f == [q \in People |-> answer[q].kg]
             g == [q \in People |-> answer'[q].kg]
             S == {q \in Recipients : Responded(q)}
  <2>1. ~Responded(p) /\ doubled = {}
    BY <1>6
  <2>2. /\ call.responses = Cardinality(S)
        /\ call.offered = SumFunctionOnSet(f, Recipients)
    BY <2>1 DEF SolliInv, SolliSafety, TotalsAddUp
  <2>3. Recipients \in SUBSET People /\ IsFiniteSet(Recipients) /\ IsFiniteSet(S)
    <3>1. Recipients \in SUBSET People /\ S \in SUBSET People
      BY DEF Recipients
    <3> QED BY <3>1, SolliAssumption, FS_Subset
  <2>4. {q \in Recipients' : Responded(q)'} = S \cup {p}
    BY <1>7, <1>9, <2>3 DEF Responded
  <2>5. Cardinality(S \cup {p}) = Cardinality(S) + 1
    BY <2>1, <2>3, FS_AddElement
  <2>6. /\ f[p] = 0 /\ g[p] = kg /\ \A q \in Recipients \ {p} : f[q] = g[q]
        /\ \A q \in Recipients : f[q] \in Int /\ g[q] \in Int
    <3>1. answer[p].kg = 0
      BY <1>2, <2>1 DEF SolliInv, OffersAnswered
    <3>2. \A r \in AnswerRow : r.kg \in Nat
      <4>1. \A k \in Kilos \cup {0} : k \in Nat
        BY SolliAssumption
      <4>2. \A r \in AnswerRow : r.kg \in Kilos \cup {0}
        BY DEF AnswerRow
      <4> QED BY <4>1, <4>2
    <3>3. \A q \in People : answer[q] \in AnswerRow /\ answer'[q] \in AnswerRow
      BY <1>3, <1>7 DEF SolliRows
    <3>4. \A q \in People : answer[q].kg \in Nat /\ answer'[q].kg \in Nat
      BY <3>2, <3>3
    <3> QED BY <1>2, <1>7, <2>3, <3>1, <3>4
  <2> HIDE DEF f, g, S
  <2>7. SumFunctionOnSet(g, Recipients) = SumFunctionOnSet(f, Recipients) + kg
    <3>1. Ints(f, Recipients) /\ Ints(g, Recipients)
      BY <2>6 DEF Ints
    <3>2. /\ SumFunctionOnSet(f, Recipients) = f[p] + SumFunctionOnSet(f, Recipients \ {p})
          /\ SumFunctionOnSet(g, Recipients) = g[p] + SumFunctionOnSet(g, Recipients \ {p})
      BY <2>3, <3>1, SumRemove
    <3>3. IsFiniteSet(Recipients \ {p}) /\ Ints(f, Recipients \ {p}) /\ Ints(g, Recipients \ {p})
      <4>1. Recipients \ {p} \in SUBSET Recipients
        OBVIOUS
      <4> QED BY <2>3, <3>1, <4>1, FS_Subset DEF Ints
    <3>4. SumFunctionOnSet(f, Recipients \ {p}) = SumFunctionOnSet(g, Recipients \ {p})
      BY <2>6, <3>3, SumEqual
    <3>5. SumFunctionOnSet(f, Recipients \ {p}) \in Int
      BY <3>3, SumType
    <3> QED BY <1>5, <2>6, <3>2, <3>4, <3>5
  <2> QED BY <1>8, <1>9, <2>2, <2>4, <2>5, <2>7 DEF g
<1>13. ReachedIsNotOpen'
  BY <1>8 DEF ReachedIsNotOpen
<1>14. ClosedIsTold'
  BY <1>6, <1>7, <1>8, <1>9 DEF SolliInv, SolliSafety, ClosedIsTold, Responded, Recipients
<1>15. ConfirmedIsOffer'
  BY <1>2, <1>6, <1>7, <1>9
     DEF SolliInv, SolliSafety, ConfirmedIsOffer, OffersAnswered, Recipients
<1>16. Unasked' /\ OffersAnswered'
  BY <1>2, <1>5, <1>7, <1>8, <1>10 DEF SolliInv, Unasked, OffersAnswered, Responded
<1>17. OfRecipient'
  BY <1>3, <1>6, <1>9 DEF SolliInv, OfRecipient, NoVisit, SolliRows
<1>18. ConfirmsOffer'
  <2> SUFFICES ASSUME NEW w \in Visits, NEW q \in People,
                      visit'[w].do = "confirm", visit'[w].of = {q}, q \notin doubled'
               PROVE  answer'[q].action \in {"ACCEPTED", "CONFIRMED_BY_COOP"} /\ answer'[q].kg > 0
    BY DEF ConfirmsOffer
  <2>1. visit[w].do = "confirm" /\ visit[w].of = {q}
    BY <1>3, <1>6 DEF NoVisit, SolliRows
  <2>2. q \notin doubled
    BY <1>6
  <2>3. answer[q].action \in {"ACCEPTED", "CONFIRMED_BY_COOP"} /\ answer[q].kg > 0
    BY <2>1, <2>2 DEF SolliInv, ConfirmsOffer
  <2>4. q # p
    BY <1>6, <2>3 DEF Responded
  <2> QED BY <1>7, <2>3, <2>4
<1> QED BY <1>11, <1>12, <1>13, <1>14, <1>15, <1>16, <1>17, <1>18 DEF SolliInv, SolliSafety

\* An offer is confirmed: the totals stay
LEMMA ConfirmSolli ==
  ASSUME SolliInv, NEW v \in Visits, Confirm(v)
  PROVE  SolliInv'
<1>1. PICK p \in Recipients : visit[v].of = {p}
  BY DEF SolliInv, OfRecipient, Confirm
<1>2. p \in People /\ Visitor(v) = p
  BY <1>1, VisitorIs DEF Recipients
<1>3. SolliRows /\ toldSolli \subseteq Recipients /\ doubled \subseteq Recipients
  BY SolliShape
<1>4. /\ visit' = [visit EXCEPT ![v] = NoVisit]
      /\ UNCHANGED <<call, expired, toldSolli, doubled>>
  BY DEF Confirm, VisitEnds
<1>5. /\ \A q \in People \ {p} : answer'[q] = answer[q]
      /\ answer'[p].action = "CONFIRMED_BY_COOP" /\ answer'[p].confirmed = TRUE
      /\ answer'[p].kg = answer[p].kg /\ answer'[p].segment = answer[p].segment
      /\ answer' \in [People -> AnswerRow]
  <2>1. answer' = [answer EXCEPT ![p].action = "CONFIRMED_BY_COOP", ![p].confirmed = TRUE]
    BY <1>2 DEF Confirm
  <2>2. answer[p] \in AnswerRow
    BY <1>2, <1>3 DEF SolliRows
  <2> QED BY <1>2, <1>3, <2>1, <2>2 DEF SolliRows, AnswerRow
<1>6. Recipients' = Recipients
  BY <1>5 DEF Recipients
<1>7. visit' \in [Visits -> VisitRow] /\ call.status # "NONE"
  BY <1>3, <1>4, NoVisitType DEF SolliRows, SolliInv, Unasked, VisitFree, Confirm
<1>8. doubled = {} => answer[p].action \in {"ACCEPTED", "CONFIRMED_BY_COOP"}
  BY <1>1, <1>2 DEF SolliInv, ConfirmsOffer, Confirm
<1>9. SolliTypeOK'
  BY <1>3, <1>4, <1>5, <1>6, <1>7
     DEF SolliInv, SolliSafety, SolliTypeOK, CallRow, AnswerRow, VisitRow
<1>10. TotalsAddUp'
  <2> SUFFICES ASSUME doubled' = {}
               PROVE  /\ call'.responses = Cardinality({q \in Recipients' : Responded(q)'})
                      /\ call'.offered = SumFunctionOnSet([q \in People |-> answer'[q].kg],
                                                          Recipients')
    BY DEF TotalsAddUp
  <2>1. {q \in Recipients' : Responded(q)'} = {q \in Recipients : Responded(q)}
    BY <1>4, <1>5, <1>6, <1>8 DEF Responded, Recipients
  <2>2. [q \in People |-> answer'[q].kg] = [q \in People |-> answer[q].kg]
    BY <1>5
  <2> QED BY <1>4, <1>6, <2>1, <2>2 DEF SolliInv, SolliSafety, TotalsAddUp
<1>11. ReachedIsNotOpen' /\ ClosedIsTold'
  BY <1>4, <1>5, <1>6
     DEF SolliInv, SolliSafety, ReachedIsNotOpen, ClosedIsTold, Responded, Recipients
<1>12. ConfirmedIsOffer'
  BY <1>1, <1>2, <1>4, <1>5, <1>6
     DEF SolliInv, SolliSafety, ConfirmedIsOffer, ConfirmsOffer, Recipients, Confirm
<1>13. Unasked' /\ OffersAnswered'
  BY <1>2, <1>4, <1>5, <1>7 DEF SolliInv, Unasked, OffersAnswered, Responded
<1>14. OfRecipient' /\ ConfirmsOffer'
  BY <1>1, <1>2, <1>3, <1>4, <1>5, <1>6
     DEF SolliInv, OfRecipient, ConfirmsOffer, NoVisit, SolliRows
<1> QED BY <1>9, <1>10, <1>11, <1>12, <1>13, <1>14 DEF SolliInv, SolliSafety

\* The call is closed, and everybody told
LEMMA CloseSolli ==
  ASSUME SolliInv, NEW v \in Visits, Close(v)
  PROVE  SolliInv'
<1>1. SolliRows /\ toldSolli \subseteq Recipients /\ doubled \subseteq Recipients
  BY SolliShape
<1>2. /\ call' = [call EXCEPT !.status = "CLOSED"]
      /\ toldSolli' = toldSolli \cup {p \in Recipients : ~Responded(p)}
      /\ visit' = [visit EXCEPT ![v] = NoVisit]
      /\ UNCHANGED <<answer, expired, doubled>>
  BY DEF Close, VisitEnds, ToTell
<1>3. /\ call' \in CallRow /\ call'.status = "CLOSED"
      /\ call'.responses = call.responses /\ call'.offered = call.offered
  BY <1>1, <1>2 DEF SolliRows, CallRow
<1>4. visit' \in [Visits -> VisitRow] /\ Recipients' = Recipients
  BY <1>1, <1>2, NoVisitType DEF SolliRows, Recipients
<1>5. SolliTypeOK'
  BY <1>1, <1>2, <1>3, <1>4
     DEF SolliInv, SolliSafety, SolliTypeOK, CallRow, AnswerRow, VisitRow
<1>6. TotalsAddUp' /\ ReachedIsNotOpen' /\ ClosedIsTold' /\ ConfirmedIsOffer'
  BY <1>2, <1>3, <1>4 DEF SolliInv, SolliSafety, TotalsAddUp, ReachedIsNotOpen, ClosedIsTold,
                          ConfirmedIsOffer, Responded
<1>7. Unasked' /\ OfRecipient' /\ OffersAnswered' /\ ConfirmsOffer'
  BY <1>1, <1>2, <1>3, <1>4 DEF SolliInv, Unasked, OfRecipient, OffersAnswered, ConfirmsOffer,
                                Responded, NoVisit, SolliRows
<1> QED BY <1>5, <1>6, <1>7 DEF SolliInv, SolliSafety

\* Each step preserves the invariant
LEMMA SolliNextInv == SolliInv /\ [SolliNext]_solliVars => SolliInv'
<1> SUFFICES ASSUME SolliInv, [SolliNext]_solliVars PROVE SolliInv'
  OBVIOUS
<1>0. SolliRows /\ \A p \in Recipients : p \in People
  BY SolliShape DEF Recipients
<1>1. ASSUME NEW v \in Visits, NEW p \in People, NEW kg \in Kilos \cup {0},
             CheckRespond(v, p, kg)
      PROVE  SolliInv'
  <2> DEFINE w == [do |-> "respond", of |-> {p}, kg |-> kg]
  <2>1. /\ w \in VisitRow /\ w.do = "respond" /\ w.of = {p} /\ p \in Recipients
        /\ visit' = [visit EXCEPT ![v] = w] /\ UNCHANGED <<call, answer, toldSolli, doubled>>
        /\ expired' \in BOOLEAN /\ call.status # "NONE"
    BY <1>1 DEF CheckRespond, VisitRow, SolliInv, SolliSafety, SolliTypeOK
  <2> HIDE DEF w
  <2> QED BY <2>1, VisitStep
<1>2. ASSUME NEW v \in Visits, NEW p \in People, CheckConfirm(v, p) PROVE SolliInv'
  <2> DEFINE w == [do |-> "confirm", of |-> {p}, kg |-> 0]
  <2>1. /\ w \in VisitRow /\ w.do = "confirm" /\ w.of = {p} /\ p \in Recipients
        /\ visit' = [visit EXCEPT ![v] = w] /\ UNCHANGED <<call, answer, toldSolli, doubled>>
        /\ expired' \in BOOLEAN /\ answer[p].action = "ACCEPTED"
    BY <1>2 DEF CheckConfirm, Confirmable, VisitRow, SolliInv, SolliSafety, SolliTypeOK
  <2>2. call.status # "NONE"
    BY <2>1 DEF SolliInv, Unasked
  <2>3. answer[p].kg > 0
    BY <2>1 DEF SolliInv, OffersAnswered
  <2> HIDE DEF w
  <2>4. \A q \in People : w.of = {q} => q = p
    BY <2>1
  <2> QED BY <2>1, <2>2, <2>3, <2>4, VisitStep
<1>3. ASSUME NEW v \in Visits, CheckClose(v) PROVE SolliInv'
  <2> DEFINE w == [NoVisit EXCEPT !.do = "close"]
  <2>1. /\ w \in VisitRow /\ w.do = "close"
        /\ visit' = [visit EXCEPT ![v] = w] /\ UNCHANGED <<call, answer, toldSolli, doubled>>
        /\ expired' \in BOOLEAN /\ call.status # "NONE"
    BY <1>3 DEF CheckClose, NoVisit, VisitRow, SolliInv, SolliSafety, SolliTypeOK
  <2> HIDE DEF w
  <2> QED BY <2>1, VisitStep
<1>4. ASSUME UNCHANGED <<call, answer, visit, toldSolli, doubled>>, expired' \in BOOLEAN
      PROVE  SolliInv'
  BY <1>0, <1>4 DEF SolliInv, SolliSafety, SolliTypeOK, TotalsAddUp, ReachedIsNotOpen,
     ClosedIsTold, ConfirmedIsOffer, Recipients, Responded, Unasked, OfRecipient,
     OffersAnswered, ConfirmsOffer, VisitFree
<1>5. SolliExpires => SolliInv'
  BY <1>4 DEF SolliExpires
<1>6. UNCHANGED solliVars => SolliInv'
  BY <1>4 DEF solliVars, SolliInv, SolliSafety, SolliTypeOK
<1> QED BY <1>1, <1>2, <1>3, <1>5, <1>6, CreateSolli, RespondSolli, ConfirmSolli, CloseSolli,
           Zenon DEF SolliNext

\* The invariant holds at first
LEMMA SolliInitInv == SolliInit => SolliInv
<1> SUFFICES ASSUME SolliInit PROVE SolliInv
  OBVIOUS
<1>1. Recipients = {} /\ \A p \in People : answer[p] = NoAnswer
  BY DEF SolliInit, Recipients, NoAnswer
<1>2. SolliTypeOK
  BY <1>1 DEF SolliInit, SolliTypeOK, NoAnswer, NoVisit
<1>3. TotalsAddUp
  <2>1. {p \in Recipients : Responded(p)} = {} /\ Recipients = {}
    BY <1>1
  <2> QED BY <2>1, SumEmpty, FS_EmptySet DEF SolliInit, TotalsAddUp
<1> QED BY <1>1, <1>2, <1>3 DEF SolliInit, SolliInv, SolliSafety, ReachedIsNotOpen, ClosedIsTold,
      ConfirmedIsOffer, Unasked, OfRecipient, OffersAnswered, ConfirmsOffer, NoVisit, NoAnswer,
      Responded, VisitFree

\* So it always holds
LEMMA SolliInvariance == SolliSpec => []SolliInv
  BY SolliInitInv, SolliNextInv, PTL DEF SolliSpec

\* For any number of people and requests: as long as nobody answered twice at once the
\* answers counted and the kilos offered are those of the recipients, a call that reached
\* its quantity is not open, a closed one was told to all, and only offers are confirmed
\* (SollicitationsService)
THEOREM AnswersAddUp == SolliSpec => []SolliSafety
<1>1. SolliInv => SolliSafety
  BY DEF SolliInv
<1> QED BY <1>1, SolliInvariance, PTL

\* A closed call stays closed, whoever answers late (respond, close)
THEOREM ClosedForGood == SolliSpec => ClosedStaysClosed
<1>1. SolliInv /\ [SolliNext]_solliVars
        => [call.status = "CLOSED" => call'.status = "CLOSED"]_solliVars
  <2> SUFFICES ASSUME SolliInv, [SolliNext]_solliVars, call.status = "CLOSED"
               PROVE  call'.status = "CLOSED"
    BY Zenon
  <2>0. call \in CallRow
    BY SolliShape DEF SolliRows
  <2>1. ASSUME NEW v \in Visits, Respond(v) PROVE call'.status = "CLOSED"
    <3>1. call' = Counted(call, visit[v].kg)
      BY <2>1 DEF Respond, Fulfil
    <3> QED BY <2>0, <3>1 DEF Counted, CallRow
  <2>2. ASSUME NEW v \in Visits, Close(v) PROVE call'.status = "CLOSED"
    BY <2>0, <2>2 DEF Close, CallRow
  <2>3. call' = call \/ \E v \in Visits : Respond(v) \/ Close(v)
    BY Zenon DEF SolliNext, CreateSollicitation, SolliExpires, Confirm, CheckClose,
       CheckConfirm, CheckRespond, solliVars
  <2> QED BY <2>1, <2>2, <2>3
<1> QED BY <1>1, SolliInvariance, PTL DEF SolliSpec, ClosedStaysClosed

-----------------------------------------------------------------------------
(***************************************************************************)
(* The sales of a cooperative. A request has read rows that nobody changed *)
(* meanwhile, or requests overlapped: so a listing has one contribution,   *)
(* what its member was paid is the amount of it, and an advance was asked  *)
(* of a listing worth it.                                                  *)
(*                                                                         *)
(* The parts are rounded to four decimals and the shares to a franc, so    *)
(* the shares of a publication do not add up to what is distributed;       *)
(* ShareBounds says how far one of them is from the exact one, and         *)
(* PartsAddUp sums the distances.                                          *)
(***************************************************************************)

\* The rows of a harvest: what was declared, what was weighed, what became of it
ListingRows == [coop : CoopStatus \cup {"GONE"}, kg : Nat, weighed : Nat]
\* The advances on a listing: what is still due and what was taken back of the shares
AdvRows == [due : Nat, back : Nat]
\* A publication: its kilos, those sold, and what is to be distributed (-1 before)
PubRows == [at : {"NONE", "ACTIVE", "SOLD", "DELETED"}, kg : Nat, sold : Nat, shared : Int]
\* A contribution to a publication, and what it was paid
Shares == [pub : Pubs, of : Listings, part : Nat, paid : BOOLEAN, amount : Nat, gross : Nat]

\* What a request may have read: a listing, its advances, a line of a breakdown
DeskReadings == Listings \X (ListingRows \cup [due : Nat] \cup [due : Nat, line : Shares])
\* A request under way: what it is about, and what it has read
DeskOrders == [do : {"idle", "attach", "update", "delete", "validate", "reject", "aggregate",
                 "advance", "distribute"},
           of : SUBSET Listings, pub : SUBSET Pubs, kg : Nat, saw : SUBSET DeskReadings]

\* The rows of a state
SaleRows ==
  /\ listing \in [Listings -> ListingRows]
  /\ pub \in [Pubs -> PubRows]
  /\ contrib \in SUBSET Shares /\ IsFiniteSet(contrib)
  /\ adv \in [Listings -> AdvRows] /\ got \in [Listings -> Nat] /\ chest \in Nat
  /\ desk \in [Desks -> DeskOrders]
  /\ twist \subseteq {"overlap", "deleted", "late"}

\* The member changes a listing that was refused, and no other
MemberOrder(k) ==
  /\ k.do \in {"idle", "attach", "update", "delete"}
  /\ k.do # "idle" => \E l \in Listings : k.of = {l}
  /\ k.do \in {"update", "delete"} =>
       \A l \in k.of : \E row \in ListingRows : row.coop = "REJECTED" /\ k.saw = {<<l, row>>}

\* The line of a breakdown, as it was computed of what was read
Computed(r, k) ==
  /\ r[2].line.of = r[1] /\ k.pub = {r[2].line.pub} /\ r[2].line.paid
  /\ r[2].line.gross = Gross(r[2].line, k.kg)
  /\ r[2].line.amount = Max({0, r[2].line.gross - r[2].due})

\* A request of the staff read what it judges, groups, advances or distributes
StaffOrder(k) ==
  /\ k.do \in {"idle", "validate", "reject", "aggregate", "advance", "distribute"}
  /\ k.do \in {"validate", "reject", "advance"} => \E l \in Listings : k.of = {l}
  /\ k.do = "validate" =>
       /\ k.kg \in Weights
       /\ \A l \in k.of : \E row \in ListingRows : row.coop = "PENDING" /\ k.saw = {<<l, row>>}
  /\ k.do = "reject" =>
       \A l \in k.of : \E row \in ListingRows :
         row.coop \in {"PENDING", "VALIDATED", "REJECTED"} /\ k.saw = {<<l, row>>}
  /\ k.do = "aggregate" =>
       /\ k.of # {}
       /\ \E f \in [k.of -> ListingRows] :
            /\ k.saw = {<<l, f[l]>> : l \in k.of}
            /\ \A l \in k.of : f[l].coop = "VALIDATED" /\ f[l].weighed > 0
  /\ k.do = "advance" => \A l \in k.of : \E n \in Nat : k.saw = {<<l, [due |-> n]>>}
  /\ k.do = "distribute" =>
       /\ \E p \in Pubs : k.pub = {p}
       /\ k.saw \in SUBSET (Listings \X [due : Nat, line : Shares])
       /\ IsFiniteSet(k.saw) /\ k.saw # {}
       /\ \A r \in k.saw : Computed(r, k)

\* Who is at a desk does what that desk may do
SaleSeats == MemberOrder(desk["member"]) /\ \A d \in Staff : StaffOrder(desk[d])

\* A listing that is being inserted is nobody else's business
Inserting ==
  /\ Doing("member", "attach") => \A l \in desk["member"].of : listing[l].coop = "NULL"
  /\ \A l \in Listings : listing[l].coop = "NULL" =>
       /\ Doing("member", "attach") /\ desk["member"].of = {l}
       /\ \A d \in Staff : l \notin desk[d].of

\* The contributions are of listings that are in a publication, one of each
Contributed ==
  "overlap" \notin twist =>
    /\ \A c \in contrib : listing[c.of].coop = "INCLUDED"
    /\ \A c, e \in contrib : c.of = e.of => c = e

\* A listing without an advance
NoAdvance == [due |-> 0, back |-> 0]
\* An amount is within the value of what was declared, or of what was weighed
WithinValue(n, row) == n <= Price * row.kg \/ n <= Price * row.weighed

\* The advances on a listing, paid and about to be paid
Advanced ==
  twist = {} => \A l \in Listings :
    /\ listing[l].coop = "GONE" => listing[l] = NoListing /\ adv[l] = NoAdvance
    /\ listing[l].coop = "NULL" => listing[l].weighed = 0 /\ adv[l] = NoAdvance
    /\ listing[l].coop = "PENDING" => listing[l].weighed = 0
    /\ listing[l].coop \in {"VALIDATED", "INCLUDED"} => listing[l].weighed > 0
    /\ listing[l].coop \in {"PENDING", "VALIDATED", "INCLUDED"} =>
         /\ WithinValue(adv[l].due, listing[l])
         /\ \A d \in Staff : Doing(d, "advance") /\ desk[d].of = {l} =>
              \A r \in desk[d].saw : WithinValue(r[2].due + Advance, listing[l])

\* What was paid to the members
PaidOut ==
  twist = {} =>
    /\ \A l \in Listings : (\A c \in contrib : c.of # l) => got[l] = 0 /\ adv[l].back = 0
    /\ \A c \in contrib :
         /\ got[c.of] = c.amount
         /\ ~c.paid => c.amount = 0 /\ adv[c.of].back = 0
         /\ c.paid => c.amount = Max({0, c.gross - adv[c.of].back}) /\ adv[c.of].due = 0

\* What was aggregated into a publication
ListingsOf(p) == {l \in Listings : \E c \in contrib : c.pub = p /\ c.of = l}
\* What each listing weighed
WeighedAt == [l \in Listings |-> listing[l].weighed]
\* What the listings of a publication weigh together
WeightOf(p) == SumFunctionOnSet(WeighedAt, ListingsOf(p))
\* A part is the weight of its listing over that of the publication, and a share is computed of it
Parted ==
  twist = {} =>
    /\ \A c \in contrib :
         /\ pub[c.pub].at # "NONE"
         /\ c.part = Rounded(10000 * listing[c.of].weighed, WeightOf(c.pub))
         /\ c.paid => pub[c.pub].shared \in Nat /\ c.gross = Gross(c, pub[c.pub].shared)
         /\ ~c.paid => pub[c.pub].shared = -1
    /\ \A p \in Pubs : pub[p].at = "NONE" => pub[p].shared = -1

\* The inductive invariant of the sales
SaleInv == SaleRows /\ SaleSeats /\ Inserting /\ Contributed /\ Advanced /\ PaidOut /\ Parted

-----------------------------------------------------------------------------

\* Rounding moves a quotient by half at most (Prisma's Decimal, toFixed)
LEMMA RoundedBounds ==
  ASSUME NEW n \in Nat, NEW d \in Nat \ {0}
  PROVE  /\ Rounded(n, d) \in Nat
         /\ 2 * d * Rounded(n, d) <= 2 * n + d /\ 2 * n <= 2 * d * Rounded(n, d) + d
<1> DEFINE q == (2 * n + d) \div (2 * d)
<1>1. ASSUME NEW a \in Nat, NEW b \in Nat \ {0}
      PROVE  a \div b \in Nat /\ b * (a \div b) <= a /\ a < b * (a \div b) + b
  OBVIOUS
<1>2. 2 * n + d \in Nat /\ 2 * d \in Nat \ {0}
  OBVIOUS
<1>3. q \in Nat /\ (2 * d) * q <= 2 * n + d /\ 2 * n + d < (2 * d) * q + 2 * d
  BY <1>1, <1>2
<1> QED BY <1>3 DEF Rounded

\* The larger of a number and zero is a natural number
LEMMA MaxWithZero ==
  ASSUME NEW x \in Int
  PROVE  Max({0, x}) \in Nat
  BY DEF Max

\* A product of natural numbers grows with its second term
LEMMA Mul ==
  ASSUME NEW a \in Nat, NEW b \in Nat
  PROVE  a * b \in Nat /\ \A x \in Nat : x <= b => a * x <= a * b
  OBVIOUS

\* g is k times f
Scaled(g, k, f, S) == \A x \in S : g[x] = k * f[x]

\* A factor common to all the terms of a sum
LEMMA SumScale ==
  ASSUME NEW S, IsFiniteSet(S), NEW f, Ints(f, S), NEW k \in Int, NEW g, Scaled(g, k, f, S)
  PROVE  SumFunctionOnSet(g, S) = k * SumFunctionOnSet(f, S)
<1> DEFINE G == {T \in SUBSET S : SumFunctionOnSet(g, T) = k * SumFunctionOnSet(f, T)}
<1>1. {} \in G
  BY SumEmpty
<1>2. ASSUME NEW T \in SUBSET S, NEW x \in S \ T, T \in G
      PROVE  T \cup {x} \in G
  <2>1. IsFiniteSet(T)
    BY FS_Subset
  <2>2. Ints(f, T \cup {x}) /\ Ints(g, T \cup {x}) /\ Ints(f, T) /\ Ints(g, T)
    BY DEF Ints, Scaled
  <2>3. /\ SumFunctionOnSet(f, T \cup {x}) = f[x] + SumFunctionOnSet(f, T)
        /\ SumFunctionOnSet(g, T \cup {x}) = g[x] + SumFunctionOnSet(g, T)
    BY <2>1, <2>2, SumAdd
  <2>4. SumFunctionOnSet(f, T) \in Int /\ SumFunctionOnSet(g, T) \in Int
    BY <2>1, <2>2, SumType
  <2>5. f[x] \in Int /\ g[x] = k * f[x]
    BY DEF Ints, Scaled
  <2>6. k * (f[x] + SumFunctionOnSet(f, T)) = k * f[x] + k * SumFunctionOnSet(f, T)
    BY <2>4, <2>5
  <2> QED BY <1>2, <2>3, <2>4, <2>5, <2>6
<1>3. S \in G
  <2> HIDE DEF G
  <2> QED BY <1>1, <1>2, FiniteInduction
<1> QED BY <1>3

\* The commission of a cooperative is no more than the price: what is left is distributed
LEMMA CommissionFits ==
  ASSUME SaleRows, NEW p \in Pubs
  PROVE  Distributable(p) \in Nat
<1> DEFINE total == pub[p].kg * Price
<1>1. total \in Nat
  BY SaleAssumption DEF SaleRows, PubRows
<1>2. total * Rate \in Nat /\ total * Rate <= total * 100
  BY <1>1, SaleAssumption, Mul
<1> HIDE DEF total
<1>3. Rounded(total * Rate, 100) \in Nat /\ 200 * Rounded(total * Rate, 100) <= 2 * (total * Rate) + 100
  BY <1>2, RoundedBounds
<1>4. Rounded(total * Rate, 100) <= total
  BY <1>1, <1>2, <1>3
<1> QED BY <1>1, <1>3, <1>4 DEF Distributable, total

\* A share is a whole number of francs
LEMMA GrossType ==
  ASSUME NEW c \in Shares, NEW n \in Nat
  PROVE  Gross(c, n) \in Nat
<1>1. n * c.part \in Nat
  BY Mul DEF Shares
<1> QED BY <1>1, RoundedBounds DEF Gross

\* Being idle is something every desk may do
LEMMA RestOrder == NoOrder \in DeskOrders /\ MemberOrder(NoOrder) /\ StaffOrder(NoOrder)
  BY DEF NoOrder, DeskOrders, MemberOrder, StaffOrder

\* One request goes on
Turns(d, k) ==
  /\ k \in DeskOrders /\ desk' = [desk EXCEPT ![d] = k]
  /\ IF d = "member" THEN MemberOrder(k) ELSE StaffOrder(k)

\* A request that goes on leaves the other desks as they were
LEMMA SeatStep ==
  ASSUME SaleInv, NEW d \in Desks, NEW k, Turns(d, k)
  PROVE  /\ desk' \in [Desks -> DeskOrders] /\ SaleSeats'
         /\ desk'[d] = k /\ \A e \in Desks : e # d => desk'[e] = desk[e]
<1>1. /\ desk' \in [Desks -> DeskOrders] /\ desk'[d] = k
      /\ \A e \in Desks : e # d => desk'[e] = desk[e]
  BY DEF SaleInv, SaleRows, Turns
<1>2. "member" \notin Staff /\ "member" \in Desks /\ Staff \subseteq Desks
  BY SaleAssumption DEF Desks
<1>3. MemberOrder(desk'["member"])
  BY <1>1, <1>2 DEF SaleInv, SaleSeats, Turns
<1>4. ASSUME NEW e \in Staff PROVE StaffOrder(desk'[e])
  BY <1>1, <1>2 DEF SaleInv, SaleSeats, Turns
<1> QED BY <1>1, <1>3, <1>4 DEF SaleSeats

\* A request that was answered leaves its desk idle
LEMMA AnswerStep ==
  ASSUME SaleInv, NEW d \in Desks, Answer(d)
  PROVE  Turns(d, NoOrder)
  BY RestOrder DEF Turns, Answer

\* What is not disturbed
SameBooks ==
  twist' = {} => /\ twist = {} /\ contrib' = contrib
                 /\ \A c \in contrib : listing'[c.of].weighed = listing[c.of].weighed
                 /\ \A p \in Pubs : /\ pub'[p].shared = pub[p].shared
                                    /\ pub'[p].at = "NONE" <=> pub[p].at = "NONE"

\* A publication of the same listings, weighed as they were, weighs the same
LEMMA SameWeight ==
  ASSUME SaleRows, SaleRows', NEW p \in Pubs, NEW q \in Pubs, ListingsOf(p)' = ListingsOf(q),
         \A l \in ListingsOf(q) : listing'[l].weighed = listing[l].weighed
  PROVE  WeightOf(p)' = WeightOf(q)
<1> DEFINE S == ListingsOf(q)
           f == WeighedAt
           g == WeighedAt'
<1>1. IsFiniteSet(S)
  BY SaleAssumption, FS_Subset DEF ListingsOf
<1>2. Ints(f, S) /\ \A x \in S : f[x] = g[x]
  BY DEF WeighedAt, Ints, ListingsOf, SaleRows, ListingRows
<1> HIDE DEF S, f, g
<1>3. SumFunctionOnSet(f, S) = SumFunctionOnSet(g, S)
  BY <1>1, <1>2, SumEqual
<1> QED BY <1>3 DEF WeightOf, S, f, g

\* A step that leaves contributions and weights alone leaves the parts true
LEMMA PartedKept ==
  ASSUME SaleInv, SaleRows', SameBooks
  PROVE  Parted'
<1> SUFFICES ASSUME twist' = {} PROVE Parted'
  BY DEF Parted
<1>1. /\ twist = {} /\ contrib' = contrib
      /\ \A c \in contrib : listing'[c.of].weighed = listing[c.of].weighed
      /\ \A p \in Pubs : /\ pub'[p].shared = pub[p].shared
                         /\ pub'[p].at = "NONE" <=> pub[p].at = "NONE"
  BY DEF SameBooks
<1>2. SaleRows /\ Parted
  BY DEF SaleInv
<1>3. ASSUME NEW p \in Pubs PROVE WeightOf(p)' = WeightOf(p)
  <2>1. ListingsOf(p)' = ListingsOf(p)
    BY <1>1 DEF ListingsOf
  <2>2. \A l \in ListingsOf(p) : listing'[l].weighed = listing[l].weighed
    BY <1>1 DEF ListingsOf
  <2> QED BY <1>2, <2>1, <2>2, SameWeight
<1>4. ASSUME NEW c \in contrib' PROVE
         /\ pub'[c.pub].at # "NONE"
         /\ c.part = Rounded(10000 * listing'[c.of].weighed, WeightOf(c.pub)')
         /\ c.paid => pub'[c.pub].shared \in Nat /\ c.gross = Gross(c, pub'[c.pub].shared)
         /\ ~c.paid => pub'[c.pub].shared = -1
  <2>1. c \in contrib /\ c.pub \in Pubs
    BY <1>1, <1>2 DEF SaleRows, Shares
  <2> QED BY <1>1, <1>2, <1>3, <2>1 DEF Parted
<1>5. \A p \in Pubs : pub'[p].at = "NONE" => pub'[p].shared = -1
  BY <1>1, <1>2 DEF Parted
<1> QED BY <1>4, <1>5 DEF Parted

\* A step that leaves what was paid and taken back alone leaves the accounts true
LEMMA PaidKept ==
  ASSUME SaleInv,
         twist' = {} => /\ twist = {} /\ contrib' = contrib
                        /\ \A l \in Listings : got'[l] = got[l] /\ adv'[l].back = adv[l].back
                        /\ \A c \in contrib : c.paid => adv'[c.of].due = adv[c.of].due
  PROVE  PaidOut'
<1>1. PaidOut /\ \A c \in contrib : c.of \in Listings
  BY DEF SaleInv, SaleRows, Shares
<1> QED BY <1>1 DEF PaidOut

-----------------------------------------------------------------------------
(* Requests that read                                                      *)

\* Only the request changes, and what it is about is not being inserted by the member
LEMMA AskStep ==
  ASSUME SaleInv, UNCHANGED <<listing, pub, contrib, adv, got, chest, twist>>,
         NEW d \in Desks, NEW k, Turns(d, k),
         d = "member" => k.do # "attach" /\ ~Doing("member", "attach"),
         d \in Staff => \A l \in k.of : listing[l].coop # "NULL",
         k.do = "advance" /\ twist = {} => \A l \in k.of : \A r \in k.saw :
           listing[l].coop \in {"PENDING", "VALIDATED", "INCLUDED"} =>
             WithinValue(r[2].due + Advance, listing[l])
  PROVE  SaleInv'
<1>1. /\ desk' \in [Desks -> DeskOrders] /\ SaleSeats'
      /\ desk'[d] = k /\ \A e \in Desks : e # d => desk'[e] = desk[e]
  BY SeatStep
<1>2. SaleRows'
  BY <1>1 DEF SaleInv, SaleRows
<1>3. "member" \notin Staff /\ "member" \in Desks /\ Staff \subseteq Desks
  BY SaleAssumption DEF Desks
<1>4. Inserting'
  BY <1>1, <1>3 DEF SaleInv, Inserting, Doing, Desks
<1>5. Contributed'
  BY DEF SaleInv, Contributed
<1>6. Advanced'
  <2> SUFFICES ASSUME twist' = {} PROVE Advanced'
    BY DEF Advanced
  <2>1. Advanced /\ twist = {}
    BY DEF SaleInv
  <2>2. ASSUME NEW l \in Listings, NEW e \in Staff, listing[l].coop \in {"PENDING", "VALIDATED", "INCLUDED"},
               desk'[e].do = "advance", desk'[e].of = {l}, NEW r \in desk'[e].saw
        PROVE  WithinValue(r[2].due + Advance, listing[l])
    <3>1. CASE e = d
      BY <1>1, <2>1, <2>2, <3>1
    <3>2. CASE e # d
      BY <1>1, <1>3, <2>1, <2>2, <3>2 DEF Advanced, Doing
    <3> QED BY <3>1, <3>2
  <2> QED BY <2>1, <2>2 DEF Advanced, Doing, WithinValue
<1>7. PaidOut'
  BY DEF SaleInv, PaidOut
<1>8. SameBooks
  <2>1. twist' = twist /\ contrib' = contrib /\ listing' = listing /\ pub' = pub OBVIOUS
  <2> QED BY <2>1 DEF SameBooks
<1> QED BY <1>2, <1>1, <1>4, <1>5, <1>6, <1>7, <1>8, PartedKept DEF SaleInv

\* The member asks to change or delete a refused listing (updateAnnonceVente, deleteAnnonceVente)
LEMMA CheckListingStep ==
  ASSUME SaleInv, NEW l \in Listings, NEW do \in {"update", "delete"}, NEW kg \in Nat,
         CheckListing(l, do, kg)
  PROVE  SaleInv'
<1> DEFINE k == [do |-> do, of |-> {l}, pub |-> {}, kg |-> kg, saw |-> Rows({l})]
<1>1. Rows({l}) = {<<l, listing[l]>>} /\ listing[l] \in ListingRows
  BY DEF Rows, SaleInv, SaleRows
<1>2. listing[l].coop = "REJECTED"
  BY <1>1
      DEF CheckListing, Ready, SaleInv, Inserting, Advanced, Doing, ListingRows, CoopStatus,
          Entrusted
<1>3. k \in DeskOrders
  BY <1>1 DEF DeskOrders, DeskReadings
<1>4. MemberOrder(k)
  BY <1>1, <1>2 DEF MemberOrder
<1>5. desk' = [desk EXCEPT !["member"] = k]
  BY DEF CheckListing, Ask
<1>6. Turns("member", k)
  BY <1>3, <1>4, <1>5 DEF Turns
<1>7. k.do \notin {"advance", "attach"} /\ ~Doing("member", "attach")
  BY DEF CheckListing, Ready, Doing
<1>8. "member" \notin Staff /\ "member" \in Desks
  BY SaleAssumption DEF Desks
<1> HIDE DEF k
<1> QED BY <1>6, <1>7, <1>8, AskStep DEF CheckListing

\* A request of the staff that has read its rows
LEMMA StaffAsk ==
  ASSUME SaleInv, UNCHANGED <<listing, pub, contrib, adv, got, chest, twist>>,
         NEW d \in Staff, NEW k \in DeskOrders, StaffOrder(k), desk' = [desk EXCEPT ![d] = k],
         \A l \in k.of : listing[l].coop # "NULL",
         k.do = "advance" /\ twist = {} => \A l \in k.of : \A r \in k.saw :
           listing[l].coop \in {"PENDING", "VALIDATED", "INCLUDED"} =>
             WithinValue(r[2].due + Advance, listing[l])
  PROVE  SaleInv'
<1>1. d # "member" /\ d \in Desks
  BY SaleAssumption DEF Desks
<1>2. Turns(d, k)
  BY <1>1 DEF Turns
<1> QED BY <1>1, <1>2, AskStep

\* The staff reads a listing it is about to validate or reject (validateAnnonce, rejectAnnonce)
LEMMA CheckJudgeStep ==
  ASSUME SaleInv, NEW d \in Staff, NEW l \in Listings,
         \/ \E kg \in Weights : CheckValidate(d, l, kg)
         \/ CheckReject(d, l)
  PROVE  SaleInv'
<1>1. Rows({l}) = {<<l, listing[l]>>} /\ listing[l] \in ListingRows
  BY DEF Rows, SaleInv, SaleRows
<1>2. PICK do \in {"validate", "reject"}, kg \in Weights \cup {0} :
        /\ desk' = [desk EXCEPT ![d] = [do |-> do, of |-> {l}, pub |-> {}, kg |-> kg, saw |-> Rows({l})]]
        /\ do = "validate" => kg \in Weights /\ listing[l].coop = "PENDING"
        /\ do = "reject" => listing[l].coop \in {"PENDING", "VALIDATED", "REJECTED"}
        /\ UNCHANGED <<listing, pub, contrib, adv, got, chest, twist>>
  BY DEF CheckValidate, CheckReject, Ask
<1> DEFINE k == [do |-> do, of |-> {l}, pub |-> {}, kg |-> kg, saw |-> Rows({l})]
<1>3. k \in DeskOrders
  BY <1>1, SaleAssumption DEF DeskOrders, DeskReadings
<1>4. StaffOrder(k)
  BY <1>1, <1>2 DEF StaffOrder
<1>5. \A x \in k.of : listing[x].coop # "NULL"
  BY <1>2
<1>6. k.do # "advance"
  OBVIOUS
<1>7. desk' = [desk EXCEPT ![d] = k]
  BY <1>2
<1> HIDE DEF k
<1> QED BY <1>2, <1>3, <1>4, <1>5, <1>6, <1>7, StaffAsk

\* The staff reads the listings it is about to group (aggregateIntoPublication)
LEMMA CheckAggregateStep ==
  ASSUME SaleInv, NEW d \in Staff, NEW ls \in SUBSET Listings, CheckAggregate(d, ls)
  PROVE  SaleInv'
<1> DEFINE k == [do |-> "aggregate", of |-> ls, pub |-> {}, kg |-> 0, saw |-> Rows(ls)]
           f == [l \in ls |-> listing[l]]
<1>1. /\ f \in [ls -> ListingRows] /\ Rows(ls) = {<<l, f[l]>> : l \in ls}
      /\ ls # {} /\ \A l \in ls : f[l].coop = "VALIDATED" /\ f[l].weighed > 0
  BY DEF Rows, SaleInv, SaleRows, CheckAggregate, Ready, Advanced
<1>2. k \in DeskOrders
  BY <1>1 DEF DeskOrders, DeskReadings
<1>3. StaffOrder(k)
  <2> HIDE DEF f
  <2>1. \E g \in [k.of -> ListingRows] :
            /\ k.saw = {<<l, g[l]>> : l \in k.of}
            /\ \A l \in k.of : g[l].coop = "VALIDATED" /\ g[l].weighed > 0
    BY <1>1
  <2> QED BY <1>1, <2>1 DEF StaffOrder
<1>4. desk' = [desk EXCEPT ![d] = k] /\ UNCHANGED <<listing, pub, contrib, adv, got, chest, twist>>
  BY DEF CheckAggregate, Ask
<1>5. \A l \in k.of : listing[l].coop # "NULL"
  BY DEF CheckAggregate
<1>6. k.do # "advance"
  OBVIOUS
<1> HIDE DEF k
<1> QED BY <1>2, <1>3, <1>4, <1>5, <1>6, StaffAsk

\* The staff reads the advances on a listing (payAdvance)
LEMMA CheckAdvanceStep ==
  ASSUME SaleInv, NEW d \in Staff, NEW l \in Listings, CheckAdvance(d, l)
  PROVE  SaleInv'
<1> DEFINE k == [do |-> "advance", of |-> {l}, pub |-> {}, kg |-> 0, saw |-> Dues({l})]
<1>1. /\ Dues({l}) = {<<l, [due |-> adv[l].due]>>} /\ adv[l].due \in Nat
      /\ listing[l] \in ListingRows
  BY DEF Dues, SaleInv, SaleRows, AdvRows
<1>2. k \in DeskOrders
  BY <1>1 DEF DeskOrders, DeskReadings
<1>3. StaffOrder(k)
  BY <1>1 DEF StaffOrder
<1>4. desk' = [desk EXCEPT ![d] = k] /\ UNCHANGED <<listing, pub, contrib, adv, got, chest, twist>>
  BY DEF CheckAdvance, Ask
<1>5. listing[l].coop \in {"PENDING", "VALIDATED", "INCLUDED"} /\ Advance <= Ceiling(l)
  BY DEF CheckAdvance
<1>6. WithinValue(adv[l].due + Advance, listing[l])
  <2>1. Price * listing[l].weighed \in Nat /\ Price * listing[l].kg \in Nat /\ Advance \in Nat
    BY <1>1, SaleAssumption, Mul DEF ListingRows
  <2> QED BY <1>1, <1>5, <2>1 DEF Ceiling, WithinValue
<1>7. \A x \in k.of : \A r \in k.saw : WithinValue(r[2].due + Advance, listing[x])
  BY <1>1, <1>6
<1>8. \A x \in k.of : listing[x].coop # "NULL"
  BY <1>5
<1> HIDE DEF k
<1> QED BY <1>2, <1>3, <1>4, <1>7, <1>8, StaffAsk

\* The values of a function on a finite set are finitely many
LEMMA ImageFinite ==
  ASSUME NEW S, IsFiniteSet(S), NEW g
  PROVE  IsFiniteSet({g[x] : x \in S})
<1> DEFINE G == {T \in SUBSET S : IsFiniteSet({g[x] : x \in T})}
<1>1. {} \in G
  <2>1. {g[x] : x \in {}} = {}
    OBVIOUS
  <2> QED BY <2>1, FS_EmptySet
<1>2. ASSUME NEW T \in SUBSET S, NEW y \in S \ T, T \in G
      PROVE  T \cup {y} \in G
  <2>1. {g[x] : x \in T \cup {y}} = {g[x] : x \in T} \cup {g[y]}
    OBVIOUS
  <2> DEFINE I == {g[x] : x \in T}
  <2>2. IsFiniteSet(I) /\ {g[x] : x \in T \cup {y}} = I \cup {g[y]}
    BY <1>2, <2>1
  <2> HIDE DEF I
  <2>3. IsFiniteSet(I \cup {g[y]})
    BY <2>2, FS_AddElement
  <2> QED BY <2>2, <2>3
<1>3. S \in G
  <2> HIDE DEF G
  <2> QED BY <1>1, <1>2, FiniteInduction
<1> QED BY <1>3

\* Contributions of one part have one share
LEMMA SameGross ==
  ASSUME NEW c, NEW e, c.part = e.part, NEW n
  PROVE  Gross(c, n) = Gross(e, n)
  BY DEF Gross

\* A breakdown has finitely many lines, each of a contribution of the publication, and is
\* an order the staff may have under way
LEMMA BreakdownOrder ==
  ASSUME SaleInv, NEW p \in Pubs
  PROVE  /\ Breakdown(p) \in SUBSET (Listings \X [due : Nat, line : Shares])
         /\ IsFiniteSet(Breakdown(p))
         /\ \A r \in Breakdown(p) :
              Computed(r, [do |-> "distribute", of |-> {}, pub |-> {p}, kg |-> Distributable(p),
                           saw |-> Breakdown(p)])
<1> DEFINE n == Distributable(p)
           lineOf(c) == [c EXCEPT !.paid = TRUE, !.amount = Net(c, n), !.gross = Gross(c, n)]
           rowOf(c) == <<c.of, [due |-> adv[c.of].due, line |-> lineOf(c)]>>
<1>1. n \in Nat
  BY CommissionFits DEF SaleInv
<1>2. Breakdown(p) = {rowOf(c) : c \in Unpaid(p)}
  BY DEF Breakdown
<1>3. IsFiniteSet(Unpaid(p))
  BY FS_Subset DEF Unpaid, SaleInv, SaleRows
<1> HIDE DEF n
<1>4. ASSUME NEW c \in Unpaid(p)
      PROVE  /\ c \in Shares /\ c.pub = p /\ adv[c.of].due \in Nat /\ c.of \in Listings
             /\ Gross(c, n) \in Nat /\ Net(c, n) \in Nat
             /\ Net(c, n) = Max({0, Gross(c, n) - adv[c.of].due})
  <2>1. c \in Shares /\ c.pub = p /\ c.of \in Listings
    BY DEF Unpaid, SaleInv, SaleRows, Shares
  <2>2. adv[c.of].due \in Nat
    BY <2>1 DEF SaleInv, SaleRows, AdvRows
  <2>3. Gross(c, n) \in Nat
    BY <1>1, <2>1, GrossType
  <2>4. Gross(c, n) - adv[c.of].due \in Int
    BY <2>2, <2>3
  <2> QED BY <2>1, <2>2, <2>3, <2>4, MaxWithZero DEF Net
<1>5. ASSUME NEW c \in Unpaid(p)
      PROVE  /\ rowOf(c) \in Listings \X [due : Nat, line : Shares]
             /\ lineOf(c).of = c.of /\ lineOf(c).pub = p /\ lineOf(c).paid
             /\ lineOf(c).gross = Gross(c, n) /\ lineOf(c).part = c.part
             /\ lineOf(c).amount = Max({0, Gross(c, n) - adv[c.of].due})
  BY <1>4 DEF Shares
<1>6. ASSUME NEW c \in Unpaid(p)
      PROVE  Gross(lineOf(c), n) = Gross(c, n)
  <2>1. lineOf(c).part = c.part
    BY <1>5
  <2> HIDE DEF lineOf
  <2> QED BY <2>1, SameGross
<1>7. IsFiniteSet(Breakdown(p))
  <2> DEFINE g == [c \in Unpaid(p) |-> rowOf(c)]
  <2> HIDE DEF rowOf
  <2>1. Breakdown(p) = {g[c] : c \in Unpaid(p)}
    BY <1>2
  <2> HIDE DEF g
  <2> QED BY <1>3, <2>1, ImageFinite
<1>8. ASSUME NEW r \in Breakdown(p)
      PROVE  /\ r \in Listings \X [due : Nat, line : Shares]
             /\ Computed(r, [do |-> "distribute", of |-> {}, pub |-> {p}, kg |-> Distributable(p),
                             saw |-> Breakdown(p)])
  <2>1. PICK c \in Unpaid(p) : r = rowOf(c)
    BY <1>2
  <2>2. r \in Listings \X [due : Nat, line : Shares] /\ r[1] = c.of /\ r[2].due = adv[c.of].due
        /\ r[2].line = lineOf(c)
    BY <1>5, <2>1
  <2> HIDE DEF rowOf, lineOf
  <2>3. /\ r[2].line.gross = Gross(r[2].line, n)
        /\ r[2].line.amount = Max({0, r[2].line.gross - r[2].due})
    <3>1. /\ lineOf(c).gross = Gross(c, n) /\ Gross(lineOf(c), n) = Gross(c, n)
          /\ lineOf(c).amount = Max({0, Gross(c, n) - adv[c.of].due})
      BY <1>5, <1>6
    <3> QED BY <2>2, <3>1
  <2> QED BY <1>5, <2>2, <2>3 DEF Computed, n
<1> QED BY <1>7, <1>8

\* The staff reads the breakdown it is about to pay (distributePublication)
LEMMA CheckDistributeStep ==
  ASSUME SaleInv, NEW d \in Staff, NEW p \in Pubs, CheckDistribute(d, p)
  PROVE  SaleInv'
<1> DEFINE k == [do |-> "distribute", of |-> {}, pub |-> {p}, kg |-> Distributable(p), saw |-> Breakdown(p)]
<1>1. /\ Breakdown(p) \in SUBSET (Listings \X [due : Nat, line : Shares])
      /\ IsFiniteSet(Breakdown(p)) /\ \A r \in Breakdown(p) : Computed(r, k)
  BY BreakdownOrder
<1>2. Breakdown(p) # {}
  BY DEF CheckDistribute, Breakdown
<1>3. k \in DeskOrders
  BY <1>1, CommissionFits DEF DeskOrders, DeskReadings, SaleInv
<1>4. StaffOrder(k)
  BY <1>1, <1>2 DEF StaffOrder
<1>5. desk' = [desk EXCEPT ![d] = k] /\ UNCHANGED <<listing, pub, contrib, adv, got, chest, twist>>
  BY DEF CheckDistribute, Ask
<1>6. k.of = {} /\ k.do # "advance"
  OBVIOUS
<1> HIDE DEF k
<1> QED BY <1>3, <1>4, <1>5, <1>6, StaffAsk

\* A grouping that finds a listing changed gives up
LEMMA AggregateFailsStep ==
  ASSUME SaleInv, NEW d \in Staff, AggregateFails(d)
  PROVE  SaleInv'
<1>1. NoOrder \in DeskOrders /\ StaffOrder(NoOrder) /\ NoOrder.of = {} /\ NoOrder.do # "advance"
  BY RestOrder DEF NoOrder
<1>2. desk' = [desk EXCEPT ![d] = NoOrder] /\ UNCHANGED <<listing, pub, contrib, adv, got, chest, twist>>
  BY DEF AggregateFails, Answer
<1> QED BY <1>1, <1>2, StaffAsk

-----------------------------------------------------------------------------
(* The member, and the weighing                                            *)

\* The listing is inserted, before it is sent to the cooperative (createAnnonceVente)
LEMMA InsertStep ==
  ASSUME SaleInv, NEW l \in Listings, NEW kg \in Declared, InsertListing(l, kg)
  PROVE  SaleInv'
<1> DEFINE k == [do |-> "attach", of |-> {l}, pub |-> {}, kg |-> 0, saw |-> {}]
           new == [coop |-> "NULL", kg |-> kg, weighed |-> 0]
<1>1. /\ listing' = [listing EXCEPT ![l] = new] /\ new \in ListingRows
      /\ UNCHANGED <<pub, contrib, adv, got, chest, twist>> /\ twist = {}
      /\ listing[l] = NoListing /\ \A d \in Desks : l \notin desk[d].of
      /\ ~Doing("member", "attach")
  BY SaleAssumption DEF InsertListing, Unused, Ready, Doing, ListingRows, CoopStatus
<1>2. Turns("member", k)
  BY DEF Turns, InsertListing, Ask, DeskOrders, MemberOrder
<1>3. "member" \notin Staff /\ "member" \in Desks /\ Staff \subseteq Desks
  BY SaleAssumption DEF Desks
<1>4. /\ desk' \in [Desks -> DeskOrders] /\ SaleSeats'
      /\ desk'["member"] = k /\ \A e \in Desks : e # "member" => desk'[e] = desk[e]
  BY <1>2, <1>3, SeatStep
<1>5. SaleRows'
  BY <1>1, <1>4 DEF SaleInv, SaleRows
<1>6. Inserting'
  BY <1>1, <1>3, <1>4 DEF SaleInv, SaleRows, Inserting, Doing
<1>7. \A c \in contrib : c.of # l /\ c.of \in Listings
  BY <1>1 DEF SaleInv, SaleRows, Contributed, NoListing, Shares
<1>8. Contributed'
  BY <1>1, <1>7 DEF SaleInv, SaleRows, Contributed
<1>9. Advanced'
  <2>1. /\ Advanced /\ adv[l] = NoAdvance /\ listing' \in [Listings -> ListingRows]
        /\ listing \in [Listings -> ListingRows]
    BY <1>1, <1>5 DEF SaleInv, SaleRows, Advanced, NoListing
  <2>2. /\ listing'[l] = new /\ adv'[l] = NoAdvance
        /\ \A x \in Listings : x # l => listing'[x] = listing[x] /\ adv'[x] = adv[x]
    BY <1>1, <2>1
  <2>3. \A e \in Staff : desk'[e] = desk[e]
    BY <1>3, <1>4
  <2> QED BY <1>1, <2>1, <2>2, <2>3 DEF Advanced, Doing, WithinValue
<1>10. PaidOut'
  BY <1>1 DEF SaleInv, PaidOut
<1>11. SameBooks
  BY <1>1, <1>7 DEF SameBooks, SaleInv, SaleRows
<1> QED BY <1>4, <1>5, <1>6, <1>8, <1>9, <1>10, <1>11, PartedKept DEF SaleInv

\* A request writes one listing, and ends
LEMMA WriteListingStep ==
  ASSUME SaleInv, NEW d \in Desks, NEW l \in Listings, Answer(d),
         listing' \in [Listings -> ListingRows],
         \A x \in Listings : x # l => listing'[x] = listing[x] /\ adv'[x] = adv[x],
         adv' \in [Listings -> AdvRows], contrib' \in SUBSET contrib,
         UNCHANGED <<pub, got, chest>>,
         twist \subseteq twist', twist' \subseteq twist \cup {"overlap"},
         desk[d].of = {l}, desk[d].do = "attach" => listing'[l].coop # "NULL",
         listing'[l].coop = "NULL" => listing[l].coop = "NULL",
         "overlap" \notin twist' => /\ contrib' = contrib
                                    /\ \A c \in contrib : c.of # l,
         twist' = {} =>
           /\ adv'[l].back = adv[l].back
           /\ listing'[l].coop = "GONE" => listing'[l] = NoListing /\ adv'[l] = NoAdvance
           /\ listing'[l].coop = "NULL" => listing'[l].weighed = 0 /\ adv'[l] = NoAdvance
           /\ listing'[l].coop = "PENDING" => listing'[l].weighed = 0
           /\ listing'[l].coop \in {"VALIDATED", "INCLUDED"} => listing'[l].weighed > 0
           /\ listing'[l].coop \in {"PENDING", "VALIDATED", "INCLUDED"} =>
                /\ WithinValue(adv'[l].due, listing'[l])
                /\ \A e \in Staff : e # d /\ Doing(e, "advance") /\ desk[e].of = {l} =>
                     \A r \in desk[e].saw : WithinValue(r[2].due + Advance, listing'[l])
  PROVE  SaleInv'
<1>1. Turns(d, NoOrder)
  BY AnswerStep
<1>2. /\ desk' \in [Desks -> DeskOrders] /\ SaleSeats'
      /\ desk'[d] = NoOrder /\ \A e \in Desks : e # d => desk'[e] = desk[e]
  BY <1>1, SeatStep
<1>3. "member" \notin Staff /\ "member" \in Desks /\ Staff \subseteq Desks
  BY SaleAssumption DEF Desks
<1>4. SaleRows'
  <2>1. IsFiniteSet(contrib')
    BY FS_Subset DEF SaleInv, SaleRows
  <2> QED BY <1>2, <2>1 DEF SaleInv, SaleRows
<1>5. Inserting'
  <2>1. Inserting /\ MemberOrder(desk["member"])
    BY DEF SaleInv, SaleSeats
  <2>2. ASSUME desk'["member"].do = "attach", NEW x \in desk'["member"].of
        PROVE  listing'[x].coop = "NULL"
    <3>1. d # "member" /\ desk'["member"] = desk["member"] /\ d \in Staff
      BY <1>2, <1>3, <2>2 DEF NoOrder, Desks
    <3>2. x \in Listings /\ listing[x].coop = "NULL"
      BY <2>1, <2>2, <3>1 DEF Inserting, Doing, MemberOrder
    <3>3. x # l
      BY <2>1, <3>1, <3>2 DEF Inserting
    <3> QED BY <3>2, <3>3
  <2>3. ASSUME NEW x \in Listings, listing'[x].coop = "NULL"
        PROVE  /\ desk'["member"].do = "attach" /\ desk'["member"].of = {x}
               /\ \A e \in Staff : x \notin desk'[e].of
    <3>1. listing[x].coop = "NULL"
      BY <2>3
    <3>2. /\ desk["member"].do = "attach" /\ desk["member"].of = {x}
          /\ \A e \in Staff : x \notin desk[e].of
      BY <2>1, <3>1 DEF Inserting, Doing
    <3>3. d # "member"
      BY <2>3, <3>2
    <3> QED BY <1>2, <1>3, <3>2, <3>3 DEF NoOrder
  <2> QED BY <2>2, <2>3 DEF Inserting, Doing
<1>6. Contributed'
  <2> SUFFICES ASSUME "overlap" \notin twist' PROVE Contributed'
    BY DEF Contributed
  <2>1. contrib' = contrib /\ (\A c \in contrib : c.of # l /\ c.of \in Listings) /\ Contributed
        /\ "overlap" \notin twist
    BY DEF SaleInv, SaleRows, Shares
  <2> QED BY <2>1 DEF Contributed
<1>7. ASSUME twist' = {}
      PROVE  /\ twist = {} /\ contrib' = contrib
             /\ \A c \in contrib : c.of \in Listings /\ c.of # l
  BY <1>7 DEF SaleInv, SaleRows, Shares
<1>8. Advanced'
  <2> SUFFICES ASSUME twist' = {} PROVE Advanced'
    BY DEF Advanced
  <2>1. Advanced /\ twist = {}
    BY <1>7 DEF SaleInv
  <2>2. ASSUME NEW e \in Staff, desk'[e].do = "advance"
        PROVE  e # d /\ desk'[e] = desk[e]
    BY <1>2, <1>3, <2>2 DEF NoOrder
  <2>3. ASSUME NEW x \in Listings
        PROVE
    /\ listing'[x].coop = "GONE" => listing'[x] = NoListing /\ adv'[x] = NoAdvance
    /\ listing'[x].coop = "NULL" => listing'[x].weighed = 0 /\ adv'[x] = NoAdvance
    /\ listing'[x].coop = "PENDING" => listing'[x].weighed = 0
    /\ listing'[x].coop \in {"VALIDATED", "INCLUDED"} => listing'[x].weighed > 0
    /\ listing'[x].coop \in {"PENDING", "VALIDATED", "INCLUDED"} =>
         /\ WithinValue(adv'[x].due, listing'[x])
         /\ \A e \in Staff : desk'[e].do = "advance" /\ desk'[e].of = {x} =>
              \A r \in desk'[e].saw : WithinValue(r[2].due + Advance, listing'[x])
    <3>1. CASE x = l
      BY <2>2, <3>1 DEF Doing
    <3>2. CASE x # l
      BY <2>1, <2>2, <3>2 DEF Advanced, Doing
    <3> QED BY <3>1, <3>2
  <2> QED BY <2>3 DEF Advanced, Doing, WithinValue
<1>9. PaidOut'
  <2>1. \A x \in Listings : twist' = {} => adv'[x].back = adv[x].back
    OBVIOUS
  <2> QED BY <1>7, <2>1, PaidKept
<1>10. SameBooks
  BY <1>7 DEF SameBooks
<1> QED BY <1>2, <1>4, <1>5, <1>6, <1>8, <1>9, <1>10, PartedKept DEF SaleInv

\* The listing a request is about
LEMMA ItIs ==
  ASSUME NEW d, NEW l \in Listings, desk[d].of = {l}
  PROVE  It(d) = l
  BY DEF It

\* What a listing without contributions was paid back
LEMMA NoShareNoBack ==
  ASSUME SaleInv, twist = {}, NEW l \in Listings, listing[l].coop # "INCLUDED"
  PROVE  adv[l].back = 0 /\ \A c \in contrib : c.of # l
  BY DEF SaleInv, Contributed, PaidOut

\* The listing is sent to the cooperative (createAnnonceVente)
LEMMA AttachStep ==
  ASSUME SaleInv, AttachListing
  PROVE  SaleInv'
<1>1. "member" \notin Staff /\ "member" \in Desks
  BY SaleAssumption DEF Desks
<1>2. PICK l \in Listings : desk["member"].of = {l}
  BY DEF SaleInv, SaleSeats, MemberOrder, AttachListing, Doing
<1>3. It("member") = l
  BY <1>2, ItIs
<1>4. /\ listing \in [Listings -> ListingRows] /\ listing[l].coop = "NULL"
      /\ \A d \in Staff : l \notin desk[d].of
  BY <1>2 DEF SaleInv, SaleRows, Inserting, AttachListing
<1>5. /\ \/ listing' = [listing EXCEPT ![l] = [listing[l] EXCEPT !.coop = "PENDING"]]
         \/ listing' = [listing EXCEPT ![l] = NoListing]
      /\ Answer("member") /\ UNCHANGED <<pub, contrib, adv, got, chest, twist>>
  BY <1>3 DEF AttachListing
<1>6. NoListing \in ListingRows /\ [listing[l] EXCEPT !.coop = "PENDING"] \in ListingRows
  BY <1>4 DEF NoListing, ListingRows, CoopStatus
<1>7. /\ listing' \in [Listings -> ListingRows]
      /\ \A x \in Listings : x # l => listing'[x] = listing[x] /\ adv'[x] = adv[x]
      /\ \/ /\ listing'[l].coop = "PENDING" /\ listing'[l].weighed = listing[l].weighed
            /\ listing'[l].kg = listing[l].kg
         \/ listing'[l] = NoListing
  BY <1>4, <1>5, <1>6 DEF ListingRows
<1>8. adv \in [Listings -> AdvRows]
  BY DEF SaleInv, SaleRows
<1>9. "overlap" \notin twist' => \A c \in contrib : c.of # l
  BY <1>4, <1>5 DEF SaleInv, Contributed
<1>10. twist = {} => listing[l].weighed = 0 /\ adv[l] = NoAdvance
  BY <1>4 DEF SaleInv, Advanced
<1>11. WithinValue(0, listing'[l])
  <2>1. listing'[l] \in ListingRows
    BY <1>7
  <2> QED BY <2>1, SaleAssumption, Mul DEF WithinValue, ListingRows
<1>12. NoListing.coop = "GONE"
  BY DEF NoListing
<1>13. \A e \in Staff : desk[e].of # {l}
  BY <1>4
<1>14. twist' = {} => adv'[l] = NoAdvance /\ adv'[l].due = 0 /\ listing[l].weighed = 0
  BY <1>5, <1>10 DEF NoAdvance
<1> QED BY <1>1, <1>2, <1>4, <1>5, <1>7, <1>8, <1>9, <1>11, <1>12, <1>13, <1>14, WriteListingStep

\* A reading that is still true
LEMMA TwistStep ==
  ASSUME SaleInv, NEW d \in Desks, NEW l \in Listings, Twist(d, Rows({l}))
  PROVE  /\ twist \subseteq twist' /\ twist' \subseteq twist \cup {"overlap"}
         /\ "overlap" \notin twist' => /\ "overlap" \notin twist
                                       /\ desk[d].saw = {<<l, listing[l]>>}
  BY DEF Twist, Rows

\* A row that no overlap changed is still what was read
LEMMA StillRead ==
  ASSUME SaleInv, NEW d \in Desks, NEW l \in Listings, Twist(d, Rows({l})),
         NEW row, desk[d].saw = {<<l, row>>}
  PROVE  /\ twist \subseteq twist' /\ twist' \subseteq twist \cup {"overlap"}
         /\ "overlap" \notin twist' => "overlap" \notin twist /\ listing[l] = row
<1>1. /\ twist \subseteq twist' /\ twist' \subseteq twist \cup {"overlap"}
      /\ "overlap" \notin twist' => "overlap" \notin twist /\ desk[d].saw = {<<l, listing[l]>>}
  BY TwistStep
<1>2. {<<l, row>>} = {<<l, listing[l]>>} => <<l, row>> = <<l, listing[l]>>
  OBVIOUS
<1>3. <<l, row>> = <<l, listing[l]>> => listing[l] = row
  OBVIOUS
<1> QED BY <1>1, <1>2, <1>3

\* A listing in no publication has no contribution
LEMMA RefusedIsFree ==
  ASSUME SaleInv, "overlap" \notin twist, NEW l \in Listings, listing[l].coop # "INCLUDED"
  PROVE  \A c \in contrib : c.of # l
  BY DEF SaleInv, Contributed

\* The member changes a refused listing (updateAnnonceVente)
LEMMA UpdateStep ==
  ASSUME SaleInv, UpdateListing
  PROVE  SaleInv'
<1>1. "member" \notin Staff /\ "member" \in Desks
  BY SaleAssumption DEF Desks
<1>2. PICK l \in Listings : desk["member"].of = {l}
  BY DEF SaleInv, SaleSeats, MemberOrder, UpdateListing, Doing
<1>3. PICK row \in ListingRows : row.coop = "REJECTED" /\ desk["member"].saw = {<<l, row>>}
  BY <1>2 DEF SaleInv, SaleSeats, MemberOrder, UpdateListing, Doing
<1>4. It("member") = l
  BY <1>2, ItIs
<1>5. /\ listing' = [listing EXCEPT ![l].kg = desk["member"].kg]
      /\ Twist("member", Rows({l})) /\ Answer("member")
      /\ UNCHANGED <<pub, contrib, adv, got, chest>> /\ desk["member"].do = "update"
  BY <1>4 DEF UpdateListing, Doing
<1>6. listing \in [Listings -> ListingRows] /\ adv \in [Listings -> AdvRows] /\ desk["member"].kg \in Nat
  BY <1>1 DEF SaleInv, SaleRows, DeskOrders
<1>7. /\ listing' \in [Listings -> ListingRows]
      /\ \A x \in Listings : x # l => listing'[x] = listing[x] /\ adv'[x] = adv[x]
      /\ listing'[l].coop = listing[l].coop /\ listing'[l].weighed = listing[l].weighed
  BY <1>5, <1>6 DEF ListingRows
<1>8. /\ twist \subseteq twist' /\ twist' \subseteq twist \cup {"overlap"}
      /\ "overlap" \notin twist' => "overlap" \notin twist /\ listing[l] = row
  BY <1>1, <1>3, <1>5, StillRead
<1>9. "overlap" \notin twist' => \A c \in contrib : c.of # l
  BY <1>3, <1>8, RefusedIsFree
<1> QED BY <1>1, <1>2, <1>3, <1>5, <1>6, <1>7, <1>8, <1>9, WriteListingStep

\* The member deletes a refused listing (deleteAnnonceVente)
LEMMA DeleteStep ==
  ASSUME SaleInv, DeleteListing
  PROVE  SaleInv'
<1>1. "member" \notin Staff /\ "member" \in Desks
  BY SaleAssumption DEF Desks
<1>2. PICK l \in Listings : desk["member"].of = {l}
  BY DEF SaleInv, SaleSeats, MemberOrder, DeleteListing, Doing
<1>3. PICK row \in ListingRows : row.coop = "REJECTED" /\ desk["member"].saw = {<<l, row>>}
  BY <1>2 DEF SaleInv, SaleSeats, MemberOrder, DeleteListing, Doing
<1>4. It("member") = l
  BY <1>2, ItIs
<1>5. /\ listing' = [listing EXCEPT ![l] = NoListing]
      /\ contrib' = {c \in contrib : c.of # l} /\ adv' = [adv EXCEPT ![l] = NoAdvance]
      /\ Twist("member", Rows({l})) /\ Answer("member")
      /\ UNCHANGED <<pub, got, chest>> /\ desk["member"].do = "delete"
  BY <1>4 DEF DeleteListing, Doing, NoAdvance
<1>6. listing \in [Listings -> ListingRows] /\ adv \in [Listings -> AdvRows]
  BY DEF SaleInv, SaleRows
<1>7. NoListing \in ListingRows /\ NoListing.coop = "GONE" /\ NoAdvance \in AdvRows /\ NoAdvance.back = 0
  BY DEF NoListing, ListingRows, NoAdvance, AdvRows
<1>8. /\ listing' \in [Listings -> ListingRows] /\ adv' \in [Listings -> AdvRows]
      /\ \A x \in Listings : x # l => listing'[x] = listing[x] /\ adv'[x] = adv[x]
      /\ listing'[l] = NoListing /\ adv'[l] = NoAdvance
  BY <1>5, <1>6, <1>7
<1>9. /\ twist \subseteq twist' /\ twist' \subseteq twist \cup {"overlap"}
      /\ "overlap" \notin twist' => "overlap" \notin twist /\ listing[l].coop = "REJECTED"
  BY <1>1, <1>3, <1>5, StillRead
<1>10. "overlap" \notin twist' => contrib' = contrib /\ \A c \in contrib : c.of # l
  BY <1>5, <1>9, RefusedIsFree
<1>11. twist' = {} => adv[l].back = 0
  BY <1>9, NoShareNoBack
<1> QED BY <1>1, <1>2, <1>5, <1>7, <1>8, <1>9, <1>10, <1>11, WriteListingStep

\* What was within the value of a listing not weighed yet is within that of its declaration
LEMMA ValueOfPending ==
  ASSUME SaleInv, NEW l \in Listings, listing[l].weighed = 0, NEW row \in ListingRows,
         row.kg = listing[l].kg, NEW n \in Nat, WithinValue(n, listing[l])
  PROVE  WithinValue(n, row)
<1>1. listing[l] \in ListingRows
  BY DEF SaleInv, SaleRows
<1>2. Price * listing[l].kg \in Nat /\ Price * listing[l].weighed = 0
  BY <1>1, SaleAssumption, Mul DEF ListingRows
<1> QED BY <1>2 DEF WithinValue

\* The staff validates what it weighed, or rejects (validateAnnonce, rejectAnnonce)
LEMMA JudgeStep ==
  ASSUME SaleInv, NEW d \in Staff, Judge(d)
  PROVE  SaleInv'
<1>1. d # "member" /\ d \in Desks
  BY SaleAssumption DEF Desks
<1>2. PICK l \in Listings : desk[d].of = {l}
  BY DEF SaleInv, SaleSeats, StaffOrder, Judge, Doing
<1>3. It(d) = l
  BY <1>2, ItIs
<1>4. PICK row \in ListingRows :
        /\ desk[d].saw = {<<l, row>>}
        /\ desk[d].do = "validate" => row.coop = "PENDING" /\ desk[d].kg \in Weights
        /\ desk[d].do = "reject" => row.coop \in {"PENDING", "VALIDATED", "REJECTED"}
  BY <1>2 DEF SaleInv, SaleSeats, StaffOrder, Judge, Doing
<1>5. /\ \/ desk[d].do = "validate" /\ listing[l] # NoListing
            /\ listing' = [listing EXCEPT ![l].coop = "VALIDATED", ![l].weighed = desk[d].kg]
         \/ desk[d].do = "reject" /\ listing[l] # NoListing
            /\ listing' = [listing EXCEPT ![l].coop = "REJECTED"]
         \/ desk[d].do \in {"validate", "reject"} /\ listing[l] = NoListing
            /\ UNCHANGED listing
      /\ Twist(d, Rows({l})) /\ Answer(d)
      /\ UNCHANGED <<pub, contrib, adv, got, chest>>
  BY <1>3 DEF Judge, Doing
<1>6. listing \in [Listings -> ListingRows] /\ adv \in [Listings -> AdvRows]
  BY DEF SaleInv, SaleRows
<1>7. /\ listing' \in [Listings -> ListingRows]
      /\ \A x \in Listings : x # l => listing'[x] = listing[x] /\ adv'[x] = adv[x]
      /\ \/ /\ desk[d].do = "validate" /\ listing'[l].coop = "VALIDATED"
            /\ listing'[l].weighed = desk[d].kg /\ listing'[l].kg = listing[l].kg
         \/ desk[d].do = "reject" /\ listing'[l].coop = "REJECTED"
         \/ desk[d].do \in {"validate", "reject"} /\ listing[l] = NoListing /\ listing'[l] = NoListing
  BY <1>4, <1>5, <1>6, SaleAssumption DEF ListingRows, CoopStatus
<1>8. /\ twist \subseteq twist' /\ twist' \subseteq twist \cup {"overlap"}
      /\ "overlap" \notin twist' => "overlap" \notin twist /\ listing[l] = row
  BY <1>1, <1>4, <1>5, StillRead
<1>9. NoListing.coop = "GONE"
  BY DEF NoListing
<1>10. "overlap" \notin twist' => listing[l].coop # "INCLUDED" /\ \A c \in contrib : c.of # l
  BY <1>4, <1>7, <1>8, <1>9, RefusedIsFree
<1>11. ASSUME twist' = {}, listing'[l].coop \notin {"REJECTED"}
       PROVE  /\ listing'[l].coop = "VALIDATED" /\ listing'[l].weighed > 0
              /\ WithinValue(adv[l].due, listing'[l])
              /\ \A e \in Staff : Doing(e, "advance") /\ desk[e].of = {l} =>
                   \A r \in desk[e].saw : WithinValue(r[2].due + Advance, listing'[l])
  <2>1. /\ desk[d].do = "validate" /\ listing'[l].coop = "VALIDATED" /\ desk[d].kg \in Weights
        /\ listing'[l].weighed = desk[d].kg /\ listing'[l].kg = listing[l].kg
        /\ listing[l].coop = "PENDING" /\ twist = {}
    BY <1>4, <1>7, <1>8, <1>9, <1>11
  <2>2. /\ listing[l].weighed = 0 /\ WithinValue(adv[l].due, listing[l])
        /\ \A e \in Staff : Doing(e, "advance") /\ desk[e].of = {l} =>
              \A r \in desk[e].saw : WithinValue(r[2].due + Advance, listing[l])
    BY <2>1 DEF SaleInv, Advanced
  <2>3. listing'[l] \in ListingRows /\ adv[l].due \in Nat
    BY <1>6, <1>7 DEF AdvRows
  <2>4. WithinValue(adv[l].due, listing'[l])
    BY <2>1, <2>2, <2>3, ValueOfPending
  <2>5. ASSUME NEW e \in Staff, Doing(e, "advance"), desk[e].of = {l}, NEW r \in desk[e].saw
        PROVE  WithinValue(r[2].due + Advance, listing'[l])
    <3>1. PICK n \in Nat : desk[e].saw = {<<l, [due |-> n]>>}
      BY <2>5 DEF SaleInv, SaleSeats, StaffOrder, Doing
    <3>2. r[2].due + Advance \in Nat
      BY <2>5, <3>1, SaleAssumption
    <3> QED BY <2>1, <2>2, <2>3, <2>5, <3>2, ValueOfPending
  <2>6. listing'[l].weighed > 0
    <3>1. desk[d].kg \in Nat \ {0}
      BY <2>1, SaleAssumption
    <3>2. listing'[l].weighed = desk[d].kg
      BY <2>1
    <3>3. listing'[l].weighed \in Nat \ {0}
      BY <3>1, <3>2
    <3>4. \A n \in Nat \ {0} : n > 0
      OBVIOUS
    <3> QED BY <3>3, <3>4
  <2> QED BY <2>1, <2>4, <2>5, <2>6
<1>12. desk[d].do # "attach" /\ listing'[l].coop # "NULL"
  BY <1>7, <1>9
<1>13. adv' = adv /\ contrib' = contrib
  BY <1>5
<1>14. twist' = {} /\ listing'[l].coop # "REJECTED" => listing'[l].coop = "VALIDATED"
  BY <1>11
<1> QED BY <1>1, <1>2, <1>5, <1>6, <1>7, <1>8, <1>10, <1>11, <1>12, <1>13, <1>14, WriteListingStep

-----------------------------------------------------------------------------
(* Aggregation                                                             *)

\* Two functions with the same graph on a set agree there
LEMMA SetExtPairs ==
  ASSUME NEW S, NEW f, NEW g, {<<x, f[x]>> : x \in S} = {<<x, g[x]>> : x \in S}
  PROVE  \A x \in S : f[x] = g[x]
<1> TAKE x \in S
<1>1. <<x, f[x]>> \in {<<y, g[y]>> : y \in S}
  OBVIOUS
<1>2. PICK y \in S : <<x, f[x]>> = <<y, g[y]>>
  BY <1>1
<1> QED BY <1>2

\* The weight that was read
LEMMA TotalRead ==
  ASSUME NEW S \in SUBSET Listings, S # {}, NEW f \in [S -> ListingRows],
         \A l \in S : f[l].weighed > 0
  PROVE  /\ IsFiniteSet(S)
         /\ LET read == {<<l, f[l]>> : l \in S}
                total == SumFunctionOnSet([r \in read |-> r[2].weighed], read) IN
            total \in Nat \ {0} /\ total = SumFunctionOnSet([l \in S |-> f[l].weighed], S)
<1> DEFINE g == [l \in S |-> <<l, f[l]>>]
           R == {<<l, f[l]>> : l \in S}
           h == [l \in S |-> f[l].weighed]
           w == [r \in R |-> r[2].weighed]
<1>1. IsFiniteSet(S)
  BY SaleAssumption, FS_Subset
<1>2. \A l \in S : f[l].weighed \in Nat \ {0}
  BY DEF ListingRows
<1>3. g \in [S -> R] /\ R = {g[l] : l \in S} /\ \A x, y \in S : g[x] = g[y] => x = y
  OBVIOUS
<1>4. /\ \A l \in S : h[l] \in Nat \ {0}
      /\ \A l \in S : h[l] = w[g[l]]
      /\ \A r \in R : w[r] \in Nat
  BY <1>2
<1> HIDE DEF h, g, w
<1>5. Ints(w, R)
  BY <1>4 DEF Ints
<1>6. SumFunctionOnSet(h, S) = SumFunctionOnSet(w, R)
  <2> HIDE DEF R
  <2> QED BY <1>1, <1>3, <1>4, <1>5, SumImage
<1>7. PICK e \in S : TRUE
  OBVIOUS
<1>8. /\ SumFunctionOnSet(h, S) = h[e] + SumFunctionOnSet(h, S \ {e})
      /\ SumFunctionOnSet(h, S \ {e}) \in Nat
  <2>1. Ints(h, S) /\ IsFiniteSet(S \ {e}) /\ \A x \in S \ {e} : h[x] \in Nat
    BY <1>1, <1>4, FS_Subset DEF Ints
  <2> QED BY <1>1, <2>1, SumRemove, SumNat
<1>9. h[e] \in Nat \ {0}
  BY <1>4
<1>10. SumFunctionOnSet(h, S) \in Nat \ {0}
  BY <1>8, <1>9
<1> QED BY <1>1, <1>6, <1>10 DEF h, w

\* A contribution as it is created, unpaid
NewShare(p, l, row, total) ==
  [pub |-> p, of |-> l, part |-> Part(row, total), paid |-> FALSE, amount |-> 0, gross |-> 0]

\* A publication as it is created, with nothing distributed
LEMMA NewPubRow ==
  ASSUME NEW kg \in Nat
  PROVE  NewPub(kg) \in PubRows /\ NewPub(kg).at = "ACTIVE" /\ NewPub(kg).shared = -1
<1>1. NoPub \in PubRows /\ NoPub.shared = -1
  BY DEF NoPub, PubRows
<1>2. NewPub(kg) = [NoPub EXCEPT !.at = "ACTIVE", !.kg = kg]
  BY DEF NewPub
<1> QED BY <1>1, <1>2 DEF PubRows

\* A part is a natural number of its fourth decimal
LEMMA PartType ==
  ASSUME NEW row, row.weighed \in Nat, NEW total \in Nat \ {0}
  PROVE  Part(row, total) \in Nat
<1>1. PICK n \in Nat : n = 10000 * row.weighed
  OBVIOUS
<1>2. Rounded(n, total) \in Nat
  BY RoundedBounds
<1> QED BY <1>1, <1>2 DEF Part

\* The staff groups validated listings into a publication, with a part for each (aggregateIntoPublication)
LEMMA AggregateStep ==
  ASSUME SaleInv, NEW d \in Staff, NEW p \in Pubs, Aggregate(d, p)
  PROVE  SaleInv'
<1> DEFINE S == desk[d].of
           read == desk[d].saw
<1>1. d # "member" /\ d \in Desks
  BY SaleAssumption DEF Desks
<1>2. S \in SUBSET Listings /\ S # {}
  BY <1>1 DEF SaleInv, SaleRows, SaleSeats, StaffOrder, DeskOrders, Aggregate, Doing
<1>3. PICK f \in [S -> ListingRows] :
        /\ read = {<<l, f[l]>> : l \in S}
        /\ \A l \in S : f[l].coop = "VALIDATED" /\ f[l].weighed > 0
  BY DEF SaleInv, SaleSeats, StaffOrder, Aggregate, Doing
<1>4. PICK total \in Nat \ {0} :
        /\ total = SumFunctionOnSet([r \in read |-> r[2].weighed], read)
        /\ total = SumFunctionOnSet([l \in S |-> f[l].weighed], S) /\ IsFiniteSet(S)
  <2> DEFINE R == {<<l, f[l]>> : l \in S}
  <2>1. /\ IsFiniteSet(S)
        /\ SumFunctionOnSet([r \in R |-> r[2].weighed], R) \in Nat \ {0}
        /\ SumFunctionOnSet([r \in R |-> r[2].weighed], R) = SumFunctionOnSet([l \in S |-> f[l].weighed], S)
    BY <1>2, <1>3, TotalRead
  <2>2. read = R
    BY <1>3
  <2> HIDE DEF R
  <2> QED BY <2>1, <2>2
<1>5. PICK added :
      /\ added = {NewShare(p, l, f[l], total) : l \in S}
      /\ pub[p].at = "NONE" /\ \A l \in S : listing[l] # NoListing
      /\ pub' = [pub EXCEPT ![p] = NewPub(total)]
      /\ contrib' = contrib \cup added
      /\ listing' = Included(S)
      /\ Twist(d, Rows(S)) /\ Answer(d)
      /\ UNCHANGED <<adv, got, chest>>
  <2>1. contrib' = contrib \cup
          {[pub |-> p, of |-> r[1], part |-> Part(r[2], total),
            paid |-> FALSE, amount |-> 0, gross |-> 0] : r \in read}
    BY <1>4 DEF Aggregate
  <2>2. {[pub |-> p, of |-> r[1], part |-> Part(r[2], total),
            paid |-> FALSE, amount |-> 0, gross |-> 0] : r \in read}
          = {NewShare(p, l, f[l], total) : l \in S}
    <3> DEFINE F(r) == [pub |-> p, of |-> r[1], part |-> Part(r[2], total),
                        paid |-> FALSE, amount |-> 0, gross |-> 0]
    <3>1. \A l \in S : F(<<l, f[l]>>) = NewShare(p, l, f[l], total)
      BY DEF NewShare
    <3> HIDE DEF F
    <3>2. {F(r) : r \in read} = {NewShare(p, l, f[l], total) : l \in S}
      BY <1>3, <3>1
    <3> QED BY <3>2 DEF F
  <2> QED BY <1>4, <2>1, <2>2 DEF Aggregate
<1>6. ASSUME NEW l \in S
      PROVE  \E c \in added : c = NewShare(p, l, f[l], total)
  BY <1>3, <1>5
<1>7. ASSUME NEW c \in added
      PROVE  /\ c \in Shares /\ c.of \in S /\ c.pub = p /\ c.paid = FALSE /\ c.amount = 0
             /\ c.part = Part(f[c.of], total)
             /\ c = NewShare(p, c.of, f[c.of], total)
  <2>1. PICK l \in S : c = NewShare(p, l, f[l], total)
    BY <1>5
  <2>2. c.of = l /\ c.pub = p /\ c.paid = FALSE /\ c.amount = 0 /\ c.gross = 0
        /\ c.part = Part(f[l], total)
    BY <2>1 DEF NewShare
  <2>3. f[l].weighed \in Nat /\ l \in Listings
    BY <1>2 DEF ListingRows
  <2>4. Part(f[l], total) \in Nat
    BY <2>3, PartType
  <2>5. c \in Shares
    BY <2>1, <2>3, <2>4 DEF NewShare, Shares
  <2> QED BY <2>1, <2>2, <2>5
<1>8. IsFiniteSet(added)
  <2> DEFINE g == [l \in S |-> NewShare(p, l, f[l], total)]
  <2>1. added = {g[l] : l \in S}
    BY <1>3, <1>5
  <2> HIDE DEF g
  <2> QED BY <1>4, <2>1, ImageFinite
<1>9. listing \in [Listings -> ListingRows] /\ pub \in [Pubs -> PubRows] /\ contrib \in SUBSET Shares
      /\ IsFiniteSet(contrib)
  BY DEF SaleInv, SaleRows
<1>10. /\ listing' \in [Listings -> ListingRows]
       /\ \A l \in S : /\ listing'[l].coop = "INCLUDED" /\ listing'[l].kg = listing[l].kg
                       /\ listing'[l].weighed = listing[l].weighed
       /\ \A l \in Listings \ S : listing'[l] = listing[l]
  BY <1>2, <1>5, <1>9 DEF Included, ListingRows, CoopStatus
<1>11. /\ pub' \in [Pubs -> PubRows] /\ pub'[p].at = "ACTIVE" /\ pub'[p].shared = -1
       /\ \A q \in Pubs : q # p => pub'[q] = pub[q]
  <2>1. NewPub(total) \in PubRows /\ NewPub(total).at = "ACTIVE" /\ NewPub(total).shared = -1
    BY NewPubRow
  <2> QED BY <1>5, <1>9, <2>1
<1>12. /\ desk' \in [Desks -> DeskOrders] /\ SaleSeats'
       /\ desk'[d] = NoOrder /\ \A e \in Desks : e # d => desk'[e] = desk[e]
  BY <1>1, <1>5, AnswerStep, SeatStep
<1>13. /\ twist \subseteq twist' /\ twist' \subseteq twist \cup {"overlap"}
       /\ "overlap" \notin twist' => "overlap" \notin twist /\ \A l \in S : f[l] = listing[l]
  <2>1. /\ twist \subseteq twist' /\ twist' \subseteq twist \cup {"overlap"}
        /\ "overlap" \notin twist' => "overlap" \notin twist /\ read = Rows(S)
    BY <1>5 DEF Twist
  <2>2. ASSUME {<<l, f[l]>> : l \in S} = {<<l, listing[l]>> : l \in S}
        PROVE  \A l \in S : f[l] = listing[l]
    BY <2>2, SetExtPairs
  <2> QED BY <1>3, <2>1, <2>2 DEF Rows
<1>14. SaleRows'
  <2>1. IsFiniteSet(contrib')
    BY <1>5, <1>8, <1>9, FS_Union
  <2>2. contrib' \in SUBSET Shares
    BY <1>5, <1>7, <1>9
  <2> QED BY <1>5, <1>10, <1>11, <1>12, <1>13, <2>1, <2>2 DEF SaleInv, SaleRows
<1>15. Inserting'
  <2>1. Inserting /\ MemberOrder(desk["member"]) /\ desk'["member"] = desk["member"] /\ Staff \subseteq Desks
    BY <1>1, <1>12 DEF SaleInv, SaleSeats, Desks
  <2>2. ASSUME desk["member"].do = "attach", NEW x \in desk["member"].of
        PROVE  listing'[x].coop = "NULL"
    <3>1. x \in Listings /\ listing[x].coop = "NULL"
      BY <2>1, <2>2 DEF Inserting, Doing, MemberOrder
    <3>2. x \notin S
      BY <2>1, <3>1 DEF Inserting
    <3> QED BY <1>10, <3>1, <3>2
  <2>3. ASSUME NEW x \in Listings, listing'[x].coop = "NULL"
        PROVE  /\ desk["member"].do = "attach" /\ desk["member"].of = {x}
               /\ \A e \in Staff : x \notin desk'[e].of
    <3>1. x \notin S /\ listing[x].coop = "NULL"
      BY <1>10, <2>3
    <3>2. /\ desk["member"].do = "attach" /\ desk["member"].of = {x}
          /\ \A e \in Staff : x \notin desk[e].of
      BY <2>1, <3>1 DEF Inserting, Doing
    <3> QED BY <1>12, <2>1, <3>2 DEF NoOrder
  <2> QED BY <2>1, <2>2, <2>3 DEF Inserting, Doing
<1>16. ASSUME "overlap" \notin twist'
       PROVE  /\ "overlap" \notin twist /\ \A c \in contrib : c.of \in Listings \ S
              /\ \A l \in S : listing[l].coop = "VALIDATED" /\ listing[l] = f[l]
  BY <1>3, <1>9, <1>13, <1>16 DEF SaleInv, Contributed, Shares
<1>17. Contributed'
  <2> SUFFICES ASSUME "overlap" \notin twist' PROVE Contributed'
    BY DEF Contributed
  <2>1. \A c, e \in added : c.of = e.of => c = e
    BY <1>7
  <2>2. \A c \in added : c.of \in S
    BY <1>7
  <2> QED BY <1>5, <1>10, <1>16, <2>1, <2>2 DEF Contributed, SaleInv
<1>18. Advanced'
  <2> SUFFICES ASSUME twist' = {} PROVE Advanced'
    BY DEF Advanced
  <2>1. Advanced /\ twist = {} /\ \A l \in S : listing[l].coop = "VALIDATED"
    BY <1>13, <1>16 DEF SaleInv
  <2>2. ASSUME NEW e \in Staff, desk'[e].do = "advance"
        PROVE  desk'[e] = desk[e]
    BY <1>12, <2>2 DEF NoOrder, Desks
  <2>3. ASSUME NEW x \in Listings
        PROVE
    /\ listing'[x].coop = "GONE" => listing'[x] = NoListing /\ adv'[x] = NoAdvance
    /\ listing'[x].coop = "NULL" => listing'[x].weighed = 0 /\ adv'[x] = NoAdvance
    /\ listing'[x].coop = "PENDING" => listing'[x].weighed = 0
    /\ listing'[x].coop \in {"VALIDATED", "INCLUDED"} => listing'[x].weighed > 0
    /\ listing'[x].coop \in {"PENDING", "VALIDATED", "INCLUDED"} =>
         /\ WithinValue(adv'[x].due, listing'[x])
         /\ \A e \in Staff : desk'[e].do = "advance" /\ desk'[e].of = {x} =>
              \A r \in desk'[e].saw : WithinValue(r[2].due + Advance, listing'[x])
    <3>1. CASE x \in S
      BY <1>5, <1>10, <2>1, <2>2, <3>1 DEF Advanced, Doing, WithinValue
    <3>2. CASE x \notin S
      <4>1. listing'[x] = listing[x] /\ adv'[x] = adv[x]
        BY <1>5, <1>10, <3>2
      <4> QED BY <2>1, <2>2, <4>1 DEF Advanced, Doing
    <3> QED BY <3>1, <3>2
  <2> QED BY <2>3 DEF Advanced, Doing, WithinValue
<1>19. PaidOut'
  <2> SUFFICES ASSUME twist' = {} PROVE PaidOut'
    BY DEF PaidOut
  <2>1. PaidOut /\ twist = {} /\ \A c \in contrib : c.of \in Listings \ S
    BY <1>13, <1>16 DEF SaleInv
  <2>2. \A l \in S : got[l] = 0 /\ adv[l].back = 0
    BY <1>2, <2>1 DEF PaidOut
  <2>3. \A c \in added : c.of \in S /\ ~c.paid /\ c.amount = 0
    BY <1>7
  <2>4. got' = got /\ adv' = adv /\ contrib' = contrib \cup added
    BY <1>5
  <2> QED BY <2>1, <2>2, <2>3, <2>4 DEF PaidOut
<1>20. Parted'
  <2> SUFFICES ASSUME twist' = {} PROVE Parted'
    BY DEF Parted
  <2>1. Parted /\ twist = {} /\ \A c \in contrib : c.of \in Listings \ S
    BY <1>13, <1>16 DEF SaleInv
  <2>2. \A c \in contrib : c.pub \in Pubs /\ c.pub # p
    BY <1>5, <1>9, <2>1 DEF Parted, Shares
  <2>3. ASSUME NEW q \in Pubs, q # p PROVE WeightOf(q)' = WeightOf(q)
    <3>1. ListingsOf(q)' = ListingsOf(q)
      BY <1>5, <1>7, <2>3 DEF ListingsOf
    <3>2. \A l \in ListingsOf(q) : listing'[l].weighed = listing[l].weighed
      BY <1>10 DEF ListingsOf
    <3> QED BY <1>14, <3>1, <3>2, SameWeight DEF SaleInv
  <2>4. WeightOf(p)' = total
    <3> DEFINE h == [l \in S |-> f[l].weighed]
               g == WeighedAt'
    <3>1. ListingsOf(p)' = S
      <4>1. ASSUME NEW l \in S PROVE l \in ListingsOf(p)'
        <5>1. PICK c \in added : c = NewShare(p, l, f[l], total)
          BY <1>6, <4>1
        <5>2. c.pub = p /\ c.of = l
          BY <5>1 DEF NewShare
        <5> QED BY <1>2, <1>5, <5>2 DEF ListingsOf
      <4>2. ASSUME NEW l \in ListingsOf(p)' PROVE l \in S
        BY <1>5, <1>7, <2>2 DEF ListingsOf
      <4> QED BY <4>1, <4>2
    <3>2. \A l \in S : h[l] \in Int /\ h[l] = g[l]
      BY <1>2, <1>10, <1>16 DEF WeighedAt, ListingRows
    <3> HIDE DEF h, g
    <3>3. SumFunctionOnSet(h, S) = SumFunctionOnSet(g, S)
      BY <1>4, <3>2, SumEqual DEF Ints
    <3>4. total = SumFunctionOnSet(h, S)
      BY <1>4 DEF h
    <3> QED BY <3>1, <3>3, <3>4 DEF WeightOf, g
  <2>5. ASSUME NEW c \in contrib' PROVE
         /\ pub'[c.pub].at # "NONE"
         /\ c.part = Rounded(10000 * listing'[c.of].weighed, WeightOf(c.pub)')
         /\ c.paid => pub'[c.pub].shared \in Nat /\ c.gross = Gross(c, pub'[c.pub].shared)
         /\ ~c.paid => pub'[c.pub].shared = -1
    <3>1. CASE c \in contrib
      <4>1. c.pub \in Pubs /\ c.pub # p /\ pub'[c.pub] = pub[c.pub]
        BY <1>11, <2>2, <3>1
      <4>2. listing'[c.of].weighed = listing[c.of].weighed
        BY <1>10, <2>1, <3>1
      <4>3. WeightOf(c.pub)' = WeightOf(c.pub)
        BY <2>3, <4>1
      <4> QED BY <2>1, <3>1, <4>1, <4>2, <4>3 DEF Parted
    <3>2. CASE c \in added
      <4>1. c.pub = p /\ ~c.paid /\ c.of \in S /\ c.part = Part(f[c.of], total)
        BY <1>7, <3>2
      <4>2. listing'[c.of].weighed = f[c.of].weighed
        BY <1>10, <1>16, <4>1
      <4> QED BY <1>11, <2>4, <4>1, <4>2 DEF Part
    <3> QED BY <1>5, <3>1, <3>2
  <2>6. \A q \in Pubs : pub'[q].at = "NONE" => pub'[q].shared = -1
    BY <1>11, <2>1 DEF Parted
  <2> QED BY <2>5, <2>6 DEF Parted
<1> QED BY <1>12, <1>14, <1>15, <1>17, <1>18, <1>19, <1>20 DEF SaleInv

-----------------------------------------------------------------------------
(* Publications and advances                                               *)

\* A publication is deleted, and its contributions stay (deletePublicationCoop)
LEMMA DeletePublicationStep ==
  ASSUME SaleInv, NEW p \in Pubs, DeletePublicationCoop(p)
  PROVE  SaleInv'
<1>1. /\ pub' = [pub EXCEPT ![p] = [NoPub EXCEPT !.at = "DELETED"]]
      /\ contrib' = {c \in contrib : c.pub # p}
      /\ twist' = twist \cup {"deleted"}
      /\ UNCHANGED <<listing, adv, got, chest, desk>>
  BY DEF DeletePublicationCoop
<1>2. [NoPub EXCEPT !.at = "DELETED"] \in PubRows
  BY DEF NoPub, PubRows
<1>3. SaleRows'
  <2>1. contrib' \subseteq contrib /\ IsFiniteSet(contrib')
    BY <1>1, FS_Subset DEF SaleInv, SaleRows
  <2>2. pub' \in [Pubs -> PubRows]
    BY <1>1, <1>2 DEF SaleInv, SaleRows
  <2> QED BY <1>1, <2>1, <2>2 DEF SaleInv, SaleRows
<1>4. SaleSeats' /\ Inserting'
  BY <1>1 DEF SaleInv, SaleSeats, Inserting, Doing
<1>5. Contributed'
  BY <1>1 DEF SaleInv, Contributed
<1>6. twist' # {}
  BY <1>1
<1> QED BY <1>3, <1>4, <1>5, <1>6 DEF SaleInv, Advanced, PaidOut, Parted

\* A buyer takes kilos of a publication
LEMMA SellStep ==
  ASSUME SaleInv, NEW p \in Pubs, NEW kg \in Lots, SellPublication(p, kg)
  PROVE  SaleInv'
<1>1. /\ pub[p].at = "ACTIVE" /\ kg <= pub[p].kg
      /\ pub' = [pub EXCEPT ![p].kg = @ - kg, ![p].sold = @ + kg,
                            ![p].at = IF pub[p].kg = kg THEN "SOLD" ELSE @]
      /\ chest' = chest + Price * kg
      /\ UNCHANGED <<listing, contrib, adv, got, desk, twist>>
  BY DEF SellPublication
<1>2. pub \in [Pubs -> PubRows] /\ chest \in Nat /\ kg \in Nat /\ Price \in Nat
  BY SaleAssumption DEF SaleInv, SaleRows
<1>3. chest' \in Nat
  BY <1>1, <1>2, Mul
<1>4. pub[p].kg - kg \in Nat /\ pub[p].sold + kg \in Nat
  BY <1>1, <1>2 DEF PubRows
<1>5. /\ pub' \in [Pubs -> PubRows]
      /\ \A q \in Pubs : pub'[q].shared = pub[q].shared /\ (pub'[q].at = "NONE" <=> pub[q].at = "NONE")
  BY <1>1, <1>2, <1>4 DEF PubRows
<1>6. SaleRows'
  BY <1>1, <1>3, <1>5 DEF SaleInv, SaleRows
<1>7. SaleSeats' /\ Inserting' /\ Contributed'
  BY <1>1 DEF SaleInv, SaleSeats, Inserting, Doing, Contributed
<1>8. Advanced' /\ PaidOut'
  BY <1>1 DEF SaleInv, Advanced, Doing, WithinValue, PaidOut
<1>9. SameBooks
  BY <1>1, <1>5 DEF SameBooks
<1> QED BY <1>6, <1>7, <1>8, <1>9, PartedKept DEF SaleInv

\* The cooperative pays an advance on a listing (payAdvance)
LEMMA PayAdvanceStep ==
  ASSUME SaleInv, NEW d \in Staff, PayAdvance(d)
  PROVE  SaleInv'
<1>1. d # "member" /\ d \in Desks
  BY SaleAssumption DEF Desks
<1>2. PICK l \in Listings : desk[d].of = {l}
  BY DEF SaleInv, SaleSeats, StaffOrder, PayAdvance, Doing
<1>3. PICK n \in Nat : desk[d].saw = {<<l, [due |-> n]>>}
  BY <1>2 DEF SaleInv, SaleSeats, StaffOrder, PayAdvance, Doing
<1>4. It(d) = l /\ Doing(d, "advance") /\ Answer(d) /\ UNCHANGED <<listing, pub, contrib, got>>
  BY <1>2, ItIs DEF PayAdvance
<1>5. CASE ~(Covers(Advance) /\ listing[l] # NoListing)
  <2>1. UNCHANGED <<chest, adv, twist>>
    BY <1>4, <1>5 DEF PayAdvance
  <2>2. NoOrder \in DeskOrders /\ StaffOrder(NoOrder) /\ NoOrder.of = {} /\ NoOrder.do # "advance"
    BY RestOrder DEF NoOrder
  <2>3. desk' = [desk EXCEPT ![d] = NoOrder]
    BY <1>4 DEF Answer
  <2> QED BY <1>4, <2>1, <2>2, <2>3, StaffAsk
<1>6. CASE Covers(Advance) /\ listing[l] # NoListing
  <2>1. /\ chest' = chest - Advance
        /\ adv' = [adv EXCEPT ![l].due = @ + Advance]
        /\ twist' = twist \cup (IF Dues({l}) = desk[d].saw THEN {} ELSE {"overlap"})
                          \cup (IF \E c \in contrib : c.of = l /\ c.paid THEN {"late"} ELSE {})
    BY <1>4, <1>6 DEF PayAdvance
  <2>2. /\ adv \in [Listings -> AdvRows] /\ chest \in Nat /\ Advance \in Nat /\ chest >= Advance
        /\ listing[l] \in ListingRows
    BY <1>6, SaleAssumption DEF SaleInv, SaleRows, Covers
  <2>3. /\ adv' \in [Listings -> AdvRows] /\ chest' \in Nat
        /\ adv'[l].due = adv[l].due + Advance /\ adv'[l].back = adv[l].back
        /\ \A x \in Listings : x # l => adv'[x] = adv[x]
    BY <2>1, <2>2 DEF AdvRows
  <2>4. /\ desk' \in [Desks -> DeskOrders] /\ SaleSeats'
        /\ desk'[d] = NoOrder /\ \A e \in Desks : e # d => desk'[e] = desk[e]
    BY <1>1, <1>4, AnswerStep, SeatStep
  <2>5. twist \subseteq twist' /\ twist' \subseteq {"overlap", "deleted", "late"}
    BY <2>1 DEF SaleInv, SaleRows
  <2>6. SaleRows'
    BY <1>4, <2>3, <2>4, <2>5 DEF SaleInv, SaleRows
  <2>7. Inserting'
    <3>1. Inserting /\ Staff \subseteq Desks /\ desk'["member"] = desk["member"]
      BY <1>1, <2>4 DEF SaleInv, Desks
    <3>2. \A e \in Staff : desk'[e].of \subseteq desk[e].of
      BY <2>4, <3>1 DEF NoOrder
    <3> QED BY <1>4, <3>1, <3>2 DEF Inserting, Doing
  <2>8. Contributed'
    BY <1>4, <2>5 DEF SaleInv, Contributed
  <2>9. ASSUME twist' = {}
        PROVE  twist = {} /\ n = adv[l].due /\ \A c \in contrib : c.paid => c.of # l
    <3>1. twist = {} /\ Dues({l}) = desk[d].saw /\ \A c \in contrib : c.paid => c.of # l
      BY <2>1, <2>9
    <3>2. Dues({l}) = {<<l, [due |-> adv[l].due]>>}
      BY DEF Dues
    <3>3. <<l, [due |-> adv[l].due]>> = <<l, [due |-> n]>>
      <4>1. {<<l, [due |-> adv[l].due]>>} = {<<l, [due |-> n]>>}
        BY <1>3, <3>1, <3>2
      <4>2. \A x, y : {x} = {y} => x = y
        OBVIOUS
      <4> QED BY <4>1, <4>2
    <3>4. [due |-> adv[l].due] = [due |-> n]
      BY <3>3
    <3>5. [due |-> adv[l].due].due = n
      BY <3>4
    <3> QED BY <3>1, <3>5
  <2>10. Advanced'
    <3> SUFFICES ASSUME twist' = {} PROVE Advanced'
      BY DEF Advanced
    <3>1. Advanced /\ Inserting /\ twist = {} /\ listing' = listing /\ listing[l].coop # "NULL"
      BY <1>2, <1>4, <2>9 DEF SaleInv, Inserting
    <3>2. listing[l].coop # "GONE"
      BY <1>6, <3>1 DEF Advanced
    <3>3. listing[l].coop \in {"PENDING", "VALIDATED", "INCLUDED"} => WithinValue(adv'[l].due, listing[l])
      <4> SUFFICES ASSUME listing[l].coop \in {"PENDING", "VALIDATED", "INCLUDED"}
                   PROVE  WithinValue(adv'[l].due, listing[l])
        OBVIOUS
      <4>1. \A r \in desk[d].saw : WithinValue(r[2].due + Advance, listing[l])
        BY <1>2, <1>4, <3>1 DEF Advanced
      <4>2. WithinValue(<<l, [due |-> n]>>[2].due + Advance, listing[l])
        BY <1>3, <4>1
      <4>3. <<l, [due |-> n]>>[2].due = adv[l].due
        BY <2>9
      <4> QED BY <2>3, <4>2, <4>3
    <3>4. ASSUME NEW e \in Staff, desk'[e].do = "advance"
          PROVE  desk'[e] = desk[e]
      BY <2>4, <3>4 DEF NoOrder, Desks
    <3>5. ASSUME NEW x \in Listings
          PROVE
      /\ listing[x].coop = "GONE" => listing[x] = NoListing /\ adv'[x] = NoAdvance
      /\ listing[x].coop = "NULL" => listing[x].weighed = 0 /\ adv'[x] = NoAdvance
      /\ listing[x].coop = "PENDING" => listing[x].weighed = 0
      /\ listing[x].coop \in {"VALIDATED", "INCLUDED"} => listing[x].weighed > 0
      /\ listing[x].coop \in {"PENDING", "VALIDATED", "INCLUDED"} =>
           /\ WithinValue(adv'[x].due, listing[x])
           /\ \A e \in Staff : desk'[e].do = "advance" /\ desk'[e].of = {x} =>
                \A r \in desk'[e].saw : WithinValue(r[2].due + Advance, listing[x])
      <4>1. CASE x = l
        BY <3>1, <3>2, <3>3, <3>4, <4>1 DEF Advanced, Doing
      <4>2. CASE x # l
        BY <2>3, <3>1, <3>4, <4>2 DEF Advanced, Doing
      <4> QED BY <4>1, <4>2
    <3> QED BY <3>1, <3>5 DEF Advanced, Doing, WithinValue
  <2>11. PaidOut'
    <3>1. \A c \in contrib : c.of \in Listings
      BY DEF SaleInv, SaleRows, Shares
    <3>2. ASSUME twist' = {}
          PROVE  /\ twist = {} /\ contrib' = contrib
                 /\ \A x \in Listings : got'[x] = got[x] /\ adv'[x].back = adv[x].back
                 /\ \A c \in contrib : c.paid => adv'[c.of].due = adv[c.of].due
      BY <1>4, <2>3, <2>9, <3>1, <3>2
    <3> QED BY <3>2, PaidKept
  <2>12. SameBooks
    BY <1>4, <2>9 DEF SameBooks
  <2> QED BY <2>4, <2>6, <2>7, <2>8, <2>10, <2>11, <2>12, PartedKept DEF SaleInv
<1> QED BY <1>5, <1>6

-----------------------------------------------------------------------------
(* The distribution                                                        *)

\* The lines of a breakdown
LinesOf(read) == {r[2].line : r \in read}
\* The line of a contribution, paid of n francs to distribute
LineOf(c, n) == [c EXCEPT !.paid = TRUE, !.amount = Net(c, n), !.gross = Gross(c, n)]

\* A breakdown that is still true has a line for each unpaid contribution
LEMMA FreshLines ==
  ASSUME SaleInv, NEW p \in Pubs, NEW n, n = Distributable(p),
         NEW lines, lines = LinesOf(Breakdown(p))
  PROVE  /\ \A c \in lines : \E u \in Unpaid(p) : c = LineOf(u, n)
         /\ \A u \in Unpaid(p) :
              /\ LineOf(u, n) \in lines /\ u \in contrib /\ u.pub = p /\ ~u.paid
              /\ LineOf(u, n).of = u.of /\ LineOf(u, n).pub = p /\ LineOf(u, n).part = u.part
              /\ LineOf(u, n).paid
              /\ LineOf(u, n).amount = Max({0, LineOf(u, n).gross - adv[u.of].due})
<1> DEFINE rowOf(c) == <<c.of, [due |-> adv[c.of].due, line |-> LineOf(c, n)]>>
<1>1. Breakdown(p) = {rowOf(c) : c \in Unpaid(p)}
  BY DEF Breakdown, LineOf
<1>2. \A c : rowOf(c)[2].line = LineOf(c, n)
  OBVIOUS
<1> HIDE DEF rowOf
<1>3. lines = {LineOf(u, n) : u \in Unpaid(p)}
  BY <1>1, <1>2 DEF LinesOf
<1>4. ASSUME NEW u \in Unpaid(p)
      PROVE  /\ u \in contrib /\ u.pub = p /\ ~u.paid
             /\ LineOf(u, n).of = u.of /\ LineOf(u, n).pub = p /\ LineOf(u, n).part = u.part
             /\ LineOf(u, n).paid
             /\ LineOf(u, n).amount = Max({0, LineOf(u, n).gross - adv[u.of].due})
  <2>1. u \in Shares /\ u \in contrib /\ u.pub = p /\ ~u.paid
    BY DEF Unpaid, SaleInv, SaleRows
  <2> QED BY <2>1 DEF LineOf, Shares, Net
<1> QED BY <1>3, <1>4

LEMMA OneAmount ==
  ASSUME NEW c \in Shares
  PROVE  Amounts({c}) = c.amount /\ Amounts({}) = 0
<1> DEFINE f == [x \in {c} |-> x.amount]
<1>1. IsFiniteSet({c}) /\ Ints(f, {c}) /\ f[c] = c.amount /\ \A x \in {c} \ {c} : f[x] = 0
  <2>1. IsFiniteSet({c})
    BY FS_Singleton
  <2>2. c.amount \in Int /\ f[c] = c.amount
    BY DEF Shares
  <2> QED BY <2>1, <2>2 DEF Ints
<1> HIDE DEF f
<1>2. SumFunctionOnSet(f, {c}) = f[c]
  BY <1>1, SumOnly
<1> QED BY <1>1, <1>2, SumEmpty DEF Amounts, f

\* Amounts of finitely many lines are a natural number
LEMMA AmountsType ==
  ASSUME NEW S \in SUBSET Shares, IsFiniteSet(S)
  PROVE  Amounts(S) \in Nat
<1> DEFINE f == [x \in S |-> x.amount]
<1>1. \A x \in S : f[x] \in Nat
  BY DEF Shares
<1> HIDE DEF f
<1>2. SumFunctionOnSet(f, S) \in Nat
  BY <1>1, SumNat
<1> QED BY <1>2 DEF Amounts, f

\* What a distribution does when it goes through
Distributed(d, p, lines) ==
  /\ chest >= Amounts(lines) /\ chest' = chest - Amounts(lines)
  /\ contrib' = {c \in contrib : c.pub # p \/ {x \in lines : x.of = c.of} = {}} \cup lines
  /\ got' = [l \in Listings |-> got[l] + Amounts({x \in lines : x.of = l})]
  /\ adv' = [l \in Listings |-> IF {x \in lines : x.of = l} = {} THEN adv[l]
                                ELSE [due |-> 0, back |-> adv[l].back + adv[l].due]]
  /\ pub' = [pub EXCEPT ![p].shared = desk[d].kg]
  /\ Twist(d, Breakdown(p)) /\ Answer(d) /\ UNCHANGED listing

\* What it reads again is what was read
StillTrue(p, lines) ==
  /\ twist' = twist
  /\ \A c \in lines : \E u \in Unpaid(p) : c = LineOf(u, Distributable(p))
  /\ \A u \in Unpaid(p) :
       LET c == LineOf(u, Distributable(p)) IN
       /\ c \in lines /\ u \in contrib /\ u.pub = p /\ ~u.paid
       /\ c.of = u.of /\ c.pub = p /\ c.part = u.part /\ c.paid
       /\ c.amount = Max({0, c.gross - adv[u.of].due})

\* The request of a distribution
LEMMA DistributeOrder ==
  ASSUME SaleInv, NEW d \in Staff, Doing(d, "distribute"),
         NEW lines, lines = LinesOf(desk[d].saw)
  PROVE  \E p \in Pubs :
           /\ desk[d].pub = {p} /\ (CHOOSE x \in Pubs : desk[d].pub = {x}) = p
           /\ desk[d].kg \in Nat /\ lines \in SUBSET Shares /\ IsFiniteSet(lines) /\ lines # {}
           /\ \A c \in lines : c.pub = p /\ c.gross = Gross(c, desk[d].kg)
<1> DEFINE k == desk[d]
<1>1. StaffOrder(k) /\ k \in DeskOrders /\ k.do = "distribute"
  BY DEF SaleInv, SaleSeats, SaleRows, Doing, Desks
<1> HIDE DEF k
<1>2. PICK p \in Pubs : k.pub = {p}
  BY <1>1 DEF StaffOrder
<1>3. /\ k.saw \in SUBSET (Listings \X [due : Nat, line : Shares])
      /\ IsFiniteSet(k.saw) /\ k.saw # {} /\ k.kg \in Nat
      /\ \A r \in k.saw : Computed(r, k)
  BY <1>1 DEF StaffOrder, DeskOrders
<1>4. lines = {r[2].line : r \in k.saw}
  BY DEF k, LinesOf
<1>5. ASSUME NEW r \in k.saw
      PROVE  r[2].line \in Shares /\ r[2].line.pub = p /\ r[2].line.gross = Gross(r[2].line, k.kg)
  <2>1. r[2].line \in Shares
    BY <1>3
  <2>2. {p} = {r[2].line.pub} /\ r[2].line.gross = Gross(r[2].line, k.kg)
    BY <1>2, <1>3 DEF Computed
  <2>3. \A x, y : {x} = {y} => x = y
    OBVIOUS
  <2> QED BY <2>1, <2>2, <2>3
<1>6. IsFiniteSet(lines)
  <2> DEFINE g == [r \in k.saw |-> r[2].line]
  <2>1. lines = {g[r] : r \in k.saw}
    BY <1>4
  <2> HIDE DEF g
  <2>2. IsFiniteSet({g[r] : r \in k.saw})
    BY <1>3, ImageFinite
  <2> QED BY <2>1, <2>2
<1>7. (CHOOSE x \in Pubs : k.pub = {x}) = p
  <2>1. \A x \in Pubs : k.pub = {x} <=> x = p
    BY <1>2
  <2> QED BY <2>1
<1>8. /\ lines \in SUBSET Shares /\ lines # {}
      /\ \A c \in lines : c.pub = p /\ c.gross = Gross(c, k.kg)
  <2>1. ASSUME NEW c \in lines
        PROVE  c \in Shares /\ c.pub = p /\ c.gross = Gross(c, k.kg)
    <3>1. PICK r \in k.saw : c = r[2].line
      BY <1>4
    <3> QED BY <1>5, <3>1
  <2>2. lines # {}
    <3>1. PICK r \in k.saw : TRUE
      BY <1>3
    <3>2. r[2].line \in lines
      BY <1>4
    <3> QED BY <3>2
  <2> QED BY <2>1, <2>2
<1> QED BY <1>2, <1>3, <1>6, <1>7, <1>8 DEF k

\* Paying the lines of a breakdown that is still true, unless requests overlapped, keeps the
\* invariant
LEMMA DistributedStep ==
  ASSUME SaleInv, NEW d \in Staff, NEW p \in Pubs, NEW lines \in SUBSET Shares,
         IsFiniteSet(lines), lines # {}, desk[d].kg \in Nat,
         \A c \in lines : c.pub = p /\ c.gross = Gross(c, desk[d].kg),
         Distributed(d, p, lines), "overlap" \notin twist' => StillTrue(p, lines)
  PROVE  SaleInv'
<1> DEFINE Line(l) == {x \in lines : x.of = l}
           n == Distributable(p)
<1>1. d # "member" /\ d \in Desks
  BY SaleAssumption DEF Desks
<1>2. /\ chest' = chest - Amounts(lines) /\ chest >= Amounts(lines)
      /\ contrib' = {c \in contrib : c.pub # p \/ Line(c.of) = {}} \cup lines
      /\ got' = [l \in Listings |-> got[l] + Amounts(Line(l))]
      /\ adv' = [l \in Listings |-> IF Line(l) = {} THEN adv[l]
                                    ELSE [due |-> 0, back |-> adv[l].back + adv[l].due]]
      /\ pub' = [pub EXCEPT ![p].shared = desk[d].kg]
      /\ Answer(d) /\ UNCHANGED listing
      /\ twist \subseteq twist' /\ twist' \subseteq twist \cup {"overlap"}
  BY DEF Distributed, Twist
<1>3. /\ contrib \in SUBSET Shares /\ IsFiniteSet(contrib) /\ pub \in [Pubs -> PubRows]
      /\ listing \in [Listings -> ListingRows] /\ adv \in [Listings -> AdvRows]
      /\ got \in [Listings -> Nat] /\ chest \in Nat /\ twist \subseteq {"overlap", "deleted", "late"}
  BY DEF SaleInv, SaleRows
<1> HIDE DEF n
<1>4. /\ desk' \in [Desks -> DeskOrders] /\ SaleSeats'
      /\ desk'[d] = NoOrder /\ \A e \in Desks : e # d => desk'[e] = desk[e]
  BY <1>1, <1>2, AnswerStep, SeatStep
<1>5. \A l \in Listings : Amounts(Line(l)) \in Nat
  <2> TAKE l \in Listings
  <2>1. Line(l) \in SUBSET Shares /\ IsFiniteSet(Line(l))
    BY FS_Subset
  <2> HIDE DEF Line
  <2> QED BY <2>1, AmountsType
<1>6. SaleRows'
  <2>1. Amounts(lines) \in Nat
    BY AmountsType
  <2>2. chest' \in Nat
    BY <1>2, <1>3, <2>1
  <2>3. contrib' \in SUBSET Shares /\ IsFiniteSet(contrib')
    <3> DEFINE kept == {c \in contrib : c.pub # p \/ Line(c.of) = {}}
    <3>1. kept \in SUBSET contrib /\ contrib' = kept \cup lines
      BY <1>2
    <3> HIDE DEF kept
    <3>2. IsFiniteSet(kept)
      BY <1>3, <3>1, FS_Subset
    <3>3. IsFiniteSet(kept \cup lines)
      BY <3>2, FS_Union
    <3> QED BY <1>3, <3>1, <3>3
  <2>4. got' \in [Listings -> Nat]
    BY <1>2, <1>3, <1>5
  <2>5. adv' \in [Listings -> AdvRows]
    BY <1>2, <1>3 DEF AdvRows
  <2>6. pub' \in [Pubs -> PubRows]
    BY <1>2, <1>3 DEF PubRows
  <2> QED BY <1>2, <1>3, <1>4, <2>2, <2>3, <2>4, <2>5, <2>6 DEF SaleRows
<1>7. Inserting'
  <2>1. Inserting /\ Staff \subseteq Desks /\ desk'["member"] = desk["member"]
    BY <1>1, <1>4 DEF SaleInv, Desks
  <2>2. \A e \in Staff : desk'[e].of \subseteq desk[e].of
    BY <1>4, <2>1 DEF NoOrder
  <2> QED BY <1>2, <2>1, <2>2 DEF Inserting, Doing
<1>8. ASSUME "overlap" \notin twist'
      PROVE  /\ StillTrue(p, lines) /\ twist' = twist /\ "overlap" \notin twist
             /\ \A c \in contrib : listing[c.of].coop = "INCLUDED"
             /\ \A c, e \in contrib : c.of = e.of => c = e
  BY <1>2, <1>8 DEF SaleInv, Contributed, StillTrue
\* A line stands for the unpaid contribution of the same listing
<1>9. ASSUME "overlap" \notin twist', NEW c \in lines
      PROVE  \E u \in contrib :
               /\ u.pub = p /\ ~u.paid /\ c.of = u.of /\ c.part = u.part /\ c.paid
               /\ c = LineOf(u, n) /\ c.amount = Max({0, c.gross - adv[u.of].due})
  <2>1. PICK u \in Unpaid(p) : c = LineOf(u, Distributable(p))
    BY <1>8, <1>9 DEF StillTrue
  <2>2. /\ u \in contrib /\ u.pub = p /\ ~u.paid /\ c.of = u.of /\ c.part = u.part /\ c.paid
        /\ c.amount = Max({0, c.gross - adv[u.of].due})
    BY <1>8, <1>9, <2>1 DEF StillTrue
  <2> QED BY <2>1, <2>2 DEF n
<1>10. ASSUME "overlap" \notin twist'
       PROVE  \A c, e \in lines : c.of = e.of => c = e
  <2> TAKE c, e \in lines
  <2> HAVE c.of = e.of
  <2>1. PICK u \in contrib : c.of = u.of /\ c = LineOf(u, n)
    BY <1>9, <1>10
  <2>2. PICK v \in contrib : e.of = v.of /\ e = LineOf(v, n)
    BY <1>9, <1>10
  <2>3. u = v
    BY <1>8, <1>10, <2>1, <2>2
  <2> QED BY <2>1, <2>2, <2>3
<1>11. ASSUME "overlap" \notin twist', NEW c \in contrib', c \notin lines
       PROVE  c \in contrib /\ Line(c.of) = {}
  <2>1. c \in contrib /\ (c.pub # p \/ Line(c.of) = {})
    BY <1>2, <1>11
  <2>2. ASSUME c.pub # p, NEW x \in lines, x.of = c.of PROVE FALSE
    <3>1. PICK u \in contrib : u.pub = p /\ x.of = u.of
      BY <1>9, <1>11
    <3>2. u = c
      BY <1>8, <1>11, <2>1, <2>2, <3>1
    <3> QED BY <2>2, <3>1, <3>2
  <2> QED BY <2>1, <2>2
<1>12. Contributed'
  <2> SUFFICES ASSUME "overlap" \notin twist' PROVE Contributed'
    BY DEF Contributed
  <2>1. ASSUME NEW c \in contrib' PROVE listing'[c.of].coop = "INCLUDED"
    <3>1. CASE c \in lines
      <4>1. PICK u \in contrib : c.of = u.of
        BY <1>9, <3>1
      <4> QED BY <1>2, <1>8, <4>1
    <3>2. CASE c \notin lines
      BY <1>2, <1>8, <1>11, <3>2
    <3> QED BY <3>1, <3>2
  <2>2. ASSUME NEW c \in contrib', NEW e \in contrib', c.of = e.of PROVE c = e
    <3>1. CASE c \in lines /\ e \in lines
      BY <1>10, <2>2, <3>1
    <3>2. CASE c \notin lines /\ e \notin lines
      BY <1>8, <1>11, <2>2, <3>2
    <3>3. CASE c \in lines /\ e \notin lines
      BY <1>11, <2>2, <3>3
    <3>4. CASE c \notin lines /\ e \in lines
      BY <1>11, <2>2, <3>4
    <3> QED BY <3>1, <3>2, <3>3, <3>4
  <2> QED BY <2>1, <2>2 DEF Contributed
<1>13. ASSUME NEW l \in Listings, Line(l) = {}
       PROVE  adv'[l] = adv[l] /\ got'[l] = got[l]
  <2>1. PICK c \in lines : TRUE
    OBVIOUS
  <2>2. c \in Shares /\ got[l] \in Nat
    BY <1>3
  <2>3. Amounts(Line(l)) = 0
    BY <1>13, <2>2, OneAmount
  <2>4. got'[l] = got[l] + Amounts(Line(l)) /\ adv'[l] = adv[l]
    BY <1>2, <1>13
  <2> QED BY <2>2, <2>3, <2>4
<1>14. ASSUME NEW l \in Listings, Line(l) # {}
       PROVE  adv'[l].due = 0 /\ adv'[l].back = adv[l].back + adv[l].due
  BY <1>2, <1>14
<1>15. ASSUME NEW l \in Listings, Line(l) # {}, "overlap" \notin twist'
       PROVE  listing[l].coop = "INCLUDED"
  <2>1. PICK c \in lines : c.of = l
    BY <1>15
  <2>2. PICK u \in contrib : c.of = u.of
    BY <1>9, <1>15
  <2> QED BY <1>8, <1>15, <2>1, <2>2
<1>16. Advanced'
  <2> SUFFICES ASSUME twist' = {} PROVE Advanced'
    BY DEF Advanced
  <2>1. Advanced /\ twist = {} /\ listing' = listing
    BY <1>2 DEF SaleInv
  <2>2. ASSUME NEW e \in Staff, desk'[e].do = "advance"
        PROVE  desk'[e] = desk[e]
    BY <1>4, <2>2 DEF NoOrder, Desks
  <2>3. ASSUME NEW x \in Listings
        PROVE
      /\ listing[x].coop = "GONE" => listing[x] = NoListing /\ adv'[x] = NoAdvance
      /\ listing[x].coop = "NULL" => listing[x].weighed = 0 /\ adv'[x] = NoAdvance
      /\ listing[x].coop = "PENDING" => listing[x].weighed = 0
      /\ listing[x].coop \in {"VALIDATED", "INCLUDED"} => listing[x].weighed > 0
      /\ listing[x].coop \in {"PENDING", "VALIDATED", "INCLUDED"} =>
           /\ WithinValue(adv'[x].due, listing[x])
           /\ \A e \in Staff : desk'[e].do = "advance" /\ desk'[e].of = {x} =>
                \A r \in desk'[e].saw : WithinValue(r[2].due + Advance, listing[x])
    <3>1. CASE Line(x) = {}
      <4>1. adv'[x] = adv[x]
        BY <1>13, <3>1
      <4> HIDE DEF Line
      <4> QED BY <2>1, <2>2, <4>1 DEF Advanced, Doing
    <3>2. CASE Line(x) # {}
      <4>1. listing[x].coop = "INCLUDED" /\ adv'[x].due = 0
        BY <1>14, <1>15, <3>2
      <4>2. WithinValue(0, listing[x])
        BY <1>3, SaleAssumption, Mul DEF WithinValue, ListingRows
      <4> HIDE DEF Line
      <4> QED BY <2>1, <2>2, <4>1, <4>2 DEF Advanced, Doing
    <3> QED BY <3>1, <3>2
  <2> QED BY <2>1, <2>3 DEF Advanced, Doing, WithinValue
<1>17. PaidOut'
  <2> SUFFICES ASSUME twist' = {} PROVE PaidOut'
    BY DEF PaidOut
  <2>1. PaidOut /\ twist = {} /\ "overlap" \notin twist'
    BY <1>2 DEF SaleInv
  <2>2. ASSUME NEW l \in Listings, \A c \in contrib' : c.of # l
        PROVE  got'[l] = 0 /\ adv'[l].back = 0
    <3>1. Line(l) = {}
      BY <1>2, <2>2
    <3>2. \A c \in contrib : c.of # l
      BY <1>2, <2>2, <3>1
    <3> HIDE DEF Line
    <3> QED BY <1>13, <2>1, <3>1, <3>2 DEF PaidOut
  <2>3. ASSUME NEW c \in contrib'
        PROVE  /\ got'[c.of] = c.amount
               /\ ~c.paid => c.amount = 0 /\ adv'[c.of].back = 0
               /\ c.paid => c.amount = Max({0, c.gross - adv'[c.of].back}) /\ adv'[c.of].due = 0
    <3>1. CASE c \notin lines
      <4>1. c \in contrib /\ c.of \in Listings /\ Line(c.of) = {}
        BY <1>3, <1>11, <2>1, <3>1 DEF Shares
      <4>2. adv'[c.of] = adv[c.of] /\ got'[c.of] = got[c.of]
        BY <1>13, <4>1
      <4> HIDE DEF Line
      <4> QED BY <2>1, <4>1, <4>2 DEF PaidOut
    <3>2. CASE c \in lines
      <4>1. c \in Shares /\ c.of \in Listings /\ c.amount \in Nat
        BY <3>2 DEF Shares
      <4>2. PICK u \in contrib : /\ ~u.paid /\ c.of = u.of /\ c.paid
                                 /\ c.amount = Max({0, c.gross - adv[u.of].due})
        BY <1>9, <2>1, <3>2
      <4>3. got[c.of] = 0 /\ adv[c.of].back = 0
        BY <2>1, <4>2 DEF PaidOut
      <4>4. Line(c.of) = {c}
        BY <1>10, <2>1, <3>2
      <4>5. got'[c.of] = 0 + c.amount
        <5>1. Amounts({c}) = c.amount
          BY <4>1, OneAmount
        <5>2. got'[c.of] = got[c.of] + Amounts(Line(c.of))
          BY <1>2, <4>1
        <5> QED BY <4>3, <4>4, <5>1, <5>2
      <4>6. Line(c.of) # {}
        BY <4>4
      <4>7. adv'[c.of].due = 0 /\ adv'[c.of].back = adv[c.of].back + adv[c.of].due
        BY <1>14, <4>1, <4>6
      <4>8. adv[c.of].due \in Nat
        BY <1>3, <4>1 DEF AdvRows
      <4>9. adv'[c.of].back = adv[u.of].due
        BY <4>2, <4>3, <4>7, <4>8
      <4>10. c.amount = Max({0, c.gross - adv'[c.of].back})
        BY <4>2, <4>9
      <4>11. got'[c.of] = c.amount
        BY <4>1, <4>5
      <4> QED BY <4>2, <4>7, <4>10, <4>11
    <3> QED BY <3>1, <3>2
  <2> QED BY <2>2, <2>3 DEF PaidOut
<1>18. Parted'
  <2> SUFFICES ASSUME twist' = {} PROVE Parted'
    BY DEF Parted
  <2>1. Parted /\ twist = {} /\ "overlap" \notin twist' /\ SaleRows
    BY <1>2 DEF SaleInv
  <2>2. PICK w \in contrib : w.pub = p /\ ~w.paid
    BY <1>9, <2>1
  <2>3. pub[p].shared = -1 /\ pub[p].at # "NONE"
    BY <2>1, <2>2 DEF Parted
  <2>4. \A c \in contrib : c.pub = p => c \in Unpaid(p)
    <3>1. -1 \notin Nat
      OBVIOUS
    <3> QED BY <2>1, <2>3, <3>1 DEF Parted, Unpaid
  <2>5. \A c \in contrib : c.pub = p => LineOf(c, n) \in lines /\ LineOf(c, n).of = c.of
    BY <1>8, <2>1, <2>4 DEF StillTrue, n
  <2>6. ASSUME NEW q \in Pubs PROVE ListingsOf(q)' = ListingsOf(q)
    <3>1. ASSUME NEW l \in ListingsOf(q) PROVE l \in ListingsOf(q)'
      <4>1. PICK c \in contrib : c.pub = q /\ c.of = l /\ l \in Listings
        BY <3>1 DEF ListingsOf
      <4>2. CASE q = p
        <5>1. LineOf(c, n) \in contrib' /\ LineOf(c, n).of = l /\ LineOf(c, n).pub = q
          BY <1>2, <2>5, <4>1, <4>2
        <5> QED BY <4>1, <5>1 DEF ListingsOf
      <4>3. CASE q # p
        <5>1. c \in contrib'
          BY <1>2, <4>1, <4>3
        <5> QED BY <4>1, <5>1 DEF ListingsOf
      <4> QED BY <4>2, <4>3
    <3>2. ASSUME NEW l \in ListingsOf(q)' PROVE l \in ListingsOf(q)
      <4>1. PICK c \in contrib' : c.pub = q /\ c.of = l /\ l \in Listings
        BY <3>2 DEF ListingsOf
      <4>2. CASE c \in lines
        <5>1. PICK u \in contrib : u.pub = p /\ c.of = u.of
          BY <1>9, <2>1, <4>2
        <5>2. c.pub = p
          BY <4>2
        <5> QED BY <4>1, <5>1, <5>2 DEF ListingsOf
      <4>3. CASE c \notin lines
        <5>1. c \in contrib
          BY <1>2, <4>3
        <5> QED BY <4>1, <5>1 DEF ListingsOf
      <4> QED BY <4>2, <4>3
    <3> QED BY <3>1, <3>2
  <2>7. ASSUME NEW q \in Pubs PROVE WeightOf(q)' = WeightOf(q)
    <3>1. ListingsOf(q)' = ListingsOf(q)
      BY <2>6
    <3> QED BY <1>2, <1>6, <2>1, <3>1, SameWeight
  <2>8. /\ pub'[p].shared = desk[d].kg /\ pub'[p].at = pub[p].at
        /\ \A q \in Pubs : q # p => pub'[q] = pub[q]
    BY <1>2, <1>3 DEF PubRows
  <2>9. ASSUME NEW c \in contrib' PROVE
         /\ pub'[c.pub].at # "NONE"
         /\ c.part = Rounded(10000 * listing'[c.of].weighed, WeightOf(c.pub)')
         /\ c.paid => pub'[c.pub].shared \in Nat /\ c.gross = Gross(c, pub'[c.pub].shared)
         /\ ~c.paid => pub'[c.pub].shared = -1
    <3>1. CASE c \in lines
      <4>1. PICK u \in contrib : u.pub = p /\ c.of = u.of /\ c.part = u.part /\ c.paid
        BY <1>9, <2>1, <3>1
      <4>2. c.pub = p /\ c.gross = Gross(c, desk[d].kg)
        BY <3>1
      <4>3. u.part = Rounded(10000 * listing[u.of].weighed, WeightOf(p))
        BY <2>1, <4>1 DEF Parted
      <4>4. c.part = Rounded(10000 * listing'[c.of].weighed, WeightOf(c.pub)')
        BY <1>2, <2>7, <4>1, <4>2, <4>3
      <4> QED BY <2>3, <2>8, <4>1, <4>2, <4>4
    <3>2. CASE c \notin lines
      <4>1. c \in contrib /\ c.pub # p /\ c.pub \in Pubs
        <5>1. c \in contrib /\ Line(c.of) = {}
          BY <1>11, <2>1, <3>2
        <5>2. c.pub = p => LineOf(c, n) \in Line(c.of)
          BY <2>5, <5>1
        <5> QED BY <1>3, <5>1, <5>2 DEF Shares
      <4>2. WeightOf(c.pub)' = WeightOf(c.pub) /\ pub'[c.pub] = pub[c.pub] /\ listing' = listing
        BY <1>2, <2>7, <2>8, <4>1
      <4> QED BY <2>1, <4>1, <4>2 DEF Parted
    <3> QED BY <3>1, <3>2
  <2>10. \A q \in Pubs : pub'[q].at = "NONE" => pub'[q].shared = -1
    BY <2>1, <2>3, <2>8 DEF Parted
  <2> QED BY <2>9, <2>10 DEF Parted
<1> QED BY <1>4, <1>6, <1>7, <1>12, <1>16, <1>17, <1>18 DEF SaleInv

\* The staff pays the shares of a publication, less the advances (distributePublication)
LEMMA DistributeStep ==
  ASSUME SaleInv, NEW d \in Staff, Distribute(d)
  PROVE  SaleInv'
<1>0. PICK lines : lines = LinesOf(desk[d].saw)
  OBVIOUS
<1>1. Doing(d, "distribute")
  BY DEF Distribute
<1>2. PICK p \in Pubs :
           /\ desk[d].pub = {p} /\ (CHOOSE x \in Pubs : desk[d].pub = {x}) = p
           /\ desk[d].kg \in Nat /\ lines \in SUBSET Shares /\ IsFiniteSet(lines) /\ lines # {}
           /\ \A c \in lines : c.pub = p /\ c.gross = Gross(c, desk[d].kg)
  BY <1>0, <1>1, DistributeOrder
<1>3. \/ Distributed(d, p, lines)
      \/ UNCHANGED <<pub, contrib, adv, got, chest, twist>> /\ Answer(d) /\ UNCHANGED listing
  BY <1>0, <1>2 DEF LinesOf, Distribute, Distributed, Covers
<1>4. CASE Distributed(d, p, lines)
  <2>1. ASSUME "overlap" \notin twist' PROVE StillTrue(p, lines)
    <3>1. twist' = twist /\ desk[d].saw = Breakdown(p)
      BY <1>4, <2>1 DEF Distributed, Twist
    <3>2. lines = LinesOf(Breakdown(p))
      BY <1>0, <3>1
    <3>3. PICK n : n = Distributable(p)
      OBVIOUS
    <3>4. /\ \A c \in lines : \E u \in Unpaid(p) : c = LineOf(u, n)
          /\ \A u \in Unpaid(p) :
              /\ LineOf(u, n) \in lines /\ u \in contrib /\ u.pub = p /\ ~u.paid
              /\ LineOf(u, n).of = u.of /\ LineOf(u, n).pub = p /\ LineOf(u, n).part = u.part
              /\ LineOf(u, n).paid
              /\ LineOf(u, n).amount = Max({0, LineOf(u, n).gross - adv[u.of].due})
      BY <3>2, <3>3, FreshLines
    <3> QED BY <3>1, <3>3, <3>4 DEF StillTrue
  <2> QED BY <1>2, <1>4, <2>1, DistributedStep
<1>5. CASE UNCHANGED <<pub, contrib, adv, got, chest, twist>> /\ Answer(d) /\ UNCHANGED listing
  <2>1. NoOrder \in DeskOrders /\ StaffOrder(NoOrder) /\ NoOrder.of = {} /\ NoOrder.do # "advance"
    BY RestOrder DEF NoOrder
  <2>2. desk' = [desk EXCEPT ![d] = NoOrder]
    BY <1>5 DEF Answer
  <2> QED BY <1>5, <2>1, <2>2, StaffAsk
<1> QED BY <1>3, <1>4, <1>5

-----------------------------------------------------------------------------
(* The invariant is inductive                                              *)

\* The invariant holds before anything is declared
LEMMA SaleInitInv == SaleInit => SaleInv
<1> SUFFICES ASSUME SaleInit PROVE SaleInv
  OBVIOUS
<1>1. NoListing \in ListingRows /\ NoPub \in PubRows /\ NoAdvance \in AdvRows
      /\ NoListing.coop = "GONE" /\ NoPub.at = "NONE" /\ NoPub.shared = -1 /\ NoAdvance.back = 0
  BY DEF NoListing, NoPub, NoAdvance, ListingRows, PubRows, AdvRows, CoopStatus
<1>2. NoOrder \in DeskOrders /\ MemberOrder(NoOrder) /\ StaffOrder(NoOrder)
      /\ NoOrder.do = "idle"
  BY RestOrder DEF NoOrder
<1>3. /\ listing = [l \in Listings |-> NoListing] /\ pub = [p \in Pubs |-> NoPub]
      /\ contrib = {} /\ adv = [l \in Listings |-> NoAdvance]
      /\ got = [l \in Listings |-> 0] /\ chest = Funds
      /\ desk = [d \in Desks |-> NoOrder] /\ twist = {}
  BY DEF SaleInit, NoAdvance
<1>4. SaleRows
  <2>1. IsFiniteSet({})
    BY FS_EmptySet
  <2> QED BY <1>1, <1>2, <1>3, <2>1, SaleAssumption DEF SaleRows
<1>5. SaleSeats /\ Inserting
  BY <1>1, <1>2, <1>3 DEF SaleSeats, Inserting, Doing, Desks
<1>6. Contributed /\ PaidOut /\ Parted
  BY <1>1, <1>3 DEF Contributed, PaidOut, Parted
<1>7. Advanced
  BY <1>1, <1>3 DEF Advanced
<1> QED BY <1>4, <1>5, <1>6, <1>7 DEF SaleInv

\* A step that changes nothing of the sales keeps their invariant
LEMMA SaleRest ==
  ASSUME SaleInv, UNCHANGED saleVars
  PROVE  SaleInv'
<1>1. UNCHANGED <<listing, pub, contrib, adv, got, chest, desk, twist>>
  BY DEF saleVars
<1>2. SaleRows' /\ SaleSeats' /\ Inserting' /\ Contributed'
  BY <1>1 DEF SaleInv, SaleRows, SaleSeats, Inserting, Contributed, Doing
<1>3. Advanced' /\ PaidOut'
  BY <1>1 DEF SaleInv, Advanced, Doing, WithinValue, PaidOut
<1>4. SameBooks
  BY <1>1 DEF SameBooks
<1> QED BY <1>2, <1>3, <1>4, PartedKept DEF SaleInv

\* Every request keeps the invariant of the sales
LEMMA SaleStep == SaleInv /\ [SaleNext]_saleVars => SaleInv'
<1> SUFFICES ASSUME SaleInv, [SaleNext]_saleVars PROVE SaleInv'
  OBVIOUS
<1>1. ASSUME NEW l \in Listings, NEW kg \in Declared, InsertListing(l, kg) \/ CheckListing(l, "update", kg)
      PROVE  SaleInv'
  BY <1>1, InsertStep, CheckListingStep, SaleAssumption
<1>2. CASE AttachListing \/ UpdateListing \/ DeleteListing
  BY <1>2, AttachStep, UpdateStep, DeleteStep
<1>3. ASSUME NEW l \in Listings, CheckListing(l, "delete", 0)
      PROVE  SaleInv'
  BY <1>3, CheckListingStep
<1>4. ASSUME NEW l \in Listings, NEW d \in Staff,
             CheckReject(d, l) \/ \E kg \in Weights : CheckValidate(d, l, kg)
      PROVE  SaleInv'
  BY <1>4, CheckJudgeStep
<1>5. ASSUME NEW l \in Listings, NEW d \in Staff, CheckAdvance(d, l)
      PROVE  SaleInv'
  BY <1>5, CheckAdvanceStep
<1>6. ASSUME NEW d \in Staff, Judge(d) \/ AggregateFails(d) \/ PayAdvance(d) \/ Distribute(d)
      PROVE  SaleInv'
  BY <1>6, JudgeStep, AggregateFailsStep, PayAdvanceStep, DistributeStep
<1>7. ASSUME NEW d \in Staff, NEW ls \in SUBSET Listings, CheckAggregate(d, ls)
      PROVE  SaleInv'
  BY <1>7, CheckAggregateStep
<1>8. ASSUME NEW d \in Staff, NEW p \in Pubs, Aggregate(d, p) \/ CheckDistribute(d, p)
      PROVE  SaleInv'
  BY <1>8, AggregateStep, CheckDistributeStep
<1>9. ASSUME NEW p \in Pubs, DeletePublicationCoop(p) \/ \E kg \in Lots : SellPublication(p, kg)
      PROVE  SaleInv'
  BY <1>9, DeletePublicationStep, SellStep
<1>10. CASE UNCHANGED saleVars
  BY <1>10, SaleRest
<1>11. CASE SaleNext
  BY <1>1, <1>2, <1>3, <1>4, <1>5, <1>6, <1>7, <1>8, <1>9, <1>11 DEF SaleNext
<1> QED BY <1>10, <1>11

-----------------------------------------------------------------------------
(* What the invariant says                                                 *)

\* Arithmetic: factors over a sum and in another order
LEMMA Distributes ==
  ASSUME NEW a \in Nat, NEW b \in Nat, NEW c \in Nat
  PROVE  a * (b + c) = a * b + a * c /\ a * (b * c) = b * (a * c) /\ a * b \in Nat
  OBVIOUS

\* The bounds of a share
NearShare(A, W, w, g) ==
  /\ 20000 * (W * g) <= 20000 * (A * w) + W * (10000 + A)
  /\ 20000 * (A * w) <= 20000 * (W * g) + W * (10000 + A)

\* A total of n shares
NearTotal(A, n, total) ==
  LET slack == n * (10000 + A) IN 20000 * total \in 20000 * A - slack .. 20000 * A + slack

\* The part of the weight w, and its share
IsShare(A, W, w, part, g) == part = Rounded(10000 * w, W) /\ g = Rounded(A * part, 10000)

\* A share is the part of the weight, to half a franc and half of the fourth decimal
LEMMA ShareBounds ==
  ASSUME NEW A \in Nat, NEW W \in Nat \ {0}, NEW w \in Nat, NEW part \in Nat, NEW g \in Nat,
         IsShare(A, W, w, part, g)
  PROVE  NearShare(A, W, w, g)
<1> DEFINE Ap == A * part
           Wp == W * part
           x == W * Ap
           y == W * g
           z == A * w
           k == A * W
<1>1. Ap \in Nat /\ Wp \in Nat /\ x \in Nat /\ y \in Nat /\ z \in Nat /\ k \in Nat
  BY Mul
<1>2. x = A * Wp /\ k = W * A
  BY Distributes
<1>3. 20000 * g <= 2 * Ap + 10000 /\ 2 * Ap <= 20000 * g + 10000
  <2>1. 2 * 10000 * g <= 2 * Ap + 10000 /\ 2 * Ap <= 2 * 10000 * g + 10000
    <3>1. g = Rounded(Ap, 10000)
      BY DEF IsShare
    <3>2. Ap \in Nat /\ 10000 \in Nat \ {0}
      BY <1>1
    <3> HIDE DEF Ap
    <3> QED BY <3>1, <3>2, RoundedBounds
  <2> QED BY <2>1
<1>4. 2 * Wp <= 20000 * w + W /\ 20000 * w <= 2 * Wp + W
  <2>1. 10000 * w \in Nat
    OBVIOUS
  <2>2. 2 * W * part <= 2 * (10000 * w) + W /\ 2 * (10000 * w) <= 2 * W * part + W
    BY <2>1, RoundedBounds DEF IsShare
  <2>3. 2 * W * part = 2 * Wp
    OBVIOUS
  <2> QED BY <2>2, <2>3
<1>5. ASSUME NEW u \in Nat, NEW v \in Nat, u <= v, NEW a \in Nat PROVE a * u <= a * v
  BY <1>5, Mul
<1>6. W * (20000 * g) <= W * (2 * Ap + 10000) /\ W * (2 * Ap) <= W * (20000 * g + 10000)
  <2> HIDE DEF Ap
  <2>1. 20000 * g \in Nat /\ 2 * Ap \in Nat /\ 2 * Ap + 10000 \in Nat /\ 20000 * g + 10000 \in Nat
    BY <1>1
  <2> QED BY <1>3, <1>5, <2>1
<1>7. A * (2 * Wp) <= A * (20000 * w + W) /\ A * (20000 * w) <= A * (2 * Wp + W)
  <2> HIDE DEF Wp
  <2>1. 20000 * w \in Nat /\ 2 * Wp \in Nat /\ 2 * Wp + W \in Nat /\ 20000 * w + W \in Nat
    BY <1>1
  <2> QED BY <1>4, <1>5, <2>1
<1>8. /\ W * (20000 * g) = 20000 * y /\ W * (2 * Ap) = 2 * x
      /\ W * (2 * Ap + 10000) = 2 * x + 10000 * W /\ W * (20000 * g + 10000) = 20000 * y + 10000 * W
  <2> HIDE DEF Ap
  <2> QED BY <1>1
<1>9. /\ A * (2 * Wp) = 2 * x /\ A * (20000 * w) = 20000 * z
      /\ A * (20000 * w + W) = 20000 * z + k /\ A * (2 * Wp + W) = 2 * x + k
  <2>1. /\ A * (2 * Wp) = 2 * (A * Wp) /\ A * (20000 * w) = 20000 * (A * w)
        /\ A * (20000 * w + W) = 20000 * (A * w) + A * W /\ A * (2 * Wp + W) = 2 * (A * Wp) + A * W
    <3> HIDE DEF Wp
    <3> QED BY <1>1
  <2> QED BY <1>2, <2>1
<1>10. W * (10000 + A) = 10000 * W + k
  BY <1>2
<1> HIDE DEF Ap, Wp, x, y, z, k
<1>11. 20000 * y <= 20000 * z + (10000 * W + k) /\ 20000 * z <= 20000 * y + (10000 * W + k)
  BY <1>1, <1>6, <1>7, <1>8, <1>9
<1> QED BY <1>10, <1>11 DEF NearShare, y, z

\* A sum of positive terms is positive
LEMMA PositiveSum ==
  ASSUME NEW S, IsFiniteSet(S), S # {}, NEW f, \A x \in S : f[x] \in Nat \ {0}
  PROVE  SumFunctionOnSet(f, S) \in Nat \ {0}
<1>1. PICK e \in S : TRUE
  OBVIOUS
<1>2. Ints(f, S) /\ IsFiniteSet(S \ {e}) /\ \A x \in S \ {e} : f[x] \in Nat
  BY FS_Subset DEF Ints
<1>3. SumFunctionOnSet(f, S) = f[e] + SumFunctionOnSet(f, S \ {e})
  BY <1>2, SumRemove
<1>4. SumFunctionOnSet(f, S \ {e}) \in Nat
  BY <1>2, SumNat
<1>5. f[e] \in Nat \ {0}
  OBVIOUS
<1> QED BY <1>3, <1>4, <1>5

\* The weight of a publication is that of its contributions
LEMMA WeightOfShares ==
  ASSUME SaleInv, twist = {}, NEW p \in Pubs,
         NEW cs, cs \subseteq contrib, \A c \in contrib : c \in cs <=> c.pub = p,
         NEW wt, \A c \in cs : wt[c] = listing[c.of].weighed
  PROVE  /\ SumFunctionOnSet(wt, cs) = WeightOf(p) /\ IsFiniteSet(cs)
         /\ \A c \in cs : wt[c] \in Nat \ {0}
<1>1. /\ contrib \in SUBSET Shares /\ IsFiniteSet(contrib) /\ listing \in [Listings -> ListingRows]
      /\ \A c \in contrib : listing[c.of].coop = "INCLUDED"
      /\ \A c, e \in contrib : c.of = e.of => c = e
      /\ \A l \in Listings : listing[l].coop = "INCLUDED" => listing[l].weighed > 0
  BY DEF SaleInv, SaleRows, Contributed, Advanced
<1>2. \A c \in contrib : c.of \in Listings
  BY <1>1 DEF Shares
<1>3. IsFiniteSet(cs) /\ cs \subseteq contrib
  BY <1>1, FS_Subset
<1>4. \A l \in Listings : listing[l].weighed \in Nat
  BY <1>1 DEF ListingRows
<1>5. \A c \in cs : wt[c] \in Nat \ {0}
  <2> TAKE c \in cs
  <2>1. c.of \in Listings /\ listing[c.of].weighed > 0 /\ listing[c.of].weighed \in Nat
    BY <1>1, <1>2, <1>3, <1>4
  <2>2. wt[c] = listing[c.of].weighed
    OBVIOUS
  <2> QED BY <2>1, <2>2
<1>6. PICK g : g = [c \in cs |-> c.of]
  OBVIOUS
<1>7. g \in [cs -> Listings] /\ \A c, e \in cs : g[c] = g[e] => c = e
  BY <1>1, <1>2, <1>3, <1>6
<1>8. {g[c] : c \in cs} = ListingsOf(p)
  BY <1>2, <1>3, <1>6 DEF ListingsOf
<1>9. PICK f : f = WeighedAt
  OBVIOUS
<1>10. \A l \in Listings : f[l] = listing[l].weighed
  BY <1>9 DEF WeighedAt
<1>11. Ints(f, Listings)
  BY <1>4, <1>10 DEF Ints
<1>12. \A c \in cs : wt[c] = f[g[c]]
  <2> TAKE c \in cs
  <2>1. g[c] = c.of /\ wt[c] = listing[c.of].weighed /\ c.of \in Listings
    BY <1>2, <1>3, <1>6
  <2> QED BY <1>10, <2>1
<1>13. SumFunctionOnSet(wt, cs) = SumFunctionOnSet(f, {g[c] : c \in cs})
  BY <1>3, <1>7, <1>11, <1>12, SumImage
<1> QED BY <1>3, <1>5, <1>8, <1>9, <1>13 DEF WeightOf

\* Shares that are each near the part of their weight are together near the whole
LEMMA PartsAddUp ==
  ASSUME NEW cs, IsFiniteSet(cs), NEW A \in Nat, NEW W \in Nat \ {0},
         NEW gr, \A c \in cs : gr[c] \in Nat,
         NEW wt, \A c \in cs : wt[c] \in Nat, SumFunctionOnSet(wt, cs) = W,
         \A c \in cs : NearShare(A, W, wt[c], gr[c])
  PROVE  NearTotal(A, Cardinality(cs), SumFunctionOnSet(gr, cs))
<1>1. PICK K \in Nat : K = W * (10000 + A)
  OBVIOUS
<1>2. PICK N \in Nat : N = Cardinality(cs)
  BY FS_CardinalityType
<1>3. PICK G \in Nat : G = SumFunctionOnSet(gr, cs)
  BY SumNat
<1>4. PICK a \in Nat, w \in Nat : a = 20000 * A /\ w = 20000 * W
  OBVIOUS
<1> DEFINE x == [c \in cs |-> w * gr[c]]
           y == [c \in cs |-> a * wt[c]]
           k == [c \in cs |-> IF c \in cs THEN K ELSE 0]
           xk == [c \in cs |-> x[c] + k[c]]
           yk == [c \in cs |-> y[c] + k[c]]
<1>5. \A c \in cs : x[c] = w * gr[c] /\ x[c] \in Nat
  <2> TAKE c \in cs
  <2>1. gr[c] \in Nat
    OBVIOUS
  <2> QED BY <2>1, Mul
<1>6. \A c \in cs : y[c] = a * wt[c] /\ y[c] \in Nat
  <2> TAKE c \in cs
  <2>1. wt[c] \in Nat
    OBVIOUS
  <2> QED BY <2>1, Mul
<1>7. \A c \in cs : k[c] = K /\ k[c] = IF c \in cs THEN K ELSE 0
  OBVIOUS
<1>8. \A c \in cs : xk[c] = x[c] + k[c] /\ yk[c] = y[c] + k[c]
  OBVIOUS
<1>9. \A c \in cs : x[c] <= yk[c] /\ y[c] <= xk[c]
  <2> TAKE c \in cs
  <2>1. PICK g \in Nat, v \in Nat : g = gr[c] /\ v = wt[c]
    OBVIOUS
  <2>2. NearShare(A, W, v, g)
    BY <2>1
  <2>3. /\ w * g = 20000 * (W * g) /\ a * v = 20000 * (A * v)
        /\ W * g \in Nat /\ A * v \in Nat
    BY <1>4
  <2>4. w * g <= a * v + K /\ a * v <= w * g + K
    BY <1>1, <2>2, <2>3 DEF NearShare
  <2>5. x[c] = w * g /\ y[c] = a * v /\ k[c] = K
    BY <2>1
  <2>6. xk[c] = x[c] + k[c] /\ yk[c] = y[c] + k[c]
    OBVIOUS
  <2> HIDE DEF x, y, k, xk, yk
  <2> QED BY <2>4, <2>5, <2>6
<1> HIDE DEF x, y, k, xk, yk
<1>10. Ints(gr, cs) /\ Ints(wt, cs)
  BY DEF Ints
<1>11. Ints(x, cs) /\ Ints(y, cs) /\ Ints(k, cs)
  BY <1>5, <1>6, <1>7 DEF Ints
<1>12. Ints(xk, cs) /\ Ints(yk, cs)
  BY <1>8, <1>11 DEF Ints
<1>13. SumFunctionOnSet(x, cs) = w * G
  <2>1. Scaled(x, w, gr, cs)
    BY <1>5 DEF Scaled
  <2>2. SumFunctionOnSet(x, cs) = w * SumFunctionOnSet(gr, cs)
    BY <1>10, <2>1, SumScale
  <2> QED BY <1>3, <2>2
<1>14. SumFunctionOnSet(y, cs) = a * W
  <2>1. Scaled(y, a, wt, cs)
    BY <1>6 DEF Scaled
  <2>2. SumFunctionOnSet(y, cs) = a * SumFunctionOnSet(wt, cs)
    BY <1>10, <2>1, SumScale
  <2> QED BY <2>2
<1>15. SumFunctionOnSet(k, cs) = K * N
  <2>1. \A c \in cs : k[c] = IF c \in cs THEN K ELSE 0
    BY <1>7
  <2> QED BY <1>2, <2>1, SumConstant
<1>16. SumFunctionOnSet(xk, cs) = w * G + K * N
  <2>1. SumFunctionOnSet(xk, cs) = SumFunctionOnSet(x, cs) + SumFunctionOnSet(k, cs)
    BY <1>8, <1>11, SumPlus
  <2> QED BY <1>13, <1>15, <2>1
<1>17. SumFunctionOnSet(yk, cs) = a * W + K * N
  <2>1. SumFunctionOnSet(yk, cs) = SumFunctionOnSet(y, cs) + SumFunctionOnSet(k, cs)
    BY <1>8, <1>11, SumPlus
  <2> QED BY <1>14, <1>15, <2>1
<1>18. w * G <= a * W + K * N
  <2>1. SumFunctionOnSet(x, cs) <= SumFunctionOnSet(yk, cs)
    BY <1>9, <1>11, <1>12, SumMono
  <2> QED BY <1>13, <1>17, <2>1
<1>19. a * W <= w * G + K * N
  <2>1. SumFunctionOnSet(y, cs) <= SumFunctionOnSet(xk, cs)
    BY <1>9, <1>11, <1>12, SumMono
  <2> QED BY <1>14, <1>16, <2>1
<1>20. PICK s \in Nat : s = N * (10000 + A)
  OBVIOUS
<1>21. K * N = W * s
  <2>1. (W * (10000 + A)) * N = W * (N * (10000 + A))
    OBVIOUS
  <2> QED BY <1>1, <1>20, <2>1
<1>22. w * G = W * (20000 * G) /\ a * W = W * (20000 * A)
  BY <1>4
<1>23. PICK g \in Nat : g = 20000 * G
  OBVIOUS
<1>24. W * g <= W * (a + s) /\ W * a <= W * (g + s)
  <2>1. W * (a + s) = W * a + W * s /\ W * (g + s) = W * g + W * s
    BY Distributes
  <2>2. w * G = W * g /\ a * W = W * a
    BY <1>4, <1>22, <1>23
  <2> QED BY <1>18, <1>19, <1>21, <2>1, <2>2
<1>25. ASSUME NEW u \in Nat, NEW v \in Nat, W * u <= W * v PROVE u <= v
  <2> SUFFICES ASSUME v + 1 <= u PROVE FALSE
    OBVIOUS
  <2>1. W * (v + 1) <= W * u /\ W * (v + 1) = W * v + W /\ W * v \in Nat /\ W * u \in Nat
    BY Mul
  <2> QED BY <1>25, <2>1
<1>26. g <= a + s /\ a <= g + s
  BY <1>24, <1>25
<1>27. g \in a - s .. a + s
  BY <1>26
<1> QED BY <1>2, <1>3, <1>4, <1>20, <1>23, <1>27 DEF NearTotal

\* The paid shares of a publication are together near what was distributed
LEMMA AddUpAt ==
  ASSUME SaleInv, twist = {}, NEW p \in Pubs, pub[p].shared >= 0,
         {c \in contrib : c.pub = p /\ c.paid} # {}
  PROVE  LET cs == {c \in contrib : c.pub = p /\ c.paid} IN
         NearTotal(pub[p].shared, Cardinality(cs), SumFunctionOnSet([c \in cs |-> c.gross], cs))
<1>a. PICK cs : cs = {c \in contrib : c.pub = p /\ c.paid}
  OBVIOUS
<1>b. PICK gr : gr = [c \in cs |-> c.gross]
  OBVIOUS
<1>1. /\ contrib \in SUBSET Shares
      /\ \A c \in contrib :
           /\ c.part = Part(listing[c.of], WeightOf(c.pub))
           /\ c.paid => pub[c.pub].shared \in Nat /\ c.gross = Gross(c, pub[c.pub].shared)
           /\ ~c.paid => pub[c.pub].shared = -1
  BY DEF SaleInv, SaleRows, Parted, Part
<1>2. PICK A \in Nat : A = pub[p].shared
  BY <1>1
<1>3. cs \subseteq contrib /\ cs # {} /\ \A c \in contrib : c \in cs <=> c.pub = p
  BY <1>1, <1>2, <1>a
<1>4. PICK wt : wt = [c \in cs |-> listing[c.of].weighed]
  OBVIOUS
<1>5. SumFunctionOnSet(wt, cs) = WeightOf(p) /\ IsFiniteSet(cs)
  BY <1>3, <1>4, WeightOfShares
<1>6. \A c \in cs : wt[c] \in Nat \ {0}
  BY <1>3, <1>4, WeightOfShares
<1>7. PICK W \in Nat \ {0} : W = WeightOf(p)
  BY <1>3, <1>5, <1>6, PositiveSum
<1>8. \A c \in cs : gr[c] = c.gross /\ gr[c] \in Nat
  BY <1>1, <1>3, <1>b DEF Shares
<1>9. \A c \in cs : NearShare(A, W, wt[c], gr[c])
  <2> TAKE c \in cs
  <2>1. PICK w \in Nat : w = wt[c]
    BY <1>6
  <2>2. PICK g \in Nat : g = gr[c]
    BY <1>8
  <2>3. c \in contrib /\ c.pub = p /\ c.part \in Nat /\ g = c.gross /\ w = listing[c.of].weighed /\ c.paid
    BY <1>1, <1>3, <1>4, <1>8, <1>a, <2>1, <2>2 DEF Shares
  <2>4. c.part = Part(listing[c.of], W) /\ g = Gross(c, A)
    BY <1>1, <1>2, <1>7, <2>3
  <2>5. PICK part \in Nat : part = c.part
    BY <2>3
  <2>6. IsShare(A, W, w, part, g)
    BY <2>3, <2>4, <2>5 DEF Part, Gross, IsShare
  <2>7. NearShare(A, W, w, g)
    BY <2>6, ShareBounds
  <2> QED BY <2>1, <2>2, <2>7
<1>10. \A c \in cs : wt[c] \in Nat
  BY <1>6
<1>11. SumFunctionOnSet(wt, cs) = W
  BY <1>5, <1>7
<1>12. \A c \in cs : gr[c] \in Nat
  BY <1>8
<1>13. NearTotal(A, Cardinality(cs), SumFunctionOnSet(gr, cs))
  BY <1>5, <1>9, <1>10, <1>11, <1>12, PartsAddUp
<1> QED BY <1>2, <1>13, <1>a, <1>b

\* The shares of every publication add up
LEMMA AddUp ==
  ASSUME SaleInv
  PROVE  SharesAddUp
<1> SUFFICES ASSUME twist = {}, NEW p \in Pubs,
                    NEW cs, cs = {c \in contrib : c.pub = p /\ c.paid},
                    NEW gr, gr = [c \in cs |-> c.gross],
                    pub[p].shared >= 0, cs # {}
             PROVE  LET total == SumFunctionOnSet(gr, cs)
                        slack == Cardinality(cs) * (10000 + pub[p].shared) IN
                    20000 * total \in 20000 * pub[p].shared - slack .. 20000 * pub[p].shared + slack
  BY DEF SharesAddUp
<1>1. NearTotal(pub[p].shared, Cardinality(cs), SumFunctionOnSet(gr, cs))
  BY AddUpAt
<1> QED BY <1>1 DEF NearTotal

\* The invariant implies what the run checks
LEMMA SaleInvSafe ==
  ASSUME SaleInv
  PROVE  SaleSafety
<1>1. /\ listing \in [Listings -> ListingRows] /\ contrib \in SUBSET Shares /\ IsFiniteSet(contrib)
      /\ adv \in [Listings -> AdvRows]
  BY DEF SaleInv, SaleRows
<1>2. SaleTypeOK
  <2>1. \A c \in contrib : c.pub \in Pubs /\ c.of \in Listings /\ c.part \in Nat
                        /\ c.amount \in Nat /\ c.gross \in Nat /\ c.paid \in BOOLEAN
    BY <1>1 DEF Shares
  <2> QED BY <2>1 DEF SaleInv, SaleRows, SaleTypeOK, ListingRows, PubRows, AdvRows
<1>3. AggregatedOnce
  BY DEF SaleInv, Contributed, AggregatedOnce
<1>4. SharePaidOnce
  <2> SUFFICES ASSUME twist = {}, NEW l \in Listings,
                      NEW cs, cs = {c \in contrib : c.of = l}
               PROVE  got[l] = Amounts(cs)
    BY DEF SharePaidOnce
  <2>1. CASE cs = {}
    <3>1. got[l] = 0
      BY <2>1 DEF SaleInv, PaidOut
    <3>2. Amounts({}) = 0
      BY SumEmpty DEF Amounts
    <3> QED BY <2>1, <3>1, <3>2
  <2>2. CASE cs # {}
    <3>1. PICK c \in contrib : c.of = l
      BY <2>2
    <3>2. cs = {c} /\ c \in Shares
      BY <1>1, <3>1 DEF SaleInv, Contributed
    <3>3. got[l] = c.amount
      BY <3>1 DEF SaleInv, PaidOut
    <3> QED BY <3>2, <3>3, OneAmount
  <2> QED BY <2>1, <2>2
<1>5. AdvanceDeducted
  BY DEF SaleInv, PaidOut, AdvanceDeducted
<1>6. AdvanceWithinValue
  <2> SUFFICES ASSUME twist = {}, NEW l \in Listings, listing[l].coop \in {"VALIDATED", "INCLUDED"},
                      listing[l].weighed >= listing[l].kg
               PROVE  adv[l].due <= Price * listing[l].weighed
    BY DEF AdvanceWithinValue
  <2>1. WithinValue(adv[l].due, listing[l])
    BY DEF SaleInv, Advanced
  <2>2. listing[l].kg \in Nat /\ listing[l].weighed \in Nat /\ adv[l].due \in Nat /\ Price \in Nat
    BY <1>1, SaleAssumption DEF ListingRows, AdvRows
  <2>3. Price * listing[l].kg <= Price * listing[l].weighed
    BY <2>2, Mul
  <2> QED BY <2>1, <2>2, <2>3, Mul DEF WithinValue
<1> QED BY <1>2, <1>3, <1>4, <1>5, <1>6, AddUp DEF SaleSafety

\* For any number of listings, publications, members of staff, weights and amounts: a
\* listing is in one publication, its member is paid his share once and less the advances he
\* had, advances stay within the value of the harvest, and the shares add up to what was
\* distributed (validateAnnonce, aggregateIntoPublication, payAdvance, distributePublication,
\* deletePublicationCoop), unless requests overlapped
THEOREM SharesAreFair == SaleSpec => []SaleSafety
<1>1. SaleInit => SaleInv
  BY SaleInitInv
<1>2. SaleInv /\ [SaleNext]_saleVars => SaleInv'
  BY SaleStep
<1>3. SaleInv => SaleSafety
  BY SaleInvSafe
<1> QED BY <1>1, <1>2, <1>3, PTL DEF SaleSpec

-----------------------------------------------------------------------------
\* What was decided stays decided, for any number of parties: an offer that lost the race
\* and a call that was closed, whatever answers were under way
THEOREM WhatWasDecidedStays == NegoSpec /\ SolliSpec => DecidedStays
  BY LosersStay, ClosedForGood DEF DecidedStays

=============================================================================
