----------------------------- MODULE Membership -----------------------------
(***************************************************************************)
(* Who belongs to which cooperative: join requests, invitations, removal,  *)
(* and the farmers without a telephone that a cooperative manages and      *)
(* later sets free.                                                        *)
(*                                                                         *)
(* Each operation reads and checks, then writes in a transaction; several  *)
(* requests are under way.  Two unique indexes of cooperative_members      *)
(* stand behind the checks: (member_id) WHERE is_active of the migration,  *)
(* and (cooperative_id, member_id) of the first schema, which the          *)
(* migration means to replace and leaves in place.  A third, on the        *)
(* cooperative, the farmer and the status of coop_join_requests, lets a    *)
(* cooperative have one request of a farmer in each status.                *)
(***************************************************************************)
EXTENDS Naturals, FiniteSets

CONSTANTS
  Farmers, Coops,
  Letters,     \* 1..n: rows of coop_join_requests and coop_invitations
  Hands        \* requests in flight

ASSUME MemberAssumption == "unborn" \notin Coops

VARIABLES
  member,    \* cooperative_members, by cooperative and farmer: is_active
  coopOf,    \* users.cooperative_id and producteur_profiles.coop_id
  letter,    \* the join requests and invitations
  managed,   \* the cooperative in managed_by_coop_id, of a farmer without phone
  hand,      \* the request in each hand
  refused,   \* history: farmers without cooperative whose admission was refused
  jostled    \* history: farmers for whom a request wrote on a stale reading

memberVars == <<member, coopOf, letter, managed, hand, refused, jostled>>

NoCoop == {}
NoLetter == [kind |-> "NONE", of |-> {}, to |-> {}, status |-> "NONE"]
NoHand == [do |-> "idle", of |-> {}, to |-> {}, letter |-> {}, saw |-> {}]

ActiveIn(f) == {c \in Coops : member[c][f] = "ACTIVE"}
Open(l) == letter[l].status = "PENDING"
HandFree(h) == hand[h].do = "idle"
LetGo(h) == hand' = [hand EXCEPT ![h] = NoHand]
Who(h) == CHOOSE f \in Farmers : hand[h].of = {f}
Which(h) == CHOOSE c \in Coops : hand[h].to = {c}
Its(h) == CHOOSE l \in Letters : hand[h].letter = {l}
\* What a request about a farmer reads
View(f) == {<<c, member[c][f]>> : c \in Coops}
Jostle(h) == jostled' = IF View(Who(h)) = hand[h].saw THEN jostled ELSE jostled \cup {Who(h)}

-----------------------------------------------------------------------------
(* Requests and invitations                                                *)

Asks(h, kind, f, c) ==
  /\ HandFree(h)
  /\ hand' = [hand EXCEPT ![h] = [do |-> kind, of |-> {f}, to |-> {c}, letter |-> {},
                                  saw |-> View(f)]]
  /\ UNCHANGED <<member, coopOf, letter, managed, refused, jostled>>

\* createJoinRequest: without an active membership, nor a request to that
\* cooperative under way
CreateJoinRequest(h, f, c) ==
  /\ ActiveIn(f) = {}
  /\ \A l \in Letters : letter[l] # [kind |-> "join", of |-> {f}, to |-> {c}, status |-> "PENDING"]
  /\ Asks(h, "join", f, c)

\* createInvitation asks for neither
CreateInvitation(h, f, c) == Asks(h, "invite", f, c)

\* uniq_pending_join_request: (cooperative_id, farmer_id, status)
OneInStatus(l, status) ==
  letter[l].kind = "join" => \A m \in Letters \ {l} : letter[m] # [letter[l] EXCEPT !.status = status]

Duplicate(h) ==
  hand[h].do = "join" /\ \E l \in Letters :
    letter[l] = [kind |-> "join", of |-> hand[h].of, to |-> hand[h].to, status |-> "PENDING"]

WriteLetter(h, l) ==
  /\ hand[h].do \in {"join", "invite"}
  /\ letter[l] = NoLetter /\ \A m \in Letters : m < l => letter[m] # NoLetter
  /\ letter' = IF Duplicate(h) THEN letter
               ELSE [letter EXCEPT ![l] = [kind |-> hand[h].do, of |-> hand[h].of,
                                           to |-> hand[h].to, status |-> "PENDING"]]
  /\ LetGo(h)
  /\ UNCHANGED <<member, coopOf, managed, refused, jostled>>

\* An answer to a letter that is PENDING
TakeUp(h, l, kind, accept) ==
  /\ HandFree(h) /\ Open(l) /\ letter[l].kind = kind
  /\ \A f \in letter[l].of :
       hand' = [hand EXCEPT ![h] = [do |-> IF accept THEN "accept" ELSE "reject",
                  of |-> {f}, to |-> letter[l].to, letter |-> {l}, saw |-> View(f)]]
  /\ UNCHANGED <<member, coopOf, letter, managed, refused, jostled>>

\* handleJoinRequest, by the cooperative
HandleJoinRequest(h, l, accept) == TakeUp(h, l, "join", accept)

\* handleInvitation, by the farmer: to accept he has no active membership
HandleInvitation(h, l, accept) ==
  /\ accept => \A f \in letter[l].of : ActiveIn(f) = {}
  /\ TakeUp(h, l, "invite", accept)

\* Mutant: the index on active memberships is not there
InsertableTwice(c, f) == member[c][f] = "NONE"

\* The two unique indexes
Insertable(c, f) == member[c][f] = "NONE" /\ ActiveIn(f) = {}

\* Mutant: the row in the way is taken for the membership, the request is marked
AcceptAnyway(h) ==
  LET f == Who(h)
      c == Which(h) IN
  /\ hand[h].do = "accept"
  /\ letter' = [letter EXCEPT ![Its(h)].status = "ACCEPTED"]
  /\ member' = IF Insertable(c, f) THEN [member EXCEPT ![c][f] = "ACTIVE"] ELSE member
  /\ coopOf' = IF Insertable(c, f) THEN [coopOf EXCEPT ![f] = {c}] ELSE coopOf
  /\ Jostle(h) /\ LetGo(h)
  /\ UNCHANGED <<managed, refused>>

\* ACCEPTED, the membership and syncFarmerCoopId in one transaction, or none
Accept(h) ==
  LET f == Who(h)
      c == Which(h) IN
  /\ hand[h].do = "accept"
  /\ IF Insertable(c, f) /\ OneInStatus(Its(h), "ACCEPTED")
     THEN /\ letter' = [letter EXCEPT ![Its(h)].status = "ACCEPTED"]
          /\ member' = [member EXCEPT ![c][f] = "ACTIVE"]
          /\ coopOf' = [coopOf EXCEPT ![f] = {c}]
          /\ Jostle(h)
          /\ UNCHANGED refused
     ELSE /\ refused' = IF ActiveIn(f) = {} THEN refused \cup {f} ELSE refused
          /\ UNCHANGED <<letter, member, coopOf, jostled>>
  /\ LetGo(h)
  /\ UNCHANGED managed

\* A second request of a farmer that the same cooperative turns down is an error,
\* and stays PENDING
Reject(h) ==
  /\ hand[h].do = "reject"
  /\ IF OneInStatus(Its(h), "REJECTED")
     THEN letter' = [letter EXCEPT ![Its(h)].status = "REJECTED"] /\ Jostle(h)
     ELSE UNCHANGED <<letter, jostled>>
  /\ LetGo(h)
  /\ UNCHANGED <<member, coopOf, managed, refused>>

-----------------------------------------------------------------------------
(* Members                                                                 *)

\* removeMember: the active row is read, then deactivated by its id
CheckRemove(h, c, f) ==
  /\ HandFree(h) /\ member[c][f] = "ACTIVE"
  /\ hand' = [hand EXCEPT ![h] = [do |-> "remove", of |-> {f}, to |-> {c}, letter |-> {},
                                  saw |-> View(f)]]
  /\ UNCHANGED <<member, coopOf, letter, managed, refused, jostled>>

\* Mutant: users.cooperative_id keeps the cooperative that was left
RemoveMemberOnly(h) ==
  /\ hand[h].do = "remove"
  /\ member' = [member EXCEPT ![Which(h)][Who(h)] = "INACTIVE"]
  /\ Jostle(h) /\ LetGo(h)
  /\ UNCHANGED <<letter, coopOf, managed, refused>>

RemoveMember(h) ==
  /\ hand[h].do = "remove"
  /\ member' = [member EXCEPT ![Which(h)][Who(h)] = "INACTIVE"]
  /\ coopOf' = [coopOf EXCEPT ![Who(h)] = NoCoop]
  /\ Jostle(h) /\ LetGo(h)
  /\ UNCHANGED <<letter, managed, refused>>

\* createManagedMember: a new farmer, in one transaction
CreateManagedMember(c, f) ==
  /\ managed[f] = {"unborn"}
  /\ managed' = [managed EXCEPT ![f] = {c}]
  /\ member' = [member EXCEPT ![c][f] = "ACTIVE"]
  /\ coopOf' = [coopOf EXCEPT ![f] = {c}]
  /\ UNCHANGED <<letter, hand, refused, jostled>>

\* promoteManagedMember: the farmer has a telephone and is his own master; the
\* membership stays
PromoteManagedMember(f) ==
  /\ managed[f] # {"unborn"} /\ managed[f] # {}
  /\ managed' = [managed EXCEPT ![f] = {}]
  /\ UNCHANGED <<member, coopOf, letter, hand, refused, jostled>>

\* Mutant: a managed account can sign in
AutonomousAny(f) == managed[f] # {"unborn"}

\* A farmer who can sign in asks and is invited: assertNotManagedProfile
Autonomous(f) == managed[f] = {}

MemberInit ==
  /\ managed \in [Farmers -> {{"unborn"}, {}}]
  /\ member = [c \in Coops |-> [f \in Farmers |-> "NONE"]]
  /\ coopOf = [f \in Farmers |-> NoCoop]
  /\ letter = [l \in Letters |-> NoLetter]
  /\ hand = [h \in Hands |-> NoHand]
  /\ refused = {}
  /\ jostled = {}

MemberNext ==
  \/ \E h \in Hands :
       \/ Accept(h) \/ Reject(h) \/ RemoveMember(h)
       \/ \E l \in Letters :
            \/ WriteLetter(h, l)
            \/ \E yes \in BOOLEAN : HandleJoinRequest(h, l, yes) \/ HandleInvitation(h, l, yes)
       \/ \E f \in Farmers, c \in Coops :
            \/ CheckRemove(h, c, f)
            \/ Autonomous(f) /\ (CreateJoinRequest(h, f, c) \/ CreateInvitation(h, f, c))
  \/ \E f \in Farmers : \/ PromoteManagedMember(f)
                        \/ \E c \in Coops : CreateManagedMember(c, f)

MemberSpec == MemberInit /\ [][MemberNext]_memberVars

-----------------------------------------------------------------------------
(* Properties                                                              *)

MemberTypeOK ==
  /\ member \in [Coops -> [Farmers -> {"NONE", "ACTIVE", "INACTIVE"}]]
  /\ coopOf \in [Farmers -> SUBSET Coops]
  /\ letter \in [Letters -> [kind : {"NONE", "join", "invite"}, of : SUBSET Farmers,
                   to : SUBSET Coops, status : {"NONE", "PENDING", "ACCEPTED", "REJECTED"}]]
  /\ managed \in [Farmers -> SUBSET (Coops \cup {"unborn"})]
  /\ hand \in [Hands -> [do : {"idle", "join", "invite", "accept", "reject", "remove"},
                 of : SUBSET Farmers, to : SUBSET Coops, letter : SUBSET Letters,
                 saw : SUBSET (Coops \X {"NONE", "ACTIVE", "INACTIVE"})]]
  /\ \A f \in Farmers : managed[f] # {} => \A l \in Letters : f \notin letter[l].of
  /\ refused \subseteq Farmers /\ jostled \subseteq Farmers

\* However requests and invitations of several cooperatives are accepted, a
\* farmer is an active member of one cooperative at most
OneCoopAtMost == \A f \in Farmers : Cardinality(ActiveIn(f)) <= 1

\* The shortcut the tokens are made from names the cooperative the farmer is an
\* active member of, but for a farmer one of whose requests wrote on a stale reading
ShortcutIsMembership == \A f \in Farmers \ jostled : coopOf[f] = ActiveIn(f)

\* An accepted request made its farmer a member of that cooperative
AcceptedIsMember ==
  \A l \in Letters : letter[l].status = "ACCEPTED" =>
    \A f \in letter[l].of, c \in letter[l].to : member[c][f] # "NONE"

\* A farmer who belongs to no cooperative can be admitted ("Supprime l'éventuelle
\* ancienne contrainte UNIQUE (cooperative_id, member_id)")
FreeFarmerCanJoin == refused = {}

\* A farmer is in one cooperative at most, the one the shortcut of his account names, and
\* each accepted letter has its member
MemberSafety == MemberTypeOK /\ OneCoopAtMost /\ ShortcutIsMembership /\ AcceptedIsMember

=============================================================================
