------------------------------ MODULE Registry ------------------------------
(***************************************************************************)
(* How accounts come to exist and who administers them: registration, the  *)
(* first administrator, those a SUPER_ADMIN creates, their level and       *)
(* permissions, and the deactivation of accounts.                          *)
(*                                                                         *)
(* A transaction here is READ COMMITTED: what it read may have changed     *)
(* when it writes, and only the unique index on phone is safe from that.   *)
(* The access token of an administrator is good until it expires, whatever *)
(* becomes of the account; level and permissions are read on each request. *)
(***************************************************************************)
EXTENDS Naturals, FiniteSets

CONSTANTS
  Accounts,   \* 1..n: rows of users, in the order of their creation
  Phones,     \* a subset of 1..n
  Roles,      \* the roles of the public registration
  Posts       \* requests in flight

VARIABLES
  row,     \* users with its profile: role, phone, is_active, niveau, peut_gerer_users
  bearer,  \* administrators with an access token that has not expired
  post,    \* the request in each hand
  jammed   \* history: overlaps the code does not meet

\* The rows are numbered, and so are the telephones
ASSUME RegistryAssumption ==
  IsFiniteSet(Accounts) /\ Accounts \subseteq Nat \ {0} /\ Phones \subseteq Nat \ {0}

registryVars == <<row, bearer, post, jammed>>

NoUser == [role |-> "NONE", phone |-> 0, active |-> FALSE, profile |-> FALSE,
           level |-> "NONE", users |-> FALSE, founder |-> FALSE]
NoPost == [do |-> "idle", of |-> 0, row |-> NoUser]

Exists(u) == row[u] # NoUser
Admins == {u \in Accounts : row[u].role = "ADMIN"}
OtherActive(u) == {a \in Admins \ {u} : row[a].active}
Taken(p) == \E u \in Accounts : row[u].phone = p
Posts_(do) == {r \in Posts : post[r].do = do}
PostFree(r) == post[r].do = "idle"
PostEnds(r) == post' = [post EXCEPT ![r] = NoPost]
Posted(r, do, u, new) == post' = [post EXCEPT ![r] = [do |-> do, of |-> u, row |-> new]]
Jam(what, happens) == jammed' = IF happens THEN jammed \cup {what} ELSE jammed

-----------------------------------------------------------------------------
(* Creating accounts                                                       *)

\* Mutant: no role gets its profile with the account
ProfileOfNone(role) == FALSE

\* creerProfilRole, in the same transaction; a transporter makes his own later
ProfileOf(role) == role # "TRANSPORTER"

Newcomer(p, role) ==
  [NoUser EXCEPT !.role = role, !.phone = p, !.active = TRUE, !.profile = ProfileOf(role)]

\* inscrire: the phone is not taken
BeginRegister(r, p, role) ==
  /\ PostFree(r) /\ ~Taken(p)
  /\ Posted(r, "insert", 0, Newcomer(p, role))
  /\ UNCHANGED <<row, bearer, jammed>>

\* Mutant: a bootstrap is possible while there is one administrator
NoAdminYetButOne == Cardinality(Admins) <= 1

\* Accounts that were deactivated count
NoAdminYet == Admins = {}

\* bootstrapAdmin: SUPER_ADMIN with every permission
BeginBootstrap(r, p) ==
  /\ PostFree(r) /\ NoAdminYet /\ ~Taken(p)
  /\ Posted(r, "insert", 0, [Newcomer(p, "ADMIN") EXCEPT !.level = "SUPER", !.users = TRUE,
                                                         !.founder = TRUE])
  /\ Jam("founders", \E q \in Posts_("insert") : post[q].row.founder)
  /\ UNCHANGED <<row, bearer>>

\* creerAdmin, by a SUPER_ADMIN, who chooses level and permissions
BeginCreateAdmin(r, by, p, level, users) ==
  /\ PostFree(r) /\ by \in bearer /\ row[by].level = "SUPER" /\ ~Taken(p)
  /\ Posted(r, "insert", 0, [Newcomer(p, "ADMIN") EXCEPT !.level = level, !.users = users])
  /\ UNCHANGED <<row, bearer, jammed>>

\* The INSERT; the unique index refuses a phone taken meanwhile
InsertUser(r, u) ==
  /\ post[r].do = "insert"
  /\ ~Exists(u) /\ \A v \in Accounts : v < u => Exists(v)
  /\ row' = IF Taken(post[r].row.phone) THEN row ELSE [row EXCEPT ![u] = post[r].row]
  /\ PostEnds(r)
  /\ UNCHANGED <<bearer, jammed>>

\* modifierProfilTransporteur, the first time: the profile is read, then created; the
\* unique index on user_id refuses a second one
CompleteProfile(u) ==
  /\ row[u].role = "TRANSPORTER" /\ ~row[u].profile
  /\ row' = [row EXCEPT ![u].profile = TRUE]
  /\ UNCHANGED <<bearer, post, jammed>>

-----------------------------------------------------------------------------
(* Administering them                                                      *)

\* An administrator signs in, and his access token expires
AdminSignsIn(u) ==
  /\ u \in Admins \ bearer /\ row[u].active
  /\ bearer' = bearer \cup {u}
  /\ UNCHANGED <<row, post, jammed>>

BearerExpires(u) ==
  /\ u \in bearer
  /\ bearer' = bearer \ {u}
  /\ UNCHANGED <<row, post, jammed>>

\* AdminPermissionGuard, for peut_gerer_users
MayManage(by) == by \in bearer /\ (row[by].level = "SUPER" \/ row[by].users)

\* Mutant: everyone may set his own level and permissions
MayEscalateAnyone(by) == TRUE

MayEscalate(by) == row[by].level = "SUPER"

\* modifierProfilAdmin, of one's own profile: the level is read
CheckAdminProfile(r, by, level, users) ==
  /\ PostFree(r) /\ by \in bearer /\ MayEscalate(by)
  /\ Posted(r, "profile", by, [row[by] EXCEPT !.level = level, !.users = users])
  /\ Jam("profiles", \E q \in Posts_("profile") : post[q].of = by)
  /\ UNCHANGED <<row, bearer>>

\* ... then written
WriteAdminProfile(r) ==
  LET u == post[r].of IN
  /\ post[r].do = "profile"
  /\ row' = [row EXCEPT ![u].level = post[r].row.level, ![u].users = post[r].row.users]
  /\ PostEnds(r)
  /\ UNCHANGED <<bearer, jammed>>

\* Mutant: administrators that are not active count as well
SpareInactive(u) == Admins \ {u}

\* The administrators that would be left
Spare(u) == OtherActive(u)

\* deactivateUser: not oneself, and not the last active administrator
CheckDeactivate(r, by, u) ==
  /\ PostFree(r) /\ MayManage(by) /\ by # u /\ Exists(u)
  /\ u \in Admins => Spare(u) # {}
  /\ Posted(r, "deactivate", u, NoUser)
  /\ Jam("deactivations", u \in Admins /\ \E q \in Posts_("deactivate") : post[q].of \in Admins)
  /\ UNCHANGED <<row, bearer>>

DeactivateAccount(r) ==
  /\ post[r].do = "deactivate"
  /\ row' = [row EXCEPT ![post[r].of].active = FALSE]
  /\ PostEnds(r)
  /\ UNCHANGED <<bearer, jammed>>

ReactivateAccount(by, u) ==
  /\ MayManage(by) /\ Exists(u) /\ ~row[u].active
  /\ row' = [row EXCEPT ![u].active = TRUE]
  /\ UNCHANGED <<bearer, post, jammed>>

RegistryInit ==
  /\ row = [u \in Accounts |-> NoUser]
  /\ bearer = {}
  /\ post = [r \in Posts |-> NoPost]
  /\ jammed = {}

Levels == {"ADMIN", "SUPER"}

RegistryNext ==
  \/ \E r \in Posts :
       \/ \E p \in Phones :
            \/ BeginBootstrap(r, p)
            \/ \E role \in Roles : BeginRegister(r, p, role)
            \/ \E by \in Accounts, level \in Levels, users \in BOOLEAN :
                 BeginCreateAdmin(r, by, p, level, users)
       \/ \E by \in Accounts, level \in Levels, users \in BOOLEAN :
            CheckAdminProfile(r, by, level, users)
       \/ \E by, u \in Accounts : CheckDeactivate(r, by, u)
       \/ \E u \in Accounts : InsertUser(r, u)
       \/ WriteAdminProfile(r) \/ DeactivateAccount(r)
  \/ \E u \in Accounts : CompleteProfile(u) \/ AdminSignsIn(u) \/ BearerExpires(u)
  \/ \E by, u \in Accounts : ReactivateAccount(by, u)

RegistrySpec == RegistryInit /\ [][RegistryNext]_registryVars

-----------------------------------------------------------------------------
(* Properties                                                              *)

\* Types; an account of any role but TRANSPORTER has its profile as long as it exists
\* ("un user sans profil n'existera jamais")
RegistryTypeOK ==
  /\ row \in [Accounts -> [role : Roles \cup {"NONE", "ADMIN"}, phone : Phones \cup {0},
                           active : BOOLEAN, profile : BOOLEAN, level : Levels \cup {"NONE"},
                           users : BOOLEAN, founder : BOOLEAN]]
  /\ \A u \in Accounts : Exists(u) /\ ~row[u].profile => row[u].role = "TRANSPORTER"
  /\ bearer \subseteq Admins
  /\ \A r \in Posts : post[r].do \in {"idle", "insert", "profile", "deactivate"}
  /\ jammed \subseteq {"founders", "profiles", "deactivations"}

\* Deactivations leave an active administrator ("le dernier admin actif"), unless
\* two of them were under way at once
AdminIsLeft == "deactivations" \notin jammed /\ Admins # {} => \E a \in Admins : row[a].active

\* Only the first administrator comes from the bootstrap, unless two bootstraps
\* overlapped
OneFounder ==
  "founders" \notin jammed => Cardinality({u \in Accounts : row[u].founder}) <= 1

\* A plain administrator does not become SUPER_ADMIN nor gain a permission by what
\* he may still do, unless two of his changes overlapped while he was SUPER_ADMIN
NoPromotion ==
  [][\A u \in Accounts : row[u].level = "ADMIN" /\ "profiles" \notin jammed =>
       row'[u].level = "ADMIN" /\ (row'[u].users => row[u].users)]_registryVars

\* Every account has the profile of its role, one administrator founded the rest, and an
\* active one is left
RegistrySafety == RegistryTypeOK /\ AdminIsLeft /\ OneFounder

=============================================================================
