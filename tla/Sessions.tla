------------------------------ MODULE Sessions ------------------------------
(***************************************************************************)
(* The sessions of one user: refresh tokens and their rotation, and what   *)
(* ends them: logout, a change of PIN, the administrator.  How a user      *)
(* proves who he is, by PIN or by code, is the module Access.              *)
(*                                                                         *)
(* Nothing of it runs in a transaction but deactivateUser: each request    *)
(* reads, compares a hash (which takes a while) and writes, and may die    *)
(* between two writes when the process stops.                              *)
(***************************************************************************)
EXTENDS Naturals, FiniteSets

CONSTANTS
  Tokens,            \* 1..n: rows of refresh_tokens, in the order of their insertion
  Calls,             \* requests in flight
  PinChanges         \* bound on the changes of PIN

ASSUME SessAssumption == PinChanges \in Nat

VARIABLES
  account,  \* the row of users: is_active, and how often its PIN was changed
  token,    \* refresh_tokens
  sess,     \* the request in each hand
  atOnce,   \* history: tokens presented by two requests at once
  torn      \* history: a change of PIN died before it revoked the sessions

sessVars == <<account, token, sess, atOnce, torn>>

NoToken == [is |-> "none", from |-> {}, era |-> 0, crossed |-> FALSE]
NoCall == [do |-> "idle", token |-> {}, active |-> FALSE]

CallFree(r) == sess[r].do = "idle"
CallEnds(r) == sess' = [sess EXCEPT ![r] = NoCall]
CallGoes(r, do) == sess' = [sess EXCEPT ![r].do = do]
Live(t) == token[t].is = "live"

\* era and crossed tell of a live session: nobody asks them of one that ended
Ended(t, how) == [token[t] EXCEPT !.is = how, !.era = 0, !.crossed = FALSE]

-----------------------------------------------------------------------------
(* Signing in, refresh, genererTokens, logout                              *)

\* connexionPin and verifierOtp, past their checks: the account was active
BeginSignIn(r) ==
  /\ CallFree(r) /\ account.active
  /\ sess' = [sess EXCEPT ![r] = [NoCall EXCEPT !.do = "issue", !.active = TRUE]]
  /\ UNCHANGED <<account, token, atOnce, torn>>

\* Mutant: a refresh does not look at the account
RefreshableAny == TRUE

Refreshable == account.active

\* A token already revoked revokes every session; an expired one, or an account
\* deactivated, is an error
BeginRefresh(r, t) ==
  /\ CallFree(r)
  /\ \/ token[t].is = "revoked" /\ sess' = [sess EXCEPT ![r] = [NoCall EXCEPT !.do = "reuse"]]
     \/ Live(t) /\ Refreshable
        /\ sess' = [sess EXCEPT ![r] = [NoCall EXCEPT !.do = "rotate", !.token = {t},
                                                      !.active = account.active]]
  /\ atOnce' = IF \E q \in Calls : sess[q].do = "rotate" /\ sess[q].token = {t}
                THEN atOnce \cup {t} ELSE atOnce
  /\ UNCHANGED <<account, token, torn>>

\* Mutant: the token presented stays good
RevokedNot(t) == token

\* Mutant: the row of the token presented is removed
RevokedGone(t) == [token EXCEPT ![t].is = "none"]

Revoked(t) == [token EXCEPT ![t] = Ended(t, "revoked")]

\* The old token is revoked by its id, whatever it has become
Rotate(r) ==
  /\ sess[r].do = "rotate"
  /\ \E t \in sess[r].token : token' = Revoked(t)
  /\ CallGoes(r, "issue")
  /\ UNCHANGED <<account, atOnce, torn>>

Issue(r, t) ==
  /\ sess[r].do = "issue"
  /\ token[t].is = "none" /\ \A s \in Tokens : s < t => token[s].is # "none"
  /\ token' = [token EXCEPT ![t] = [is |-> "live", from |-> sess[r].token, era |-> account.era,
                                    crossed |-> sess[r].active /\ ~account.active]]
  /\ CallEnds(r)
  /\ UNCHANGED <<account, atOnce, torn>>

RevokedIn(ts) == [t \in Tokens |-> IF t \in ts /\ Live(t) THEN Ended(t, "revoked") ELSE token[t]]
AllRevoked == RevokedIn(Tokens)

RevokeAll(r) ==
  /\ sess[r].do \in {"reuse", "cut"}
  /\ token' = AllRevoked
  /\ CallEnds(r)
  /\ UNCHANGED <<account, atOnce, torn>>

Logout(only) ==
  /\ \E t \in Tokens : Live(t)
  /\ token' = RevokedIn(IF only = {} THEN Tokens ELSE only)
  /\ UNCHANGED <<account, sess, atOnce, torn>>

-----------------------------------------------------------------------------
(* changerPin                                                              *)

BeginChange(r) ==
  /\ CallFree(r) /\ account.era < PinChanges
  /\ sess' = [sess EXCEPT ![r] = [NoCall EXCEPT !.do = "change"]]
  /\ UNCHANGED <<account, token, atOnce, torn>>

\* Mutant: the sessions are left alone
NextOfChangeEnd(r) == CallEnds(r)

NextOfChange(r) == CallGoes(r, "cut")

\* A PIN changed: a new era; the sessions are revoked in another statement
ChangePin(r) ==
  /\ sess[r].do = "change" /\ account.era < PinChanges
  /\ account' = [account EXCEPT !.era = @ + 1]
  /\ NextOfChange(r)
  /\ UNCHANGED <<token, atOnce, torn>>

-----------------------------------------------------------------------------
(* The administrator, the cooperative, time and the process                *)

\* deactivateUser, one transaction
Deactivate ==
  /\ account.active
  /\ account' = [account EXCEPT !.active = FALSE]
  /\ token' = AllRevoked
  /\ UNCHANGED <<sess, atOnce, torn>>

Reactivate ==
  /\ ~account.active
  /\ account' = [account EXCEPT !.active = TRUE]
  /\ UNCHANGED <<token, sess, atOnce, torn>>

TokenExpires(t) ==
  /\ Live(t)
  /\ token' = [token EXCEPT ![t] = Ended(t, "expired")]
  /\ UNCHANGED <<account, sess, atOnce, torn>>

\* The process stops and the request is lost where it was
CallDies(r) ==
  /\ ~CallFree(r)
  /\ torn' = (torn \/ sess[r].do = "cut")
  /\ CallEnds(r)
  /\ UNCHANGED <<account, token, atOnce>>

SessInit ==
  /\ account = [active |-> TRUE, era |-> 0]
  /\ token = [t \in Tokens |-> NoToken]
  /\ sess = [r \in Calls |-> NoCall]
  /\ atOnce = {} /\ torn = FALSE

SessNext ==
  \/ \E r \in Calls :
       \/ BeginSignIn(r) \/ Rotate(r) \/ RevokeAll(r) \/ BeginChange(r) \/ ChangePin(r)
       \/ CallDies(r)
       \/ \E t \in Tokens : BeginRefresh(r, t) \/ Issue(r, t)
  \/ \E only \in {{}} \cup {{t} : t \in Tokens} : Logout(only)
  \/ \E t \in Tokens : TokenExpires(t)
  \/ Deactivate \/ Reactivate

SessSpec == SessInit /\ [][SessNext]_sessVars

-----------------------------------------------------------------------------
(* Properties                                                              *)

SessTypeOK ==
  /\ account \in [active : BOOLEAN, era : 0..PinChanges]
  /\ token \in [Tokens -> [is : {"none", "live", "revoked", "expired"}, from : SUBSET Tokens,
                           era : 0..PinChanges, crossed : BOOLEAN]]
  /\ sess \in [Calls -> [do : {"idle", "reuse", "rotate", "issue", "cut", "change"},
                         token : SUBSET Tokens, active : BOOLEAN]]
  /\ \A r \in Calls : \A t \in sess[r].token : token[t].is # "none"
  /\ atOnce \subseteq Tokens /\ torn \in BOOLEAN

\* A refresh token that was exchanged is no longer good, and it has one successor
\* at most, unless two requests held it at once
RotatedOnce ==
  /\ \A s, t \in Tokens : token[s].from = {t} => ~Live(t)
  /\ \A t \in Tokens \ atOnce : Cardinality({s \in Tokens : token[s].from = {t}}) <= 1

\* Once a change of PIN has ended, no session opened before it is left; only a stop
\* of the process between its two writes leaves some
PinChangeCuts ==
  ~torn /\ (\A r \in Calls : sess[r].do # "cut") => \A t \in Tokens : Live(t) =>
    token[t].era = account.era

\* An account deactivated has no session, but one issued by a request that had
\* read the account before
InactiveHasNoSession == ~account.active => \A t \in Tokens : Live(t) => token[t].crossed

\* A token is exchanged once, and neither a change of PIN nor a deactivation leaves a
\* session behind, but for the overlaps named above
SessSafety == SessTypeOK /\ RotatedOnce /\ PinChangeCuts /\ InactiveHasNoSession

=============================================================================
