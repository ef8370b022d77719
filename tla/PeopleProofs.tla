---------------------------- MODULE PeopleProofs ----------------------------
(***************************************************************************)
(* What is proved of what users keep, for any number of users, rows and    *)
(* requests in flight: sessions, PINs and codes, the registry of users and *)
(* administrators, default addresses and payment methods, a farmer's       *)
(* parcels, a buyer's basket, a transporter's routes, files. They share no *)
(* state: each has an invariant of its own, and the last theorems put them *)
(* together as the runs check them.                                        *)
(***************************************************************************)
EXTENDS MCPeople, SumLemmas

-----------------------------------------------------------------------------

\* A request on its way to a new token has read that the account is active
ReadActive == \A r \in Calls : sess[r].do \in {"rotate", "issue"} => sess[r].active

\* Sessions of an older PIN are left only while somebody has still to revoke them
Owed ==
  \/ torn
  \/ \E r \in Calls : sess[r].do = "cut"
  \/ \A t \in Tokens : Live(t) => token[t].era = account.era

SessInv == SessTypeOK /\ ReadActive /\ Owed /\ InactiveHasNoSession

\* The shapes of a request and of a row
SessRequests == [do : {"idle", "reuse", "rotate", "issue", "cut", "change"},
                 token : SUBSET Tokens, active : BOOLEAN]

TokenRow == [is : {"none", "live", "revoked", "expired"}, from : SUBSET Tokens,
             era : 0..PinChanges, crossed : BOOLEAN]

-----------------------------------------------------------------------------
(* Lemmas about the operators                                              *)

\* A session that ended is a row that is not live
LEMMA EndedType ==
  ASSUME SessTypeOK, NEW t \in Tokens, NEW how \in {"revoked", "expired"}
  PROVE  Ended(t, how) \in TokenRow /\ Ended(t, how).is = how
<1>1. 0 \in 0..PinChanges /\ token[t] \in TokenRow
  BY SessAssumption DEF SessTypeOK, TokenRow
<1> QED BY <1>1 DEF Ended, TokenRow

\* Revoking keeps the rows: those revoked are not live, the others are as they were
LEMMA RevokedRows ==
  ASSUME SessTypeOK, NEW ts \in SUBSET Tokens, token' = RevokedIn(ts)
  PROVE  /\ token' \in [Tokens -> TokenRow]
         /\ \A t \in Tokens : token[t].is # "none" => token'[t].is # "none"
         /\ \A t \in Tokens : token'[t].is = "live" => t \notin ts /\ token'[t] = token[t]
<1>1. \A t \in Tokens : token'[t] = IF t \in ts /\ Live(t) THEN Ended(t, "revoked") ELSE token[t]
  BY DEF RevokedIn
<1>2. \A t \in Tokens : /\ Ended(t, "revoked") \in TokenRow /\ token[t] \in TokenRow
                       /\ Ended(t, "revoked").is = "revoked"
  BY EndedType DEF SessTypeOK, TokenRow
<1>3. token' \in [Tokens -> TokenRow]
  BY <1>2 DEF RevokedIn
<1> QED BY <1>1, <1>2, <1>3 DEF Live

\* One token that is revoked, expired or logged out: nothing else changes
LEMMA FewerTokens ==
  ASSUME SessInv, UNCHANGED <<account, torn>>,
         token' \in [Tokens -> TokenRow],
         \A t \in Tokens : token[t].is # "none" => token'[t].is # "none",
         \A t \in Tokens : token'[t].is = "live" => token'[t] = token[t],
         sess' \in [Calls -> SessRequests], atOnce' \in SUBSET Tokens,
         \A r \in Calls : sess'[r] = sess[r] \/ sess'[r] = [sess[r] EXCEPT !.do = "issue"]
                          \/ (sess'[r] = NoCall /\ sess[r].do # "cut"),
         \A r \in Calls : sess'[r].do = "issue" => sess[r].do \in {"rotate", "issue"},
         \A r \in Calls : sess[r].do = "cut" => sess'[r] = sess[r]
  PROVE  SessInv'
<1>1. SessTypeOK'
  BY DEF SessInv, SessTypeOK, SessRequests, NoCall, TokenRow
<1>2. ReadActive'
  BY DEF SessInv, SessTypeOK, ReadActive, NoCall
<1>3. Owed'
  BY DEF SessInv, Owed, Live
<1>4. InactiveHasNoSession'
  BY DEF SessInv, InactiveHasNoSession, Live
<1> QED BY <1>1, <1>2, <1>3, <1>4 DEF SessInv

-----------------------------------------------------------------------------
(* The steps                                                               *)

\* A request begins: only the requests change, and none is cutting by it
LEMMA SessBeginStep ==
  ASSUME SessInv, NEW r \in Calls,
         BeginSignIn(r) \/ BeginChange(r) \/ \E t \in Tokens : BeginRefresh(r, t)
  PROVE  SessInv'
<1>1. /\ UNCHANGED <<account, token, torn>> /\ sess[r].do = "idle"
      /\ atOnce' \in SUBSET Tokens
  BY DEF BeginSignIn, BeginChange, BeginRefresh, CallFree, SessInv, SessTypeOK
<1>2. PICK c \in SessRequests : /\ sess' = [sess EXCEPT ![r] = c]
                                /\ c.do \in {"rotate", "issue"} => c.active
                                /\ \A t \in c.token : token[t].is # "none"
  <2>1. CASE BeginSignIn(r)
    <3> DEFINE c == [NoCall EXCEPT !.do = "issue", !.active = TRUE]
    <3>1. c \in SessRequests /\ c.active /\ c.token = {}
      BY DEF NoCall, SessRequests
    <3> QED BY <2>1, <3>1 DEF BeginSignIn
  <2>2. CASE BeginChange(r)
    <3> DEFINE c == [NoCall EXCEPT !.do = "change"]
    <3>1. c \in SessRequests /\ c.do = "change" /\ c.token = {}
      BY DEF NoCall, SessRequests
    <3> QED BY <2>2, <3>1 DEF BeginChange
  <2>3. ASSUME NEW t \in Tokens, BeginRefresh(r, t), token[t].is = "revoked",
               sess' = [sess EXCEPT ![r] = [NoCall EXCEPT !.do = "reuse"]]
        PROVE  \E c \in SessRequests : /\ sess' = [sess EXCEPT ![r] = c]
                                       /\ c.do \in {"rotate", "issue"} => c.active
                                       /\ \A u \in c.token : token[u].is # "none"
    <3> DEFINE c == [NoCall EXCEPT !.do = "reuse"]
    <3>1. c \in SessRequests /\ c.do = "reuse" /\ c.token = {}
      BY DEF NoCall, SessRequests
    <3> QED BY <2>3, <3>1
  <2>4. ASSUME NEW t \in Tokens, Live(t), account.active,
               sess' = [sess EXCEPT ![r] = [NoCall EXCEPT !.do = "rotate", !.token = {t},
                                                          !.active = account.active]]
        PROVE  \E c \in SessRequests : /\ sess' = [sess EXCEPT ![r] = c]
                                       /\ c.do \in {"rotate", "issue"} => c.active
                                       /\ \A u \in c.token : token[u].is # "none"
    <3> DEFINE c == [NoCall EXCEPT !.do = "rotate", !.token = {t}, !.active = account.active]
    <3>1. c \in SessRequests /\ c.active /\ c.token = {t}
      BY <2>4 DEF NoCall, SessRequests, SessInv, SessTypeOK
    <3> QED BY <2>4, <3>1 DEF Live
  <2> QED BY <2>1, <2>2, <2>3, <2>4 DEF BeginRefresh, Refreshable
<1>3. /\ sess' \in [Calls -> SessRequests] /\ sess'[r] = c
      /\ \A q \in Calls \ {r} : sess'[q] = sess[q]
  BY <1>2 DEF SessInv, SessTypeOK, SessRequests
<1>4. SessTypeOK'
  BY <1>1, <1>2, <1>3 DEF SessInv, SessTypeOK, SessRequests
<1>5. ReadActive'
  BY <1>2, <1>3 DEF SessInv, ReadActive
<1>6. Owed'
  BY <1>1, <1>3 DEF SessInv, Owed, Live
<1>7. InactiveHasNoSession'
  BY <1>1 DEF SessInv, InactiveHasNoSession, Live
<1> QED BY <1>4, <1>5, <1>6, <1>7 DEF SessInv

\* The token presented is revoked
LEMMA RotateStep ==
  ASSUME SessInv, NEW r \in Calls, Rotate(r)
  PROVE  SessInv'
<1>1. PICK t \in sess[r].token : token' = [token EXCEPT ![t] = Ended(t, "revoked")]
  BY DEF Rotate, Revoked
<1>2. /\ t \in Tokens /\ sess[r].do = "rotate" /\ UNCHANGED <<account, torn, atOnce>>
      /\ sess' = [sess EXCEPT ![r] = [sess[r] EXCEPT !.do = "issue"]]
  BY DEF Rotate, CallGoes, SessInv, SessTypeOK
<1>3. /\ token' \in [Tokens -> TokenRow]
      /\ \A u \in Tokens : token[u].is # "none" => token'[u].is # "none"
      /\ \A u \in Tokens : token'[u].is = "live" => token'[u] = token[u]
  <2>1. Ended(t, "revoked") \in TokenRow /\ Ended(t, "revoked").is = "revoked"
    BY <1>2, EndedType DEF SessInv
  <2>2. token \in [Tokens -> TokenRow]
    BY DEF SessInv, SessTypeOK, TokenRow
  <2> QED BY <1>1, <1>2, <2>1, <2>2
<1>4. sess' \in [Calls -> SessRequests]
  BY <1>2 DEF SessInv, SessTypeOK, SessRequests
<1>5. \A q \in Calls : q # r => sess'[q] = sess[q]
  BY <1>2 DEF SessInv, SessTypeOK
<1>6. sess'[r] = [sess[r] EXCEPT !.do = "issue"] /\ sess[r].do # "cut"
  BY <1>2 DEF SessInv, SessTypeOK
<1>7. atOnce' \in SUBSET Tokens
  BY <1>2 DEF SessInv, SessTypeOK
<1> QED BY <1>2, <1>3, <1>4, <1>5, <1>6, <1>7, FewerTokens

\* A new row, of the present PIN, by a request that has read an active account
LEMMA IssueStep ==
  ASSUME SessInv, NEW r \in Calls, NEW t \in Tokens, Issue(r, t)
  PROVE  SessInv'
<1> DEFINE new == [is |-> "live", from |-> sess[r].token, era |-> account.era,
                   crossed |-> sess[r].active /\ ~account.active]
<1>1. /\ sess[r].do = "issue" /\ token[t].is = "none"
      /\ token' = [token EXCEPT ![t] = new] /\ sess' = [sess EXCEPT ![r] = NoCall]
      /\ UNCHANGED <<account, atOnce, torn>>
  BY DEF Issue, CallEnds
<1>2. /\ new \in TokenRow
      /\ new.is = "live" /\ new.era = account.era
      /\ ~account.active => new.crossed
  BY <1>1 DEF SessInv, SessTypeOK, ReadActive, TokenRow
<1>3. /\ token'[t] = new /\ \A u \in Tokens \ {t} : token'[u] = token[u]
      /\ sess'[r] = NoCall /\ \A q \in Calls \ {r} : sess'[q] = sess[q]
  BY <1>1 DEF SessInv, SessTypeOK
<1>4. NoCall \in SessRequests /\ NoCall.do = "idle" /\ NoCall.token = {}
  BY DEF NoCall, SessRequests
<1>5. SessTypeOK'
  BY <1>1, <1>2, <1>3, <1>4 DEF SessInv, SessTypeOK, SessRequests, TokenRow
<1>6. ReadActive'
  BY <1>3, <1>4 DEF SessInv, ReadActive
<1>7. Owed'
  BY <1>1, <1>2, <1>3 DEF SessInv, Owed, Live
<1>8. InactiveHasNoSession'
  BY <1>1, <1>2, <1>3 DEF SessInv, InactiveHasNoSession, Live
<1> QED BY <1>5, <1>6, <1>7, <1>8 DEF SessInv

\* Every session is revoked, which settles what a change of PIN owed
LEMMA RevokeAllStep ==
  ASSUME SessInv, token' = AllRevoked, UNCHANGED <<atOnce, torn>>,
         account' \in [active : BOOLEAN, era : 0..PinChanges],
         sess' \in [Calls -> SessRequests],
         \A r \in Calls : sess'[r] = sess[r] \/ sess'[r] = NoCall
  PROVE  SessInv'
<1>1. /\ token' \in [Tokens -> TokenRow]
      /\ \A t \in Tokens : token[t].is # "none" => token'[t].is # "none"
      /\ \A t \in Tokens : token'[t].is # "live"
  BY RevokedRows DEF AllRevoked, SessInv
<1>2. SessTypeOK'
  BY <1>1 DEF SessInv, SessTypeOK, SessRequests, NoCall, TokenRow
<1>3. ReadActive'
  BY DEF SessInv, ReadActive, NoCall
<1>4. Owed' /\ InactiveHasNoSession'
  BY <1>1 DEF Owed, InactiveHasNoSession, Live
<1> QED BY <1>2, <1>3, <1>4 DEF SessInv

\* The PIN changes: the request that changed it has now to revoke the sessions
LEMMA ChangeStep ==
  ASSUME SessInv, NEW r \in Calls, ChangePin(r)
  PROVE  SessInv'
<1>1. /\ account' = [account EXCEPT !.era = @ + 1] /\ account.era < PinChanges
      /\ sess' = [sess EXCEPT ![r] = [sess[r] EXCEPT !.do = "cut"]]
      /\ UNCHANGED <<token, atOnce, torn>>
  BY DEF ChangePin, NextOfChange, CallGoes, SessInv, SessTypeOK
<1>2. /\ account' \in [active : BOOLEAN, era : 0..PinChanges]
      /\ account'.active = account.active
  BY <1>1, SessAssumption DEF SessInv, SessTypeOK
<1>3. /\ sess'[r].do = "cut" /\ sess'[r].token = sess[r].token
      /\ sess' \in [Calls -> SessRequests] /\ \A q \in Calls \ {r} : sess'[q] = sess[q]
  BY <1>1 DEF SessInv, SessTypeOK, SessRequests
<1>4. SessTypeOK'
  BY <1>1, <1>2, <1>3 DEF SessInv, SessTypeOK, SessRequests
<1>5. ReadActive'
  BY <1>3 DEF SessInv, ReadActive
<1>6. Owed'
  BY <1>3 DEF Owed
<1>7. InactiveHasNoSession'
  BY <1>1, <1>2 DEF SessInv, InactiveHasNoSession, Live
<1> QED BY <1>4, <1>5, <1>6, <1>7 DEF SessInv

\* The process stops: what it had still to revoke is remembered by torn
LEMMA DieStep ==
  ASSUME SessInv, NEW r \in Calls, CallDies(r)
  PROVE  SessInv'
<1>1. /\ torn' = (torn \/ sess[r].do = "cut") /\ UNCHANGED <<account, token, atOnce>>
      /\ sess'[r] = NoCall /\ \A q \in Calls \ {r} : sess'[q] = sess[q]
      /\ sess' = [sess EXCEPT ![r] = NoCall]
  BY DEF CallDies, CallEnds, SessInv, SessTypeOK
<1>2. NoCall \in SessRequests /\ NoCall.do = "idle" /\ NoCall.token = {}
  BY DEF NoCall, SessRequests
<1>3. SessTypeOK'
  <2>1. torn' \in BOOLEAN
    BY <1>1 DEF SessInv, SessTypeOK
  <2>2. sess' \in [Calls -> SessRequests]
    BY <1>1, <1>2 DEF SessInv, SessTypeOK, SessRequests
  <2> QED BY <1>1, <1>2, <2>1, <2>2 DEF SessInv, SessTypeOK, SessRequests
<1>4. ReadActive'
  BY <1>1, <1>2 DEF SessInv, ReadActive
<1>5. Owed'
  <2>1. CASE torn \/ sess[r].do = "cut"
    BY <1>1, <2>1, Zenon DEF Owed
  <2>2. CASE ~torn /\ sess[r].do # "cut"
    BY <1>1, <2>2, Zenon DEF SessInv, Owed, Live
  <2> QED BY <2>1, <2>2
<1>6. InactiveHasNoSession'
  BY <1>1 DEF SessInv, InactiveHasNoSession, Live
<1> QED BY <1>3, <1>4, <1>5, <1>6 DEF SessInv

\* Logout and expiry take sessions away
LEMMA LogoutStep ==
  ASSUME SessInv, \/ \E only \in {{}} \cup {{t} : t \in Tokens} : Logout(only)
                  \/ \E t \in Tokens : TokenExpires(t)
  PROVE  SessInv'
<1>1. UNCHANGED <<account, sess, atOnce, torn>>
  BY DEF Logout, TokenExpires
<1>2. /\ token' \in [Tokens -> TokenRow]
      /\ \A t \in Tokens : token[t].is # "none" => token'[t].is # "none"
      /\ \A t \in Tokens : token'[t].is = "live" => token'[t] = token[t]
  <2>1. ASSUME NEW only \in {{}} \cup {{t} : t \in Tokens}, Logout(only)
        PROVE  \E ts \in SUBSET Tokens : token' = RevokedIn(ts)
    BY <2>1 DEF Logout
  <2>2. ASSUME NEW t \in Tokens, TokenExpires(t)
        PROVE  token' = [token EXCEPT ![t] = Ended(t, "expired")] /\ Live(t)
    BY <2>2 DEF TokenExpires
  <2>3. CASE \E only \in {{}} \cup {{t} : t \in Tokens} : Logout(only)
    BY <2>1, <2>3, RevokedRows DEF SessInv
  <2>4. CASE \E t \in Tokens : TokenExpires(t)
    <3>1. token \in [Tokens -> TokenRow]
      BY DEF SessInv, SessTypeOK, TokenRow
    <3>2. PICK t \in Tokens : token' = [token EXCEPT ![t] = Ended(t, "expired")]
      BY <2>2, <2>4
    <3>3. Ended(t, "expired") \in TokenRow /\ Ended(t, "expired").is = "expired"
      BY EndedType DEF SessInv
    <3> QED BY <3>1, <3>2, <3>3
  <2> QED BY <2>3, <2>4
<1>3. sess' \in [Calls -> SessRequests] /\ atOnce' \in SUBSET Tokens
  BY <1>1 DEF SessInv, SessTypeOK, SessRequests
<1> QED BY <1>1, <1>2, <1>3, FewerTokens

-----------------------------------------------------------------------------

\* The initial states satisfy the invariant
LEMMA SessInitInv == SessInit => SessInv
<1> SUFFICES ASSUME SessInit PROVE SessInv
  OBVIOUS
<1>1. SessTypeOK
  <2>1. 0 \in 0..PinChanges
    BY SessAssumption
  <2>2. account \in [active : BOOLEAN, era : 0..PinChanges] /\ atOnce \subseteq Tokens
        /\ torn \in BOOLEAN
    BY <2>1 DEF SessInit
  <2>3. token \in [Tokens -> TokenRow]
    BY <2>1 DEF SessInit, NoToken, TokenRow
  <2>4. sess \in [Calls -> SessRequests] /\ \A r \in Calls : sess[r].token = {}
    BY DEF SessInit, NoCall, SessRequests
  <2> QED BY <2>2, <2>3, <2>4 DEF SessTypeOK, TokenRow, SessRequests
<1>2. ReadActive /\ Owed /\ InactiveHasNoSession
  BY DEF SessInit, ReadActive, Owed, InactiveHasNoSession, NoToken, NoCall, Live
<1> QED BY <1>1, <1>2 DEF SessInv

\* Every step keeps the invariant
LEMMA SessNextInv == SessInv /\ [SessNext]_sessVars => SessInv'
<1> SUFFICES ASSUME SessInv, [SessNext]_sessVars PROVE SessInv'
  OBVIOUS
<1>1. ASSUME NEW r \in Calls, RevokeAll(r) PROVE SessInv'
  <2>1. /\ sess' = [sess EXCEPT ![r] = NoCall] /\ token' = AllRevoked
        /\ UNCHANGED <<account, atOnce, torn>>
    BY <1>1 DEF RevokeAll, CallEnds
  <2>2. NoCall \in SessRequests
    BY DEF NoCall, SessRequests
  <2>3. /\ sess' \in [Calls -> SessRequests]
        /\ \A q \in Calls : sess'[q] = sess[q] \/ sess'[q] = NoCall
        /\ account' \in [active : BOOLEAN, era : 0..PinChanges]
    BY <2>1, <2>2 DEF SessInv, SessTypeOK, SessRequests
  <2> QED BY <2>1, <2>3, RevokeAllStep
<1>2. CASE Deactivate
  <2>1. /\ token' = AllRevoked /\ UNCHANGED <<sess, atOnce, torn>>
        /\ account' \in [active : BOOLEAN, era : 0..PinChanges]
    BY <1>2 DEF Deactivate, SessInv, SessTypeOK
  <2> QED BY <2>1, RevokeAllStep DEF SessInv, SessTypeOK, SessRequests
<1>3. CASE Reactivate
  <2>1. /\ account' \in [active : BOOLEAN, era : 0..PinChanges]
        /\ account'.active /\ account'.era = account.era
        /\ UNCHANGED <<token, sess, atOnce, torn>>
    BY <1>3 DEF Reactivate, SessInv, SessTypeOK
  <2> QED BY <2>1 DEF SessInv, SessTypeOK, ReadActive, Owed, InactiveHasNoSession, Live
<1>4. CASE UNCHANGED sessVars
  BY <1>4 DEF sessVars, SessInv, SessTypeOK, ReadActive, Owed, InactiveHasNoSession, Live
<1> QED
  BY <1>1, <1>2, <1>3, <1>4, SessBeginStep, RotateStep, IssueStep, ChangeStep, DieStep, LogoutStep
     DEF SessNext

\* The invariant holds in every reachable state
LEMMA SessInvariance == SessSpec => []SessInv
  BY SessInitInv, SessNextInv, PTL DEF SessSpec

-----------------------------------------------------------------------------
(* A token is exchanged once                                               *)

\* A request that holds a token, to exchange it
HoldsToken(r, t) == sess[r].do \in {"rotate", "issue"} /\ sess[r].token = {t}

\* A token that has a successor, or is about to have one, is gone
TokenSpent ==
  \A t \in Tokens :
    \/ \E s \in Tokens : token[s].from = {t}
    \/ \E r \in Calls : sess[r].do = "issue" /\ sess[r].token = {t}
    => token[t].is \in {"revoked", "expired"}

\* A token has one holder or one successor, and not both, unless two requests held it at once
TokenAlone ==
  \A t \in Tokens \ atOnce :
    /\ \A q, r \in Calls : HoldsToken(q, t) /\ HoldsToken(r, t) => q = r
    /\ \A r \in Calls, s \in Tokens : HoldsToken(r, t) => token[s].from # {t}
    /\ \A s, u \in Tokens : token[s].from = {t} /\ token[u].from = {t} => s = u

OnceInv == SessInv /\ TokenSpent /\ TokenAlone

\* Tokens end or stay, requests end or stay, and nobody takes a token in hand
LEMMA NoTakerStep ==
  ASSUME OnceInv, UNCHANGED atOnce,
         \A t \in Tokens : token'[t].from = token[t].from,
         \A t \in Tokens : token[t].is \in {"revoked", "expired"} => token'[t].is = token[t].is,
         \A r \in Calls : sess'[r] = sess[r] \/ sess'[r].do \notin {"rotate", "issue"}
  PROVE  TokenSpent' /\ TokenAlone'
<1>1. TokenSpent'
  BY DEF OnceInv, TokenSpent
<1>2. \A r \in Calls, t \in Tokens : HoldsToken(r, t)' => HoldsToken(r, t)
  BY DEF HoldsToken
<1>3. TokenAlone'
  BY <1>2 DEF OnceInv, TokenAlone
<1> QED BY <1>1, <1>3

\* A request takes a live token in hand: nobody else holds it, or it is remembered by atOnce
LEMMA TakeStep ==
  ASSUME OnceInv, NEW r \in Calls, NEW t \in Tokens, BeginRefresh(r, t)
  PROVE  TokenSpent' /\ TokenAlone'
<1>1. /\ UNCHANGED <<account, token, torn>> /\ atOnce \subseteq atOnce'
      /\ (\E q \in Calls : sess[q].do = "rotate" /\ sess[q].token = {t}) => t \in atOnce'
      /\ \A q \in Calls \ {r} : sess'[q] = sess[q]
  BY DEF BeginRefresh, OnceInv, SessInv, SessTypeOK
<1>2. CASE token[t].is = "revoked" /\ sess' = [sess EXCEPT ![r] = [NoCall EXCEPT !.do = "reuse"]]
  <2>1. sess'[r].do = "reuse"
    BY <1>2 DEF OnceInv, SessInv, SessTypeOK, NoCall
  <2>2. \A q \in Calls, u \in Tokens : HoldsToken(q, u)' => HoldsToken(q, u) /\ q # r
    BY <1>1, <2>1 DEF HoldsToken
  <2>3. TokenSpent'
    BY <1>1, <2>1 DEF OnceInv, TokenSpent
  <2> QED BY <1>1, <2>2, <2>3 DEF OnceInv, TokenAlone
<1>3. CASE Live(t) /\ sess' = [sess EXCEPT ![r] = [NoCall EXCEPT !.do = "rotate", !.token = {t},
                                                                !.active = account.active]]
  <2>1. sess'[r].do = "rotate" /\ sess'[r].token = {t}
    BY <1>3 DEF OnceInv, SessInv, SessTypeOK, NoCall
  <2>2. TokenSpent'
    BY <1>1, <2>1 DEF OnceInv, TokenSpent
  <2>3. \A s \in Tokens : token[s].from # {t}
    BY <1>3 DEF OnceInv, TokenSpent, Live
  <2>4. \A q \in Calls : HoldsToken(q, t) => sess[q].do = "rotate" /\ sess[q].token = {t}
    BY <1>3 DEF OnceInv, TokenSpent, Live, HoldsToken
  <2>5. \A q \in Calls, u \in Tokens : HoldsToken(q, u)' => HoldsToken(q, u) \/ (q = r /\ u = t)
    BY <1>1, <2>1 DEF HoldsToken
  <2>6. t \notin atOnce' => \A q \in Calls : ~HoldsToken(q, t)
    BY <1>1, <2>4
  <2> QED BY <1>1, <2>2, <2>3, <2>5, <2>6 DEF OnceInv, TokenAlone
<1> QED BY <1>2, <1>3 DEF BeginRefresh

\* The token presented is revoked before its successor is written
LEMMA SpendStep ==
  ASSUME OnceInv, NEW r \in Calls, Rotate(r)
  PROVE  TokenSpent' /\ TokenAlone'
<1>1. PICK t \in sess[r].token : token' = [token EXCEPT ![t] = Ended(t, "revoked")]
  BY DEF Rotate, Revoked
<1>2. /\ t \in Tokens /\ sess[r].do = "rotate" /\ UNCHANGED <<account, torn, atOnce>>
      /\ sess'[r].do = "issue" /\ sess'[r].token = sess[r].token
      /\ \A q \in Calls \ {r} : sess'[q] = sess[q]
  BY DEF Rotate, CallGoes, OnceInv, SessInv, SessTypeOK
<1>3. /\ \A u \in Tokens : token'[u].from = token[u].from
      /\ \A u \in Tokens \ {t} : token'[u] = token[u]
      /\ token'[t].is = "revoked"
  BY <1>1, <1>2 DEF Ended, OnceInv, SessInv, SessTypeOK
<1>4. \A q \in Calls, u \in Tokens : HoldsToken(q, u)' <=> HoldsToken(q, u)
  BY <1>2 DEF HoldsToken
<1>5. TokenSpent'
  <2> SUFFICES ASSUME NEW u \in Tokens,
                      \/ \E s \in Tokens : token'[s].from = {u}
                      \/ \E q \in Calls : sess'[q].do = "issue" /\ sess'[q].token = {u}
               PROVE  token'[u].is \in {"revoked", "expired"}
    BY DEF TokenSpent
  <2>1. CASE u = t
    BY <1>3, <2>1
  <2>2. CASE u # t
    <3>1. \A q \in Calls : sess'[q].do = "issue" /\ sess'[q].token = {u} => q # r
      BY <1>1, <1>2, <2>2
    <3> QED BY <1>2, <1>3, <2>2, <3>1 DEF OnceInv, TokenSpent
  <2> QED BY <2>1, <2>2
<1> QED BY <1>2, <1>3, <1>4, <1>5 DEF OnceInv, TokenAlone

\* The successor of a token is written by its only holder
LEMMA SucceedStep ==
  ASSUME OnceInv, NEW r \in Calls, NEW t \in Tokens, Issue(r, t)
  PROVE  TokenSpent' /\ TokenAlone'
<1>1. /\ sess[r].do = "issue" /\ token[t].is = "none" /\ sess'[r] = NoCall /\ UNCHANGED atOnce
      /\ token'[t].from = sess[r].token /\ token'[t].is = "live"
      /\ \A u \in Tokens \ {t} : token'[u] = token[u]
      /\ \A q \in Calls \ {r} : sess'[q] = sess[q]
  BY DEF Issue, CallEnds, OnceInv, SessInv, SessTypeOK
<1>2. NoCall.do = "idle"
  BY DEF NoCall
<1>3. \A q \in Calls, u \in Tokens : HoldsToken(q, u)' => HoldsToken(q, u) /\ q # r
  BY <1>1, <1>2 DEF HoldsToken
<1>4. TokenSpent'
  <2> SUFFICES ASSUME NEW u \in Tokens,
                      \/ \E s \in Tokens : token'[s].from = {u}
                      \/ \E q \in Calls : sess'[q].do = "issue" /\ sess'[q].token = {u}
               PROVE  token'[u].is \in {"revoked", "expired"}
    BY DEF TokenSpent
  <2>1. \/ \E s \in Tokens : token[s].from = {u}
        \/ \E q \in Calls : sess[q].do = "issue" /\ sess[q].token = {u}
    BY <1>1, <1>2
  <2>2. token[u].is \in {"revoked", "expired"}
    BY <2>1 DEF OnceInv, TokenSpent
  <2> QED BY <1>1, <2>2
<1>5. TokenAlone'
  <2> SUFFICES ASSUME NEW u \in Tokens, u \notin atOnce
               PROVE  /\ \A p, q \in Calls : HoldsToken(p, u)' /\ HoldsToken(q, u)' => p = q
                      /\ \A q \in Calls, s \in Tokens : HoldsToken(q, u)' => token'[s].from # {u}
                      /\ \A s, v \in Tokens : token'[s].from = {u} /\ token'[v].from = {u} => s = v
    BY <1>1 DEF TokenAlone
  <2>1. \A s \in Tokens : token'[s].from = {u} => token[s].from = {u} \/ (s = t /\ HoldsToken(r, u))
    BY <1>1 DEF HoldsToken
  <2> QED BY <1>3, <2>1 DEF OnceInv, TokenAlone
<1> QED BY <1>4, <1>5

\* Every step keeps the tokens apart
LEMMA OnceNext == OnceInv /\ [SessNext]_sessVars => OnceInv'
<1> SUFFICES ASSUME OnceInv, [SessNext]_sessVars PROVE TokenSpent' /\ TokenAlone'
  BY SessNextInv DEF OnceInv
<1>1. ASSUME NEW ts \in SUBSET Tokens, token' = RevokedIn(ts)
      PROVE  /\ \A t \in Tokens : token'[t].from = token[t].from
             /\ \A t \in Tokens : token[t].is \in {"revoked", "expired"} => token'[t].is = token[t].is
  <2>1. \A t \in Tokens : token'[t] = IF t \in ts /\ Live(t) THEN Ended(t, "revoked") ELSE token[t]
    BY <1>1 DEF RevokedIn
  <2>2. \A t \in Tokens : Ended(t, "revoked").from = token[t].from
    BY DEF Ended, OnceInv, SessInv, SessTypeOK
  <2> QED BY <2>1, <2>2 DEF Live
<1>2. NoCall.do \notin {"rotate", "issue"}
  BY DEF NoCall
<1>3. ASSUME NEW r \in Calls, BeginSignIn(r) PROVE TokenSpent' /\ TokenAlone'
  <2>1. /\ sess'[r].do = "issue" /\ sess'[r].token = {} /\ UNCHANGED <<token, atOnce>>
        /\ \A q \in Calls \ {r} : sess'[q] = sess[q]
    BY <1>3 DEF BeginSignIn, OnceInv, SessInv, SessTypeOK, NoCall
  <2>2. \A q \in Calls, t \in Tokens : HoldsToken(q, t)' => HoldsToken(q, t)
    BY <2>1 DEF HoldsToken
  <2>3. TokenSpent'
    BY <2>1 DEF OnceInv, TokenSpent
  <2> QED BY <2>1, <2>2, <2>3 DEF OnceInv, TokenAlone
<1>4. ASSUME NEW r \in Calls, RevokeAll(r) PROVE TokenSpent' /\ TokenAlone'
  BY <1>1, <1>2, <1>4, NoTakerStep DEF RevokeAll, CallEnds, AllRevoked, OnceInv, SessInv, SessTypeOK
<1>5. ASSUME NEW r \in Calls, BeginChange(r) \/ ChangePin(r) \/ CallDies(r)
      PROVE  TokenSpent' /\ TokenAlone'
  <2>1. UNCHANGED <<token, atOnce>> /\ \A q \in Calls \ {r} : sess'[q] = sess[q]
    BY <1>5 DEF BeginChange, ChangePin, NextOfChange, CallGoes, CallDies, CallEnds,
                OnceInv, SessInv, SessTypeOK
  <2>2. sess'[r].do \in {"idle", "change", "cut"}
    BY <1>5 DEF BeginChange, ChangePin, NextOfChange, CallGoes, CallDies, CallEnds, NoCall,
                OnceInv, SessInv, SessTypeOK
  <2> QED BY <2>1, <2>2, NoTakerStep
<1>6. ASSUME NEW only \in {{}} \cup {{t} : t \in Tokens}, Logout(only) PROVE TokenSpent' /\ TokenAlone'
  <2>1. \E ts \in SUBSET Tokens : token' = RevokedIn(ts)
    BY <1>6 DEF Logout
  <2> QED BY <1>1, <1>6, <2>1, NoTakerStep DEF Logout
<1>7. ASSUME NEW t \in Tokens, TokenExpires(t) PROVE TokenSpent' /\ TokenAlone'
  BY <1>7, NoTakerStep DEF TokenExpires, Ended, Live, OnceInv, SessInv, SessTypeOK
<1>8. CASE Deactivate
  BY <1>1, <1>8, NoTakerStep DEF Deactivate, AllRevoked
<1>9. CASE Reactivate
  BY <1>9, NoTakerStep DEF Reactivate
<1>10. CASE UNCHANGED sessVars
  BY <1>10, NoTakerStep DEF sessVars
<1> QED
  BY <1>3, <1>4, <1>5, <1>6, <1>7, <1>8, <1>9, <1>10, TakeStep, SpendStep, SucceedStep DEF SessNext

\* At first nothing was issued
LEMMA OnceInit == SessInit => OnceInv
<1> SUFFICES ASSUME SessInit PROVE TokenSpent /\ TokenAlone
  BY SessInitInv DEF OnceInv
<1>1. /\ \A t \in Tokens : token[t].from = {}
      /\ \A r \in Calls : sess[r].do = "idle"
  BY DEF SessInit, NoToken, NoCall
<1> QED BY <1>1 DEF TokenSpent, TokenAlone, HoldsToken

\* One holder or one successor, and none of them beside a live token
LEMMA OnceImplies == OnceInv => RotatedOnce
<1> SUFFICES ASSUME OnceInv PROVE RotatedOnce
  OBVIOUS
<1>1. \A s, t \in Tokens : token[s].from = {t} => ~Live(t)
  BY DEF OnceInv, TokenSpent, Live
<1>2. ASSUME NEW t \in Tokens \ atOnce
      PROVE  Cardinality({s \in Tokens : token[s].from = {t}}) <= 1
  <2>1. CASE {s \in Tokens : token[s].from = {t}} = {}
    BY <2>1, FS_EmptySet
  <2>2. CASE {s \in Tokens : token[s].from = {t}} # {}
    <3>1. PICK s \in Tokens : token[s].from = {t}
      BY <2>2
    <3>2. {u \in Tokens : token[u].from = {t}} = {s}
      BY <3>1 DEF OnceInv, TokenAlone
    <3>3. Cardinality({s}) = 1
      BY FS_Singleton
    <3>4. Cardinality({u \in Tokens : token[u].from = {t}}) = 1
      BY <3>2, <3>3, Zenon
    <3> QED BY <3>4
  <2> QED BY <2>1, <2>2
<1> QED BY <1>1, <1>2 DEF RotatedOnce

-----------------------------------------------------------------------------
(* The theorems                                                            *)

\* Types of the sessions, and that a request rotates a token that exists
THEOREM SessionsTypeCorrect == SessSpec => []SessTypeOK
  BY SessInvariance, PTL DEF SessInv

\* changerPin: once it has ended, no session opened with the former PIN is left, unless
\* the process stopped between its two writes
THEOREM PinChangeEndsSessions == SessSpec => []PinChangeCuts
<1>1. SessInv => PinChangeCuts
  BY DEF SessInv, Owed, PinChangeCuts
<1> QED BY <1>1, SessInvariance, PTL

\* deactivateUser: the sessions of an inactive account are those of requests that had
\* read it before
THEOREM InactiveIsSignedOut == SessSpec => []InactiveHasNoSession
  BY SessInvariance, PTL DEF SessInv

\* rafraichirToken: a refresh token is exchanged once, and is no longer good when it was,
\* unless two requests presented it at once
THEOREM TokensRotateOnce == SessSpec => []RotatedOnce
  BY OnceInit, OnceNext, OnceImplies, PTL DEF SessSpec

\* The four together, as the runs check them
THEOREM SessionsAreSafe == SessSpec => []SessSafety
<1>1. SessTypeOK /\ RotatedOnce /\ PinChangeCuts /\ InactiveHasNoSession => SessSafety
  BY DEF SessSafety
<1> QED BY <1>1, SessionsTypeCorrect, TokensRotateOnce, PinChangeEndsSessions, InactiveIsSignedOut, PTL

-----------------------------------------------------------------------------
(***************************************************************************)
(* PINs and codes. A wrong PIN at the limit locks, a code opens one        *)
(* session, and one code is good at most, as long as two requests of one   *)
(* kind do not overlap: each part of the invariant is under that           *)
(* condition, and says what the request under way knows.                   *)
(***************************************************************************)

\* The shapes of a request and of the row of the user
TryRow == [do : {"idle", "login", "send", "consume", "verify"},
           code : Codes \cup {0}, right : BOOLEAN, tries : 0..(MaxAttempts - 1)]
UserRow == [pin : BOOLEAN, tries : 0..(MaxAttempts - 1), locked : BOOLEAN, active : BOOLEAN,
            managed : BOOLEAN, verified : BOOLEAN]

\* Requests of one kind do not overlap
OneTry(do) ==
  do \notin overlap => \A q, r \in Tries : try[q].do = do /\ try[r].do = do => q = r

\* An attempt under way was begun with the lock off, and knows the count
LoginKnows ==
  "login" \notin overlap =>
    /\ user.locked => user.tries = 0
    /\ \A r \in Tries : try[r].do = "login" => ~user.locked /\ try[r].tries = user.tries

\* While a code is sent none is good, and never two are
SentAlone ==
  "send" \notin overlap =>
    /\ \A c, d \in Codes : code[c] = "fresh" /\ code[d] = "fresh" => c = d
    /\ \A r \in Tries : try[r].do = "send" => \A c \in Codes : code[c] # "fresh"

\* The code a request compared or used up
HoldsCode(r, c) == try[r].do \in {"consume", "verify"} /\ try[r].code = c

\* A code in a hand opened no session yet, nor did one that is still good, and no two
\* hands hold the same
HeldUnspent ==
  /\ \A r \in Tries : try[r].do \in {"consume", "verify"} =>
       try[r].code \in Codes /\ code[try[r].code] # "none"
  /\ "consume" \notin overlap => \A c \in Codes :
       /\ code[c] \in {"none", "fresh"} => spent[c] = 0 /\ \A r \in Tries :
            ~(try[r].do = "verify" /\ try[r].code = c)
       /\ \A r \in Tries : HoldsCode(r, c) => spent[c] = 0
       /\ \A q, r \in Tries : HoldsCode(q, c) /\ HoldsCode(r, c) => q = r

\* The three parts: attempts with the PIN, codes sent, codes used up
LoginInv == OneTry("login") /\ LoginKnows /\ LockedAtTheLimit
SendInv == OneTry("send") /\ SentAlone
VerifyInv == OneTry("consume") /\ HeldUnspent /\ CodeOpensOnce

\* Each part holds as long as two requests of its kind have not overlapped
AccessInv == AccessTypeOK /\ LoginInv /\ SendInv /\ VerifyInv

\* A request at rest
LEMMA TryRest == NoTry \in TryRow /\ NoTry.do = "idle"
  BY AccessAssumption DEF NoTry, TryRow

\* A request that holds a code
LEMMA CodeRow ==
  ASSUME NEW t \in TryRow, NEW c \in Codes
  PROVE  /\ [t EXCEPT !.do = "consume", !.code = c] \in TryRow
         /\ [t EXCEPT !.do = "consume", !.code = c].do = "consume"
         /\ [t EXCEPT !.do = "consume", !.code = c].code = c
  BY DEF TryRow

\* A request that sends one
LEMMA SendRow ==
  ASSUME NEW t \in TryRow
  PROVE  [t EXCEPT !.do = "send"] \in TryRow /\ [t EXCEPT !.do = "send"].do = "send"
  BY DEF TryRow

\* A user whose wrong PINs are counted
LEMMA CountRow ==
  ASSUME NEW u \in UserRow, NEW n \in 0..(MaxAttempts - 1)
  PROVE  /\ [u EXCEPT !.tries = n] \in UserRow
         /\ [u EXCEPT !.tries = n].tries = n /\ [u EXCEPT !.tries = n].locked = u.locked
  BY DEF UserRow

\* ... and who is locked out, or let in again
LEMMA LockRow ==
  ASSUME NEW u \in UserRow, NEW n \in 0..(MaxAttempts - 1), NEW b \in BOOLEAN
  PROVE  /\ [u EXCEPT !.tries = n, !.locked = b] \in UserRow
         /\ [u EXCEPT !.tries = n, !.locked = b].tries = n
         /\ [u EXCEPT !.tries = n, !.locked = b].locked = b
  BY DEF UserRow

\* What the type says of the rows
LEMMA AccessShape ==
  ASSUME AccessTypeOK
  PROVE  /\ user \in UserRow /\ try \in [Tries -> TryRow]
         /\ code \in [Codes -> {"none", "fresh", "used", "expired"}]
         /\ spent \in [Codes -> Nat] /\ wrong \in Nat
  BY DEF AccessTypeOK, UserRow, TryRow

\* A request that ends leaves what the others rest on
LEMMA TryEndsStep ==
  ASSUME AccessInv, NEW r \in Tries, TryEnds(r), UNCHANGED overlap
  PROVE  /\ try' \in [Tries -> TryRow]
         /\ try'[r] = NoTry /\ \A q \in Tries \ {r} : try'[q] = try[q]
         /\ \A do \in {"login", "send", "consume"} : OneTry(do) => OneTry(do)'
<1>1. /\ try' \in [Tries -> TryRow]
      /\ try'[r] = NoTry /\ \A q \in Tries \ {r} : try'[q] = try[q]
  BY AccessShape, TryRest DEF AccessInv, TryEnds
<1> QED BY <1>1, TryRest DEF OneTry

\* A request that begins beside none of its kind
LEMMA BesideStep ==
  ASSUME AccessInv, NEW r \in Tries, TryFree(r), NEW t \in TryRow,
         NEW kind \in {"login", "send", "consume"}, t.do = kind,
         try' = [try EXCEPT ![r] = t], Beside(r, kind)
  PROVE  /\ try' \in [Tries -> TryRow]
         /\ try'[r] = t /\ \A q \in Tries \ {r} : try'[q] = try[q]
         /\ overlap \subseteq overlap' /\ overlap' \subseteq {"login", "send", "consume"}
         /\ \A do \in {"login", "send", "consume"} : OneTry(do) => OneTry(do)'
         /\ kind \notin overlap' => \A q \in Tries \ {r} : try[q].do # kind
<1>1. /\ try' \in [Tries -> TryRow]
      /\ try'[r] = t /\ \A q \in Tries \ {r} : try'[q] = try[q]
  BY AccessShape DEF AccessInv
<1>2. /\ overlap \subseteq overlap' /\ overlap' \subseteq {"login", "send", "consume"}
      /\ overlap' \subseteq overlap \cup {kind}
  BY DEF Beside, AccessInv, AccessTypeOK
<1>3. kind \notin overlap' => \A q \in Tries \ {r} : try[q].do # kind
  BY DEF Beside
<1>4. ASSUME NEW do \in {"login", "send", "consume"}, OneTry(do) PROVE OneTry(do)'
  <2>1. CASE do = kind
    BY <1>1, <1>2, <1>3, <2>1 DEF OneTry
  <2>2. CASE do # kind
    BY <1>1, <1>2, <1>4, <2>2 DEF OneTry
  <2> QED BY <2>1, <2>2
<1> QED BY <1>1, <1>2, <1>3, <1>4

\* A PIN is typed: the attempt knows the count and that the lock is off
LEMMA BeginLoginStep ==
  ASSUME AccessInv, NEW r \in Tries, NEW right \in BOOLEAN, BeginLogin(r, right)
  PROVE  AccessInv'
<1> DEFINE t == [NoTry EXCEPT !.do = "login", !.right = right, !.tries = user.tries]
<1>1. user \in UserRow
  BY AccessShape DEF AccessInv
<1>2. user.tries \in 0..(MaxAttempts - 1)
  BY <1>1 DEF UserRow
<1>3. t \in TryRow /\ t.do = "login" /\ t.tries = user.tries
  <2> HIDE DEF t
  <2>1. PICK n \in 0..(MaxAttempts - 1) : n = user.tries
    BY <1>2
  <2>2. t = [NoTry EXCEPT !.do = "login", !.right = right, !.tries = n]
    BY <2>1 DEF t
  <2>3. NoTry \in TryRow
    BY TryRest
  <2>4. t \in TryRow /\ t.do = "login" /\ t.tries = n
    <3>1. \A w \in TryRow :
            LET x == [w EXCEPT !.do = "login", !.right = right, !.tries = n]
            IN  x \in TryRow /\ x.do = "login" /\ x.tries = n
      BY DEF TryRow
    <3> QED BY <2>2, <2>3, <3>1, Zenon
  <2> QED BY <2>1, <2>4
<1>4. /\ TryFree(r) /\ ~user.locked /\ try' = [try EXCEPT ![r] = t] /\ Beside(r, "login")
      /\ UNCHANGED <<user, code, wrong, spent>>
  BY DEF BeginLogin
<1> HIDE DEF t
<1>5. /\ try' \in [Tries -> TryRow]
      /\ try'[r] = t /\ \A q \in Tries \ {r} : try'[q] = try[q]
      /\ overlap \subseteq overlap' /\ overlap' \subseteq {"login", "send", "consume"}
      /\ \A do \in {"login", "send", "consume"} : OneTry(do) => OneTry(do)'
      /\ "login" \notin overlap' => \A q \in Tries \ {r} : try[q].do # "login"
  BY <1>3, <1>4, BesideStep, Zenon
<1>6. AccessTypeOK'
  BY <1>4, <1>5 DEF AccessInv, AccessTypeOK, TryRow
<1>7. LoginInv'
  BY <1>3, <1>4, <1>5 DEF AccessInv, LoginInv, LoginKnows, LockedAtTheLimit
<1>8. SendInv'
  BY <1>3, <1>4, <1>5 DEF AccessInv, SendInv, SentAlone
<1>9. VerifyInv'
  BY <1>3, <1>4, <1>5 DEF AccessInv, VerifyInv, HeldUnspent, HoldsCode, CodeOpensOnce
<1> QED BY <1>6, <1>7, <1>8, <1>9 DEF AccessInv

\* A wrong PIN is counted, and the last one locks
LEMMA WrongPinStep ==
  ASSUME AccessInv, NEW r \in Tries, WrongPin(r)
  PROVE  AccessInv'
<1>1. /\ try[r].do = "login" /\ user' = FailedAttempt(try[r].tries) /\ wrong' = wrong + 1
      /\ TryEnds(r) /\ UNCHANGED <<code, spent, overlap>>
  BY DEF WrongPin
<1>2. PICK n \in 0..(MaxAttempts - 1) : try[r].tries = n
  BY AccessShape DEF AccessInv, TryRow
<1>3. /\ try' \in [Tries -> TryRow]
      /\ try'[r] = NoTry /\ \A q \in Tries \ {r} : try'[q] = try[q]
      /\ \A do \in {"login", "send", "consume"} : OneTry(do) => OneTry(do)'
  BY <1>1, TryEndsStep
<1>4. user \in UserRow /\ MaxAttempts \in Nat \ {0} /\ n \in Nat
  BY <1>2, AccessShape, AccessAssumption DEF AccessInv
<1>5. /\ user' \in UserRow
      /\ n + 1 >= MaxAttempts => user'.tries = 0 /\ user'.locked
      /\ n + 1 < MaxAttempts => user'.tries = n + 1 /\ user'.locked = user.locked
  <2>1. CASE n + 1 >= MaxAttempts
    <3>1. user' = [user EXCEPT !.tries = 0, !.locked = TRUE]
      BY <1>1, <1>2, <2>1 DEF FailedAttempt
    <3>2. user' \in UserRow /\ user'.tries = 0 /\ user'.locked = TRUE
      <4>1. 0 \in 0..(MaxAttempts - 1)
        BY <1>4
      <4> QED BY <1>4, <3>1, <4>1, LockRow, Zenon
    <3> QED BY <1>4, <2>1, <3>2
  <2>2. CASE n + 1 < MaxAttempts
    <3>1. user' = [user EXCEPT !.tries = n + 1] /\ n + 1 \in 0..(MaxAttempts - 1)
      BY <1>1, <1>2, <1>4, <2>2 DEF FailedAttempt
    <3>2. user' \in UserRow /\ user'.tries = n + 1 /\ user'.locked = user.locked
      BY <1>4, <3>1, CountRow, Zenon
    <3> QED BY <1>4, <2>2, <3>2
  <2> QED BY <1>4, <2>1, <2>2
<1>6. AccessTypeOK'
  BY <1>1, <1>3, <1>5 DEF AccessInv, AccessTypeOK, TryRow, UserRow
<1>7. LoginInv'
  <2> SUFFICES ASSUME "login" \notin overlap
               PROVE  LoginKnows' /\ LockedAtTheLimit'
    BY <1>1, <1>3 DEF AccessInv, LoginInv, LoginKnows, LockedAtTheLimit
  <2>1. ~user.locked /\ user.tries = n /\ wrong = n
    BY <1>1, <1>2 DEF AccessInv, LoginInv, LoginKnows, LockedAtTheLimit
  <2>2. \A q \in Tries : try'[q].do # "login"
    BY <1>1, <1>3, TryRest DEF AccessInv, LoginInv, OneTry
  <2> QED BY <1>1, <1>4, <1>5, <2>1, <2>2 DEF LoginKnows, LockedAtTheLimit
<1>8. SendInv'
  BY <1>1, <1>3, TryRest DEF AccessInv, SendInv, SentAlone
<1>9. VerifyInv'
  BY <1>1, <1>3, TryRest DEF AccessInv, VerifyInv, HeldUnspent, HoldsCode, CodeOpensOnce
<1> QED BY <1>6, <1>7, <1>8, <1>9 DEF AccessInv

\* A right PIN puts the count back to nothing
LEMMA RightPinStep ==
  ASSUME AccessInv, NEW r \in Tries, RightPin(r)
  PROVE  AccessInv'
<1>1. /\ try[r].do = "login" /\ user' = [user EXCEPT !.tries = 0, !.locked = FALSE] /\ wrong' = 0
      /\ TryEnds(r) /\ UNCHANGED <<code, spent, overlap>>
  BY DEF RightPin
<1>3. /\ try' \in [Tries -> TryRow]
      /\ try'[r] = NoTry /\ \A q \in Tries \ {r} : try'[q] = try[q]
      /\ \A do \in {"login", "send", "consume"} : OneTry(do) => OneTry(do)'
  BY <1>1, TryEndsStep
<1>4. user \in UserRow /\ MaxAttempts \in Nat \ {0}
  BY AccessShape, AccessAssumption DEF AccessInv
<1>5. user' \in UserRow /\ user'.tries = 0 /\ user'.locked = FALSE
  <2>1. 0 \in 0..(MaxAttempts - 1)
    BY <1>4
  <2> QED BY <1>1, <1>4, <2>1, LockRow, Zenon
<1>6. AccessTypeOK'
  BY <1>1, <1>3, <1>5 DEF AccessInv, AccessTypeOK, TryRow, UserRow
<1>7. LoginInv'
  <2>1. "login" \notin overlap => \A q \in Tries : try'[q].do # "login"
    BY <1>1, <1>3, TryRest DEF AccessInv, LoginInv, OneTry
  <2> QED BY <1>1, <1>3, <1>4, <1>5, <2>1 DEF AccessInv, LoginInv, LoginKnows, LockedAtTheLimit
<1>8. SendInv'
  BY <1>1, <1>3, TryRest DEF AccessInv, SendInv, SentAlone
<1>9. VerifyInv'
  BY <1>1, <1>3, TryRest DEF AccessInv, VerifyInv, HeldUnspent, HoldsCode, CodeOpensOnce
<1> QED BY <1>6, <1>7, <1>8, <1>9 DEF AccessInv

\* Codes sent before are spoilt
LEMMA BeginSendStep ==
  ASSUME AccessInv, NEW r \in Tries, BeginSend(r)
  PROVE  AccessInv'
<1> DEFINE t == [NoTry EXCEPT !.do = "send"]
<1>3. t \in TryRow /\ t.do = "send"
  BY TryRest, SendRow, Zenon
<1>4. /\ TryFree(r) /\ try' = [try EXCEPT ![r] = t] /\ Beside(r, "send")
      /\ code' = Invalidate /\ UNCHANGED <<user, wrong, spent>>
  BY DEF BeginSend
<1> HIDE DEF t
<1>5. /\ try' \in [Tries -> TryRow]
      /\ try'[r] = t /\ \A q \in Tries \ {r} : try'[q] = try[q]
      /\ overlap \subseteq overlap' /\ overlap' \subseteq {"login", "send", "consume"}
      /\ \A do \in {"login", "send", "consume"} : OneTry(do) => OneTry(do)'
      /\ "send" \notin overlap' => \A q \in Tries \ {r} : try[q].do # "send"
  BY <1>3, <1>4, BesideStep, Zenon
<1>6. /\ code' \in [Codes -> {"none", "fresh", "used", "expired"}]
      /\ \A c \in Codes : code'[c] # "fresh" /\ (code'[c] = "none" <=> code[c] = "none")
  BY <1>4, AccessShape DEF AccessInv, Invalidate
<1>7. AccessTypeOK'
  BY <1>4, <1>5, <1>6 DEF AccessInv, AccessTypeOK, TryRow
<1>8. LoginInv'
  BY <1>3, <1>4, <1>5 DEF AccessInv, LoginInv, LoginKnows, LockedAtTheLimit
<1>9. SendInv'
  BY <1>5, <1>6 DEF AccessInv, SendInv, SentAlone
<1>10. VerifyInv'
  BY <1>3, <1>4, <1>5, <1>6 DEF AccessInv, VerifyInv, HeldUnspent, HoldsCode, CodeOpensOnce
<1> QED BY <1>7, <1>8, <1>9, <1>10 DEF AccessInv

\* ... and one good code is there
LEMMA CreateCodeStep ==
  ASSUME AccessInv, NEW r \in Tries, NEW c \in Codes, CreateCode(r, c)
  PROVE  AccessInv'
<1>1. /\ try[r].do = "send" /\ code[c] = "none" /\ code' = [code EXCEPT ![c] = "fresh"]
      /\ TryEnds(r) /\ UNCHANGED <<user, wrong, spent, overlap>>
  BY DEF CreateCode
<1>3. /\ try' \in [Tries -> TryRow]
      /\ try'[r] = NoTry /\ \A q \in Tries \ {r} : try'[q] = try[q]
      /\ \A do \in {"login", "send", "consume"} : OneTry(do) => OneTry(do)'
  BY <1>1, TryEndsStep
<1>4. /\ code' \in [Codes -> {"none", "fresh", "used", "expired"}]
      /\ code'[c] = "fresh" /\ \A d \in Codes \ {c} : code'[d] = code[d]
  BY <1>1, AccessShape DEF AccessInv
<1>6. AccessTypeOK'
  BY <1>1, <1>3, <1>4 DEF AccessInv, AccessTypeOK, TryRow
<1>7. LoginInv'
  BY <1>1, <1>3, TryRest DEF AccessInv, LoginInv, LoginKnows, LockedAtTheLimit
<1>8. SendInv'
  <2>1. "send" \notin overlap => \A q \in Tries : try'[q].do # "send"
    BY <1>1, <1>3, TryRest DEF AccessInv, SendInv, OneTry
  <2> QED BY <1>1, <1>3, <1>4, <2>1 DEF AccessInv, SendInv, SentAlone
<1>9. VerifyInv'
  BY <1>1, <1>3, <1>4, TryRest DEF AccessInv, VerifyInv, HeldUnspent, HoldsCode, CodeOpensOnce
<1> QED BY <1>6, <1>7, <1>8, <1>9 DEF AccessInv

\* A good code is compared
LEMMA BeginVerifyStep ==
  ASSUME AccessInv, NEW r \in Tries, NEW c \in Codes, BeginVerify(r, c)
  PROVE  AccessInv'
<1> DEFINE t == [NoTry EXCEPT !.do = "consume", !.code = c]
<1>3. t \in TryRow /\ t.do = "consume" /\ t.code = c
  BY TryRest, CodeRow, Zenon
<1>4. /\ TryFree(r) /\ try' = [try EXCEPT ![r] = t] /\ Beside(r, "consume")
      /\ code[c] = "fresh" /\ UNCHANGED <<user, code, wrong, spent>>
  BY DEF BeginVerify, Latest
<1> HIDE DEF t
<1>5. /\ try' \in [Tries -> TryRow]
      /\ try'[r] = t /\ \A q \in Tries \ {r} : try'[q] = try[q]
      /\ overlap \subseteq overlap' /\ overlap' \subseteq {"login", "send", "consume"}
      /\ \A do \in {"login", "send", "consume"} : OneTry(do) => OneTry(do)'
      /\ "consume" \notin overlap' => \A q \in Tries \ {r} : try[q].do # "consume"
  BY <1>3, <1>4, BesideStep, Zenon
<1>7. AccessTypeOK'
  BY <1>4, <1>5 DEF AccessInv, AccessTypeOK, TryRow
<1>8. LoginInv'
  BY <1>3, <1>4, <1>5 DEF AccessInv, LoginInv, LoginKnows, LockedAtTheLimit
<1>9. SendInv'
  BY <1>3, <1>4, <1>5 DEF AccessInv, SendInv, SentAlone
<1>10. VerifyInv'
  <2>1. OneTry("consume")' /\ CodeOpensOnce'
    BY <1>4, <1>5 DEF AccessInv, VerifyInv, CodeOpensOnce
  <2>2. HeldUnspent'
    BY <1>3, <1>4, <1>5 DEF AccessInv, VerifyInv, HeldUnspent, HoldsCode
  <2> QED BY <2>1, <2>2 DEF VerifyInv
<1> QED BY <1>7, <1>8, <1>9, <1>10 DEF AccessInv

\* ... is used up
LEMMA ConsumeCodeStep ==
  ASSUME AccessInv, NEW r \in Tries, ConsumeCode(r)
  PROVE  AccessInv'
<1>1. PICK c \in Codes : try[r].code = c
  BY DEF ConsumeCode, AccessInv, VerifyInv, HeldUnspent
<1>2. /\ try[r].do = "consume" /\ code' = [code EXCEPT ![c] = "used"]
      /\ try' = [try EXCEPT ![r].do = "verify"] /\ UNCHANGED <<user, wrong, spent, overlap>>
  BY <1>1 DEF ConsumeCode, Used
<1>3. /\ try' \in [Tries -> TryRow] /\ try'[r].do = "verify" /\ try'[r].code = c
      /\ \A q \in Tries \ {r} : try'[q] = try[q]
  <2>1. try \in [Tries -> TryRow] /\ try[r] \in TryRow
    BY AccessShape DEF AccessInv
  <2> QED BY <1>1, <1>2, <2>1 DEF TryRow
<1>4. /\ code' \in [Codes -> {"none", "fresh", "used", "expired"}]
      /\ code'[c] = "used" /\ \A d \in Codes \ {c} : code'[d] = code[d]
  BY <1>2, AccessShape DEF AccessInv
<1>6. AccessTypeOK'
  BY <1>2, <1>3, <1>4 DEF AccessInv, AccessTypeOK, TryRow
<1>7. LoginInv'
  BY <1>2, <1>3 DEF AccessInv, LoginInv, LoginKnows, LockedAtTheLimit, OneTry
<1>8. SendInv'
  BY <1>2, <1>3, <1>4 DEF AccessInv, SendInv, SentAlone, OneTry
<1>9. VerifyInv'
  <2>1. OneTry("consume")' /\ CodeOpensOnce'
    BY <1>2, <1>3 DEF AccessInv, VerifyInv, CodeOpensOnce, OneTry
  <2>2. HeldUnspent'
    BY <1>1, <1>2, <1>3, <1>4 DEF AccessInv, VerifyInv, HeldUnspent, HoldsCode
  <2> QED BY <2>1, <2>2 DEF VerifyInv
<1> QED BY <1>6, <1>7, <1>8, <1>9 DEF AccessInv

\* ... and opens a session, which it did not before
LEMMA VerifyUserStep ==
  ASSUME AccessInv, NEW r \in Tries, VerifyUser(r)
  PROVE  AccessInv'
<1>1. PICK c \in Codes : try[r].code = c
  BY DEF VerifyUser, AccessInv, VerifyInv, HeldUnspent
<1>2. /\ try[r].do = "verify" /\ TryEnds(r) /\ UNCHANGED <<code, wrong, overlap>>
      /\ \/ user' = [user EXCEPT !.verified = TRUE] /\ spent' = [spent EXCEPT ![c] = @ + 1]
         \/ UNCHANGED <<user, spent>>
  BY <1>1 DEF VerifyUser
<1>3. /\ try' \in [Tries -> TryRow]
      /\ try'[r] = NoTry /\ \A q \in Tries \ {r} : try'[q] = try[q]
      /\ \A do \in {"login", "send", "consume"} : OneTry(do) => OneTry(do)'
  BY <1>2, TryEndsStep
<1>4. user' \in UserRow /\ user'.locked = user.locked /\ user'.tries = user.tries
  <2>1. user \in UserRow
    BY AccessShape DEF AccessInv
  <2> QED BY <1>2, <2>1 DEF UserRow
<1>5. /\ spent' \in [Codes -> Nat] /\ spent'[c] \in {spent[c], spent[c] + 1}
      /\ \A d \in Codes \ {c} : spent'[d] = spent[d]
  BY <1>2, AccessShape DEF AccessInv
<1>6. AccessTypeOK'
  BY <1>2, <1>3, <1>4, <1>5 DEF AccessInv, AccessTypeOK, TryRow, UserRow
<1>7. LoginInv'
  BY <1>2, <1>3, <1>4, TryRest DEF AccessInv, LoginInv, LoginKnows, LockedAtTheLimit
<1>8. SendInv'
  BY <1>2, <1>3, TryRest DEF AccessInv, SendInv, SentAlone
<1>9. VerifyInv'
  <2>1. OneTry("consume")'
    BY <1>2, <1>3 DEF AccessInv, VerifyInv
  <2>2. "consume" \notin overlap =>
          spent[c] = 0 /\ code[c] \notin {"none", "fresh"}
    BY <1>1, <1>2 DEF AccessInv, VerifyInv, HeldUnspent, HoldsCode
  <2>3. CodeOpensOnce'
    BY <1>2, <1>5, <2>2 DEF AccessInv, VerifyInv, CodeOpensOnce
  <2>4. \A q \in Tries, d \in Codes : HoldsCode(q, d)' => q # r /\ HoldsCode(q, d)
    BY <1>3, TryRest DEF HoldsCode
  <2>5. "consume" \notin overlap => \A q \in Tries : ~HoldsCode(q, c)'
    BY <1>1, <1>2, <2>4 DEF AccessInv, VerifyInv, HeldUnspent, HoldsCode
  <2>6. \A q \in Tries : try'[q].do \in {"consume", "verify"} =>
          try'[q].code \in Codes /\ code[try'[q].code] # "none"
    BY <1>3, TryRest DEF AccessInv, VerifyInv, HeldUnspent
  <2>7. ASSUME "consume" \notin overlap, NEW d \in Codes
        PROVE  /\ code[d] \in {"none", "fresh"} => spent'[d] = 0 /\ \A q \in Tries :
                    ~(try'[q].do = "verify" /\ try'[q].code = d)
               /\ \A q \in Tries : HoldsCode(q, d)' => spent'[d] = 0
               /\ \A p, q \in Tries : HoldsCode(p, d)' /\ HoldsCode(q, d)' => p = q
    <3>1. code[d] \in {"none", "fresh"} => d # c /\ spent'[d] = 0
      BY <1>5, <2>2, <2>7 DEF AccessInv, VerifyInv, HeldUnspent
    <3>2. code[d] \in {"none", "fresh"} => \A q \in Tries :
            ~(try'[q].do = "verify" /\ try'[q].code = d)
      BY <1>3, <2>7, TryRest DEF AccessInv, VerifyInv, HeldUnspent
    <3>3. \A q \in Tries : HoldsCode(q, d)' => spent'[d] = 0
      BY <1>5, <2>4, <2>5, <2>7 DEF AccessInv, VerifyInv, HeldUnspent
    <3>4. \A p, q \in Tries : HoldsCode(p, d)' /\ HoldsCode(q, d)' => p = q
      BY <2>4, <2>7 DEF AccessInv, VerifyInv, HeldUnspent
    <3> QED BY <3>1, <3>2, <3>3, <3>4
  <2>8. HeldUnspent'
    BY <1>2, <2>6, <2>7 DEF HeldUnspent
  <2> QED BY <2>1, <2>3, <2>8 DEF VerifyInv
<1> QED BY <1>6, <1>7, <1>8, <1>9 DEF AccessInv

\* The other steps: the lock and the codes expire, the account is changed
LEMMA OtherAccessSteps ==
  ASSUME AccessInv,
         \/ \E c \in Codes : CodeExpires(c)
         \/ LockExpires \/ DefinePin \/ Promoted
         \/ \E active \in BOOLEAN : SetActive(active)
         \/ UNCHANGED accessVars
  PROVE  AccessInv'
<1>0. user \in UserRow /\ MaxAttempts \in Nat \ {0}
  BY AccessShape, AccessAssumption DEF AccessInv
<1>1. ASSUME user' \in UserRow, user'.locked = user.locked, user'.tries = user.tries,
             UNCHANGED <<code, try, wrong, spent, overlap>>
      PROVE  AccessInv'
  BY <1>1 DEF AccessInv, AccessTypeOK, UserRow, LoginInv, SendInv, VerifyInv, OneTry, LoginKnows,
     LockedAtTheLimit, SentAlone, HeldUnspent, HoldsCode, CodeOpensOnce
<1>2. ASSUME NEW c \in Codes, CodeExpires(c) PROVE AccessInv'
  <2>1. /\ code' \in [Codes -> {"none", "fresh", "used", "expired"}]
        /\ code'[c] = "expired" /\ \A d \in Codes \ {c} : code'[d] = code[d]
        /\ UNCHANGED <<user, try, wrong, spent, overlap>>
    BY <1>2, AccessShape DEF AccessInv, CodeExpires
  <2>2. AccessTypeOK' /\ LoginInv' /\ SendInv'
    BY <2>1 DEF AccessInv, AccessTypeOK, LoginInv, SendInv, OneTry, LoginKnows,
       LockedAtTheLimit, SentAlone
  <2>3. VerifyInv'
    BY <2>1 DEF AccessInv, VerifyInv, OneTry, HeldUnspent, HoldsCode, CodeOpensOnce
  <2> QED BY <2>2, <2>3 DEF AccessInv
<1>3. ASSUME LockExpires PROVE AccessInv'
  <2>1. /\ user' \in UserRow /\ user'.locked = FALSE /\ user'.tries = user.tries /\ user.locked
        /\ wrong' = 0 /\ UNCHANGED <<code, try, spent, overlap>>
    BY <1>0, <1>3 DEF LockExpires, UserRow
  <2>2. AccessTypeOK' /\ SendInv' /\ VerifyInv'
    BY <2>1 DEF AccessInv, AccessTypeOK, UserRow, SendInv, VerifyInv, OneTry,
       SentAlone, HeldUnspent, HoldsCode, CodeOpensOnce
  <2>3. LoginInv'
    BY <1>0, <2>1 DEF AccessInv, LoginInv, OneTry, LoginKnows, LockedAtTheLimit
  <2> QED BY <2>2, <2>3 DEF AccessInv
<1>4. DefinePin => AccessInv'
  <2>1. DefinePin => user' \in UserRow /\ user'.locked = user.locked /\ user'.tries = user.tries
    BY <1>0 DEF DefinePin, UserRow
  <2> QED BY <1>1, <2>1 DEF DefinePin
<1>5. Promoted => AccessInv'
  <2>1. Promoted => user' \in UserRow /\ user'.locked = user.locked /\ user'.tries = user.tries
    BY <1>0 DEF Promoted, UserRow
  <2> QED BY <1>1, <2>1 DEF Promoted
<1>6. ASSUME NEW active \in BOOLEAN, SetActive(active) PROVE AccessInv'
  <2>1. user' \in UserRow /\ user'.locked = user.locked /\ user'.tries = user.tries
    BY <1>0, <1>6 DEF SetActive, UserRow
  <2> QED BY <1>1, <1>6, <2>1 DEF SetActive
<1>7. UNCHANGED accessVars => AccessInv'
  BY <1>0, <1>1 DEF accessVars
<1> QED BY <1>2, <1>3, <1>4, <1>5, <1>6, <1>7

\* A request that dies leaves the others what they hold
LEMMA TryDiesStep ==
  ASSUME AccessInv, NEW r \in Tries, TryDies(r)
  PROVE  AccessInv'
<1>1. TryEnds(r) /\ UNCHANGED <<user, code, wrong, spent, overlap>>
  BY DEF TryDies
<1>3. /\ try' \in [Tries -> TryRow]
      /\ try'[r] = NoTry /\ \A q \in Tries \ {r} : try'[q] = try[q]
      /\ \A do \in {"login", "send", "consume"} : OneTry(do) => OneTry(do)'
  BY <1>1, TryEndsStep
<1>6. AccessTypeOK'
  BY <1>1, <1>3 DEF AccessInv, AccessTypeOK, TryRow
<1>7. LoginInv' /\ SendInv'
  BY <1>1, <1>3, TryRest DEF AccessInv, LoginInv, LoginKnows, LockedAtTheLimit, SendInv, SentAlone
<1>9. VerifyInv'
  BY <1>1, <1>3, TryRest DEF AccessInv, VerifyInv, HeldUnspent, HoldsCode, CodeOpensOnce
<1> QED BY <1>6, <1>7, <1>9 DEF AccessInv

\* Each step preserves the invariant
LEMMA AccessNextInv == AccessInv /\ [AccessNext]_accessVars => AccessInv'
  BY BeginLoginStep, WrongPinStep, RightPinStep, BeginSendStep, CreateCodeStep, BeginVerifyStep,
     ConsumeCodeStep, VerifyUserStep, TryDiesStep, OtherAccessSteps, Zenon DEF AccessNext

\* The invariant holds at first
LEMMA AccessInitInv == AccessInit => AccessInv
<1> SUFFICES ASSUME AccessInit PROVE AccessInv
  OBVIOUS
<1>1. /\ user \in UserRow /\ user.tries = 0 /\ user.locked = FALSE
      /\ try = [r \in Tries |-> NoTry] /\ \A r \in Tries : try[r].do = "idle"
      /\ wrong = 0 /\ overlap = {} /\ MaxAttempts \in Nat \ {0}
      /\ \A c \in Codes : code[c] = "none" /\ spent[c] = 0
  <2>1. user \in UserRow /\ user.tries = 0
    <3>1. 0 \in 0..(MaxAttempts - 1)
      BY AccessAssumption
    <3>2. \A S, A, B : A \subseteq BOOLEAN /\ B \subseteq BOOLEAN /\ S \subseteq 0..(MaxAttempts - 1) =>
            [pin : BOOLEAN, tries : S, locked : A, active : B, managed : BOOLEAN, verified : A]
              \subseteq UserRow
      BY DEF UserRow
    <3>3. {FALSE} \subseteq BOOLEAN /\ {TRUE} \subseteq BOOLEAN /\ {0} \subseteq 0..(MaxAttempts - 1)
      BY <3>1
    <3>4. [pin : BOOLEAN, tries : {0}, locked : {FALSE}, active : {TRUE}, managed : BOOLEAN,
           verified : {FALSE}] \subseteq UserRow
      BY <3>2, <3>3, Zenon
    <3> QED BY <3>4 DEF AccessInit
  <2>2. user.locked = FALSE
    BY DEF AccessInit
  <2>3. /\ try = [r \in Tries |-> NoTry] /\ wrong = 0 /\ overlap = {}
        /\ \A c \in Codes : code[c] = "none" /\ spent[c] = 0
    BY DEF AccessInit
  <2> QED BY <2>1, <2>2, <2>3, TryRest, AccessAssumption
<1>2. AccessTypeOK
  BY <1>1, TryRest DEF AccessInit, AccessTypeOK, UserRow, TryRow
<1>3. LoginInv /\ SendInv /\ VerifyInv
  BY <1>1 DEF LoginInv, OneTry, LoginKnows, LockedAtTheLimit, SendInv, SentAlone, VerifyInv,
     HeldUnspent, HoldsCode, CodeOpensOnce
<1> QED BY <1>2, <1>3 DEF AccessInv

\* So it always holds
LEMMA AccessInvariance == AccessSpec => []AccessInv
  BY AccessInitInv, AccessNextInv, PTL DEF AccessSpec

\* What AccessSafety says follows
LEMMA AccessInvImplies == AccessInv => AccessSafety
<1> SUFFICES ASSUME AccessInv PROVE OneGoodCode
  BY DEF AccessInv, AccessSafety, LoginInv, VerifyInv
<1> SUFFICES ASSUME "send" \notin overlap
             PROVE  Cardinality({c \in Codes : code[c] = "fresh"}) <= 1
  BY DEF OneGoodCode
<1> DEFINE S == {c \in Codes : code[c] = "fresh"}
<1>1. \A c, d \in S : c = d
  BY DEF AccessInv, SendInv, SentAlone
<1> HIDE DEF S
<1>2. CASE S = {}
  BY <1>2, FS_EmptySet DEF S
<1>3. CASE S # {}
  <2>1. PICK c \in S : S = {c}
    BY <1>1, <1>3
  <2>2. Cardinality({c}) = 1
    BY FS_Singleton
  <2> QED BY <2>1, <2>2 DEF S
<1> QED BY <1>2, <1>3

-----------------------------------------------------------------------------
(***************************************************************************)
(* The registry of users and administrators: every account has the profile *)
(* of its role, one administrator founded the rest, an active one is left, *)
(* and nobody raises himself. A request under way was allowed what it is   *)
(* about to write by a row that has not changed meanwhile, unless two      *)
(* requests of its kind overlapped.                                        *)
(***************************************************************************)

\* The shapes of an account and of a request
RegRow == [role : Roles \cup {"NONE", "ADMIN"}, phone : Phones \cup {0}, active : BOOLEAN,
           profile : BOOLEAN, level : Levels \cup {"NONE"}, users : BOOLEAN, founder : BOOLEAN]
PostRow == [do : {"idle", "insert", "profile", "deactivate"}, of : Accounts \cup {0}, row : RegRow]

\* A row that may be inserted, and a row as it stands
Sound(w) ==
  /\ w \in RegRow /\ w.phone # 0 /\ (w.founder => w.role = "ADMIN")
  /\ ~w.profile => w.role = "TRANSPORTER"

\* Every account is sound, and a telephone has one
Rows ==
  /\ row \in [Accounts -> RegRow] /\ post \in [Posts -> PostRow]
  /\ \A u \in Accounts : Exists(u) => Sound(row[u])
  /\ bearer \subseteq Admins
  /\ jammed \subseteq {"founders", "profiles", "deactivations"}

\* What a request is about still exists: administrators stay administrators
Standing(c) ==
  /\ c.do = "insert" => Sound(c.row) /\ c.row.active
  /\ c.do = "profile" => c.of \in Admins /\ c.row.level \in Levels
  /\ c.do = "deactivate" => c.of \in Accounts /\ Exists(c.of)

\* A request about to insert the first administrator, and one about to deactivate one
Boots(r) == post[r].do = "insert" /\ post[r].row.founder
Removes(r) == post[r].do = "deactivate" /\ post[r].of \in Admins

\* While the first administrator is being inserted there is no other
FounderAlone ==
  "founders" \notin jammed =>
    /\ \A q, r \in Posts : Boots(q) /\ Boots(r) => q = r
    /\ \A u, v \in Accounts : row[u].founder /\ row[v].founder => u = v
    /\ \A r \in Posts, u \in Accounts : Boots(r) => ~row[u].founder

\* While an administrator is being deactivated another active one is there
AnotherStays ==
  "deactivations" \notin jammed =>
    /\ \A q, r \in Posts : Removes(q) /\ Removes(r) => q = r
    /\ \A r \in Posts : Removes(r) => OtherActive(post[r].of) # {}

\* While an administrator changes his own profile he is SUPER_ADMIN
StillSuper ==
  "profiles" \notin jammed => \A r \in Posts : post[r].do = "profile" =>
    /\ row[post[r].of].level = "SUPER"
    /\ \A q \in Posts : post[q].do = "profile" /\ post[q].of = post[r].of => q = r

\* The invariant
RegInv ==
  /\ Rows /\ \A r \in Posts : Standing(post[r])
  /\ FounderAlone /\ AnotherStays /\ StillSuper /\ AdminIsLeft

-----------------------------------------------------------------------------

\* A row without an account
LEMMA NoUserRow == NoUser \in RegRow /\ NoUser.phone = 0 /\ NoUser.role = "NONE" /\ ~NoUser.founder
  BY DEF NoUser, RegRow

\* A request at rest
LEMMA NoPostRow == NoPost \in PostRow /\ NoPost.do = "idle"
  BY NoUserRow DEF NoPost, PostRow

\* An administrator is an account
LEMMA AdminExists ==
  ASSUME NEW u \in Admins
  PROVE  u \in Accounts /\ Exists(u)
  BY NoUserRow DEF Admins, Exists

\* Who founded the rest is an administrator
LEMMA FounderIsAdmin ==
  ASSUME Rows, NEW u \in Accounts, row[u].founder
  PROVE  u \in Admins
<1>1. Exists(u)
  BY NoUserRow DEF Exists
<1> QED BY <1>1 DEF Rows, Sound, Admins

\* The row of a newcomer may be inserted, whatever his level
LEMMA NewcomerRow ==
  ASSUME NEW p \in Phones, NEW role \in Roles \cup {"ADMIN"}
  PROVE  Sound(Newcomer(p, role)) /\ Newcomer(p, role).active /\ ~Newcomer(p, role).founder
         /\ Newcomer(p, role).role = role /\ Newcomer(p, role) \in RegRow
<1>1. \A n \in RegRow, a, b \in BOOLEAN :
        LET w == [n EXCEPT !.role = role, !.phone = p, !.active = a, !.profile = b] IN
        /\ w \in RegRow /\ w.role = role /\ w.phone = p /\ w.active = a /\ w.profile = b
        /\ w.founder = n.founder
  <2>1. \A n \in RegRow, a \in BOOLEAN :
          LET w == [n EXCEPT !.role = role, !.phone = p, !.active = a] IN
          /\ w \in RegRow /\ w.role = role /\ w.phone = p /\ w.active = a /\ w.founder = n.founder
    BY DEF RegRow
  <2>2. \A v \in RegRow, b \in BOOLEAN :
          LET w == [v EXCEPT !.profile = b] IN
          /\ w \in RegRow /\ w.role = v.role /\ w.phone = v.phone /\ w.active = v.active
          /\ w.profile = b /\ w.founder = v.founder
    BY DEF RegRow
  <2>3. \A n \in RegRow, a, b \in BOOLEAN :
          [n EXCEPT !.role = role, !.phone = p, !.active = a, !.profile = b]
            = [[n EXCEPT !.role = role, !.phone = p, !.active = a] EXCEPT !.profile = b]
    OBVIOUS
  <2> TAKE n \in RegRow, a, b \in BOOLEAN
  <2> DEFINE v == [n EXCEPT !.role = role, !.phone = p, !.active = a]
             w == [n EXCEPT !.role = role, !.phone = p, !.active = a, !.profile = b]
  <2>4. /\ v \in RegRow /\ v.role = role /\ v.phone = p /\ v.active = a
        /\ v.founder = n.founder
    BY <2>1, Zenon
  <2>5. w = [v EXCEPT !.profile = b]
    BY <2>3, Zenon
  <2> HIDE DEF v, w
  <2>6. /\ w \in RegRow /\ w.role = v.role /\ w.phone = v.phone /\ w.active = v.active
        /\ w.profile = b /\ w.founder = v.founder
    BY <2>2, <2>4, <2>5, Zenon
  <2>7. /\ w \in RegRow /\ w.role = role /\ w.phone = p /\ w.active = a /\ w.profile = b
        /\ w.founder = n.founder
    BY <2>4, <2>6, Zenon
  <2> QED BY <2>7, Zenon DEF w
<1>2. ProfileOf(role) \in BOOLEAN
  BY DEF ProfileOf
<1>3. /\ Newcomer(p, role) \in RegRow /\ Newcomer(p, role).role = role
      /\ Newcomer(p, role).phone = p /\ Newcomer(p, role).active = TRUE
      /\ Newcomer(p, role).profile = ProfileOf(role)
      /\ Newcomer(p, role).founder = NoUser.founder
  BY <1>1, <1>2, NoUserRow, Zenon DEF Newcomer
<1>4. p # 0
  BY RegistryAssumption
<1> QED BY <1>3, <1>4, NoUserRow DEF Sound, ProfileOf

\* The row of the first administrator may be inserted
LEMMA FounderRow ==
  ASSUME NEW p \in Phones
  PROVE  LET v == [Newcomer(p, "ADMIN") EXCEPT !.level = "SUPER", !.users = TRUE, !.founder = TRUE]
         IN  v \in RegRow /\ Sound(v) /\ v.active
<1>1. \A n \in RegRow, a, b \in BOOLEAN :
        LET w == [n EXCEPT !.level = "SUPER", !.users = a, !.founder = b] IN
        /\ w \in RegRow /\ w.role = n.role /\ w.phone = n.phone /\ w.active = n.active
        /\ w.profile = n.profile
  BY DEF RegRow, Levels
<1>2. /\ Newcomer(p, "ADMIN") \in RegRow /\ Sound(Newcomer(p, "ADMIN"))
      /\ Newcomer(p, "ADMIN").active /\ Newcomer(p, "ADMIN").role = "ADMIN"
  BY NewcomerRow
<1> DEFINE v == [Newcomer(p, "ADMIN") EXCEPT !.level = "SUPER", !.users = TRUE, !.founder = TRUE]
<1>3. /\ v \in RegRow /\ v.role = Newcomer(p, "ADMIN").role
      /\ v.phone = Newcomer(p, "ADMIN").phone /\ v.active = Newcomer(p, "ADMIN").active
      /\ v.profile = Newcomer(p, "ADMIN").profile
  BY <1>1, <1>2, Zenon
<1> HIDE DEF v
<1>4. v \in RegRow /\ Sound(v) /\ v.active
  BY <1>2, <1>3 DEF Sound
<1> QED BY <1>4 DEF v

-----------------------------------------------------------------------------

\* A request is begun
LEMMA PostedStep ==
  ASSUME RegInv, NEW r \in Posts, PostFree(r), NEW c \in PostRow, Standing(c),
         post' = [post EXCEPT ![r] = c], UNCHANGED <<row, bearer>>,
         jammed \subseteq jammed', jammed' \subseteq {"founders", "profiles", "deactivations"},
         c.do = "insert" /\ c.row.founder /\ "founders" \notin jammed' =>
           Admins = {} /\ \A q \in Posts : ~Boots(q),
         c.do = "deactivate" /\ c.of \in Admins /\ "deactivations" \notin jammed' =>
           OtherActive(c.of) # {} /\ \A q \in Posts : ~Removes(q),
         c.do = "profile" /\ "profiles" \notin jammed' =>
           /\ row[c.of].level = "SUPER"
           /\ \A q \in Posts : ~(post[q].do = "profile" /\ post[q].of = c.of)
  PROVE  RegInv'
<1>1. /\ post'[r] = c /\ \A q \in Posts \ {r} : post'[q] = post[q]
      /\ post' \in [Posts -> PostRow]
  BY DEF RegInv, Rows
<1>2. /\ Admins' = Admins /\ \A u \in Accounts : Exists(u)' <=> Exists(u)
      /\ \A u : OtherActive(u)' = OtherActive(u)
  BY DEF Admins, Exists, OtherActive
<1>3. Rows'
  BY <1>1, <1>2 DEF RegInv, Rows
<1>4. \A x : Standing(x) => Standing(x)'
  BY <1>2 DEF Standing
<1>5. \A q \in Posts : Standing(post[q])'
  BY <1>1, <1>4 DEF RegInv
<1>6. FounderAlone'
  <2> SUFFICES ASSUME "founders" \notin jammed' PROVE FounderAlone'
    BY DEF FounderAlone
  <2>1. \A q \in Posts : Boots(q)' <=> IF q = r THEN c.do = "insert" /\ c.row.founder ELSE Boots(q)
    BY <1>1 DEF Boots
  <2>2. FounderAlone /\ "founders" \notin jammed
    BY DEF RegInv
  <2>3. CASE c.do = "insert" /\ c.row.founder
    <3>1. \A u \in Accounts : ~row[u].founder
      BY <2>3, FounderIsAdmin DEF RegInv
    <3> QED BY <2>1, <2>3, <3>1 DEF FounderAlone
  <2>4. CASE ~(c.do = "insert" /\ c.row.founder)
    BY <2>1, <2>2, <2>4 DEF FounderAlone
  <2> QED BY <2>3, <2>4
<1>7. AnotherStays'
  <2> SUFFICES ASSUME "deactivations" \notin jammed' PROVE AnotherStays'
    BY DEF AnotherStays
  <2>1. \A q \in Posts : Removes(q)' <=> IF q = r THEN c.do = "deactivate" /\ c.of \in Admins
                                         ELSE Removes(q)
    BY <1>1, <1>2 DEF Removes
  <2>2. AnotherStays /\ "deactivations" \notin jammed
    BY DEF RegInv
  <2> QED BY <1>1, <1>2, <2>1, <2>2 DEF AnotherStays
<1>8. StillSuper'
  <2> SUFFICES ASSUME "profiles" \notin jammed' PROVE StillSuper'
    BY DEF StillSuper
  <2>1. StillSuper /\ "profiles" \notin jammed
    BY DEF RegInv
  <2> QED BY <1>1, <2>1 DEF StillSuper
<1>9. AdminIsLeft'
  BY <1>2 DEF RegInv, AdminIsLeft
<1> QED BY <1>3, <1>5, <1>6, <1>7, <1>8, <1>9 DEF RegInv

\* A row is written that leaves an administrator what he is, at the end of a request or
\* without one
LEMMA AccountRowStep ==
  ASSUME RegInv, NEW u \in Accounts, NEW w \in RegRow, Sound(w), row' = [row EXCEPT ![u] = w],
         u \in Admins => w.role = "ADMIN",
         post' \in [Posts -> PostRow],
         \A r \in Posts : post'[r] = post[r] \/ post'[r] = NoPost,
         UNCHANGED <<bearer, jammed>>,
         w.founder /\ "founders" \notin jammed =>
           (\A v \in Accounts \ {u} : ~row[v].founder) /\ \A r \in Posts : ~Boots(r)',
         "deactivations" \notin jammed =>
           /\ \A r \in Posts : Removes(r)' => Removes(r)
           /\ u \in Admins /\ row[u].active /\ ~w.active =>
                OtherActive(u) # {} /\ \A r \in Posts : ~Removes(r)'
           /\ w.role = "ADMIN" /\ u \notin Admins => w.active,
         "profiles" \notin jammed =>
           \A r \in Posts : post'[r].do = "profile" /\ post'[r].of = u => w.level = "SUPER"
  PROVE  RegInv'
<1>1. /\ row'[u] = w /\ \A v \in Accounts \ {u} : row'[v] = row[v]
      /\ row' \in [Accounts -> RegRow]
  BY DEF RegInv, Rows
<1>2. Exists(u)' /\ \A v \in Accounts \ {u} : Exists(v)' <=> Exists(v)
  <2>1. w # NoUser
    BY NoUserRow DEF Sound
  <2> QED BY <1>1, <2>1 DEF Exists
<1>3. Admins \subseteq Admins' /\ Admins' \subseteq Admins \cup {u} /\ (u \in Admins' <=> w.role = "ADMIN")
  BY <1>1 DEF Admins
<1>4. Rows'
  BY <1>1, <1>2, <1>3 DEF RegInv, Rows
<1>5. \A q \in Posts : Standing(post[q])'
  <2>1. ASSUME NEW c, Standing(c) PROVE Standing(c)'
    <3>1. c.do = "profile" => c.of \in Admins'
      BY <1>3, <2>1 DEF Standing
    <3>2. c.do = "deactivate" => c.of \in Accounts /\ Exists(c.of)'
      BY <1>2, <2>1 DEF Standing
    <3> QED BY <2>1, <3>1, <3>2 DEF Standing
  <2>2. Standing(NoPost)
    BY NoPostRow DEF Standing
  <2>3. \A q \in Posts : Standing(post'[q])
    BY <2>2 DEF RegInv
  <2> QED BY <2>1, <2>3
<1>6. FounderAlone'
  <2> SUFFICES ASSUME "founders" \notin jammed PROVE FounderAlone'
    BY DEF FounderAlone
  <2>1. \A r \in Posts : Boots(r)' => Boots(r)
    BY NoPostRow DEF Boots
  <2>2. FounderAlone
    BY DEF RegInv
  <2>3. \A v \in Accounts : row'[v].founder => IF v = u THEN w.founder ELSE row[v].founder
    BY <1>1
  <2>4. /\ \A q, r \in Posts : Boots(q)' /\ Boots(r)' => q = r
        /\ \A v, x \in Accounts : row'[v].founder /\ row'[x].founder => v = x
    BY <2>1, <2>2, <2>3 DEF FounderAlone
  <2>5. \A r \in Posts, v \in Accounts : Boots(r)' => ~row'[v].founder
    BY <2>1, <2>2, <2>3 DEF FounderAlone
  <2> QED BY <2>4, <2>5 DEF FounderAlone
<1>7. \A v \in Accounts \ {u} : v \in OtherActive(u) => v \in Admins' /\ row'[v].active
  BY <1>1, <1>3 DEF OtherActive
<1>8. AnotherStays' /\ AdminIsLeft'
  <2> SUFFICES ASSUME "deactivations" \notin jammed
               PROVE  AnotherStays' /\ (Admins' # {} => \E a \in Admins' : row'[a].active)
    BY DEF AnotherStays, AdminIsLeft
  <2>1. AnotherStays /\ (Admins # {} => \E a \in Admins : row[a].active)
    BY DEF RegInv, AdminIsLeft
  <2>2. \A q, r \in Posts : Removes(q)' /\ Removes(r)' => q = r
    BY <2>1 DEF AnotherStays
  <2>3. ASSUME NEW r \in Posts, Removes(r)' PROVE OtherActive(post[r].of)' # {}
    <3>1. Removes(r) /\ post'[r] = post[r]
      BY <2>3, NoPostRow DEF Removes
    <3>2. PICK a \in OtherActive(post[r].of) : TRUE
      BY <2>1, <3>1 DEF AnotherStays
    <3>3. a \in Admins' /\ a # post[r].of /\ a \in Accounts
      BY <1>3, <3>2 DEF OtherActive, Admins
    <3>4. row'[a].active
      BY <1>1, <2>3, <3>2, <3>3 DEF OtherActive, Admins
    <3> QED BY <3>1, <3>3, <3>4 DEF OtherActive
  <2>4. Admins' # {} => \E a \in Admins' : row'[a].active
    <3>1. CASE w.role = "ADMIN" /\ w.active
      BY <1>1, <1>3, <3>1
    <3>2. CASE w.role = "ADMIN" /\ ~w.active
      <4>1. u \in Admins /\ (row[u].active => OtherActive(u) # {})
        BY <3>2
      <4>2. \E a \in Admins \ {u} : row[a].active
        BY <2>1, <4>1 DEF OtherActive
      <4> QED BY <1>1, <1>3, <4>2 DEF Admins
    <3>3. CASE w.role # "ADMIN"
      <4>1. Admins' = Admins /\ u \notin Admins
        BY <1>3, <3>3
      <4> QED BY <1>1, <2>1, <4>1 DEF Admins
    <3> QED BY <3>1, <3>2, <3>3
  <2> QED BY <2>2, <2>3, <2>4 DEF AnotherStays
<1>9. StillSuper'
  <2> SUFFICES ASSUME "profiles" \notin jammed PROVE StillSuper'
    BY DEF StillSuper
  <2>1. StillSuper
    BY DEF RegInv
  <2>2. ASSUME NEW r \in Posts, post'[r].do = "profile"
        PROVE  /\ row'[post'[r].of].level = "SUPER"
               /\ \A q \in Posts : post'[q].do = "profile" /\ post'[q].of = post'[r].of => q = r
    <3>1. post'[r] = post[r] /\ post[r].of \in Accounts
      BY <2>2, NoPostRow, AdminExists DEF RegInv, Standing
    <3>2. \A q \in Posts : post'[q].do = "profile" => post'[q] = post[q]
      BY NoPostRow
    <3>3. row'[post'[r].of].level = "SUPER"
      BY <1>1, <2>1, <2>2, <3>1 DEF StillSuper
    <3> QED BY <2>1, <2>2, <3>1, <3>2, <3>3 DEF StillSuper
  <2> QED BY <2>2 DEF StillSuper
<1> QED BY <1>4, <1>5, <1>6, <1>8, <1>9 DEF RegInv

\* A request that ends leaves the others as they are
LEMMA PostEndsStep ==
  ASSUME RegInv, NEW r \in Posts, PostEnds(r)
  PROVE  /\ post' \in [Posts -> PostRow] /\ post'[r] = NoPost
         /\ \A q \in Posts \ {r} : post'[q] = post[q]
         /\ \A q \in Posts : post'[q] = post[q] \/ post'[q] = NoPost
  BY NoPostRow DEF RegInv, Rows, PostEnds

\* Somebody registers, or an administrator is about to be created
LEMMA BeginInsertStep ==
  ASSUME RegInv, NEW r \in Posts, PostFree(r), NEW w \in RegRow, Sound(w), w.active,
         Posted(r, "insert", 0, w), UNCHANGED <<row, bearer>>,
         jammed \subseteq jammed', jammed' \subseteq {"founders", "profiles", "deactivations"},
         w.founder /\ "founders" \notin jammed' => Admins = {} /\ \A q \in Posts : ~Boots(q)
  PROVE  RegInv'
<1> DEFINE c == [do |-> "insert", of |-> 0, row |-> w]
<1>1. /\ c \in PostRow /\ c.do = "insert" /\ c.row = w
      /\ post' = [post EXCEPT ![r] = c]
  BY DEF Posted, PostRow
<1> HIDE DEF c
<1>2. Standing(c)
  BY <1>1 DEF Standing
<1> QED BY <1>1, <1>2, PostedStep

\* Somebody registers
LEMMA RegisterStep ==
  ASSUME RegInv, NEW r \in Posts, NEW p \in Phones, NEW role \in Roles, BeginRegister(r, p, role)
  PROVE  RegInv'
<1>1. /\ Newcomer(p, role) \in RegRow /\ Sound(Newcomer(p, role)) /\ Newcomer(p, role).active
      /\ ~Newcomer(p, role).founder
  BY NewcomerRow
<1>2. jammed' = jammed /\ jammed \subseteq {"founders", "profiles", "deactivations"}
  BY DEF BeginRegister, RegInv, Rows
<1> QED BY <1>1, <1>2, BeginInsertStep DEF BeginRegister

\* The first administrator: there was none, and no other is on the way
LEMMA BootstrapStep ==
  ASSUME RegInv, NEW r \in Posts, NEW p \in Phones, BeginBootstrap(r, p)
  PROVE  RegInv'
<1> DEFINE w == [Newcomer(p, "ADMIN") EXCEPT !.level = "SUPER", !.users = TRUE, !.founder = TRUE]
<1>1. w \in RegRow /\ Sound(w) /\ w.active
  BY FounderRow
<1>2. /\ PostFree(r) /\ Admins = {} /\ Posted(r, "insert", 0, w) /\ UNCHANGED <<row, bearer>>
      /\ Jam("founders", \E q \in Posts_("insert") : post[q].row.founder)
  BY DEF BeginBootstrap, NoAdminYet
<1>3. /\ jammed \subseteq jammed' /\ jammed' \subseteq {"founders", "profiles", "deactivations"}
      /\ "founders" \notin jammed' => \A q \in Posts : ~Boots(q)
  BY <1>2 DEF Jam, Posts_, Boots, RegInv, Rows
<1> HIDE DEF w
<1> QED BY <1>1, <1>2, <1>3, BeginInsertStep

\* An administrator creates another, of a level he may give
LEMMA CreateAdminStep ==
  ASSUME RegInv, NEW r \in Posts, NEW by \in Accounts, NEW p \in Phones, NEW level \in Levels,
         NEW users \in BOOLEAN, BeginCreateAdmin(r, by, p, level, users)
  PROVE  RegInv'
<1>1. /\ Newcomer(p, "ADMIN") \in RegRow /\ Sound(Newcomer(p, "ADMIN"))
      /\ Newcomer(p, "ADMIN").active /\ ~Newcomer(p, "ADMIN").founder
      /\ Newcomer(p, "ADMIN").role = "ADMIN"
  BY NewcomerRow
<1> DEFINE w == [Newcomer(p, "ADMIN") EXCEPT !.level = level, !.users = users]
<1>2. w \in RegRow /\ Sound(w) /\ w.active /\ w.founder = Newcomer(p, "ADMIN").founder
  <2>1. \A n \in RegRow : Sound(n) /\ n.active =>
          LET v == [n EXCEPT !.level = level, !.users = users] IN
          v \in RegRow /\ Sound(v) /\ v.active /\ v.founder = n.founder
    BY DEF RegRow, Sound
  <2> QED BY <1>1, <2>1, Zenon
<1>3. /\ PostFree(r) /\ Posted(r, "insert", 0, w) /\ UNCHANGED <<row, bearer, jammed>>
  BY DEF BeginCreateAdmin
<1> HIDE DEF w
<1>4. jammed' = jammed /\ jammed \subseteq {"founders", "profiles", "deactivations"} /\ ~w.founder
  BY <1>1, <1>2, <1>3 DEF RegInv, Rows
<1> QED BY <1>2, <1>3, <1>4, BeginInsertStep

\* An administrator changes a profile, having read that he may
LEMMA ProfileCheckStep ==
  ASSUME RegInv, NEW r \in Posts, NEW by \in Accounts, NEW level \in Levels, NEW users \in BOOLEAN,
         CheckAdminProfile(r, by, level, users)
  PROVE  RegInv'
<1> DEFINE w == [row[by] EXCEPT !.level = level, !.users = users]
           c == [do |-> "profile", of |-> by, row |-> w]
<1>1. /\ PostFree(r) /\ by \in Admins /\ row[by].level = "SUPER"
      /\ post' = [post EXCEPT ![r] = c] /\ UNCHANGED <<row, bearer>>
      /\ Jam("profiles", \E q \in Posts_("profile") : post[q].of = by)
  BY DEF CheckAdminProfile, MayEscalate, Posted, RegInv, Rows
<1>2. w \in RegRow /\ w.level = level
  <2>1. row[by] \in RegRow
    BY DEF RegInv, Rows
  <2> QED BY <2>1 DEF RegRow
<1> HIDE DEF w
<1>3. c \in PostRow /\ c.do = "profile" /\ c.of = by /\ c.row = w
  BY <1>2 DEF PostRow
<1> HIDE DEF c
<1>4. Standing(c)
  BY <1>1, <1>2, <1>3 DEF Standing
<1>5. /\ jammed \subseteq jammed' /\ jammed' \subseteq {"founders", "profiles", "deactivations"}
      /\ "profiles" \notin jammed' => \A q \in Posts : ~(post[q].do = "profile" /\ post[q].of = by)
  BY <1>1 DEF Jam, Posts_, RegInv, Rows
<1> QED BY <1>1, <1>3, <1>4, <1>5, PostedStep

\* An administrator deactivates an account, not the last that is active
LEMMA DeactivateCheckStep ==
  ASSUME RegInv, NEW r \in Posts, NEW by \in Accounts, NEW u \in Accounts,
         CheckDeactivate(r, by, u)
  PROVE  RegInv'
<1> DEFINE c == [do |-> "deactivate", of |-> u, row |-> NoUser]
<1>1. /\ PostFree(r) /\ Exists(u) /\ (u \in Admins => OtherActive(u) # {})
      /\ post' = [post EXCEPT ![r] = c] /\ UNCHANGED <<row, bearer>>
      /\ Jam("deactivations", u \in Admins /\ \E q \in Posts_("deactivate") : post[q].of \in Admins)
  BY DEF CheckDeactivate, Spare, Posted
<1>3. c \in PostRow /\ c.do = "deactivate" /\ c.of = u
  BY NoUserRow DEF PostRow
<1> HIDE DEF c
<1>4. Standing(c)
  BY <1>1, <1>3 DEF Standing
<1>5. /\ jammed \subseteq jammed' /\ jammed' \subseteq {"founders", "profiles", "deactivations"}
      /\ u \in Admins /\ "deactivations" \notin jammed' => \A q \in Posts : ~Removes(q)
  BY <1>1 DEF Jam, Posts_, Removes, RegInv, Rows
<1> QED BY <1>1, <1>3, <1>4, <1>5, PostedStep

\* The row is inserted, unless the telephone is taken
LEMMA InsertStep ==
  ASSUME RegInv, NEW r \in Posts, NEW u \in Accounts, InsertUser(r, u)
  PROVE  RegInv'
<1> DEFINE w == post[r].row
<1>1. /\ post[r].do = "insert" /\ ~Exists(u) /\ PostEnds(r) /\ UNCHANGED <<bearer, jammed>>
      /\ row' = row \/ row' = [row EXCEPT ![u] = w]
  BY DEF InsertUser
<1>2. w \in RegRow /\ Sound(w) /\ w.active
  BY <1>1 DEF RegInv, Rows, PostRow, Standing
<1>3. /\ post' \in [Posts -> PostRow] /\ post'[r] = NoPost
      /\ \A q \in Posts \ {r} : post'[q] = post[q]
      /\ \A q \in Posts : post'[q] = post[q] \/ post'[q] = NoPost
  BY <1>1, PostEndsStep
<1>4. u \notin Admins
  BY <1>1, AdminExists
<1>5. ASSUME row' = [row EXCEPT ![u] = w] PROVE RegInv'
  <2>1. w.founder /\ "founders" \notin jammed =>
          (\A v \in Accounts \ {u} : ~row[v].founder) /\ \A q \in Posts : ~Boots(q)'
    <3>1. w.founder => Boots(r)
      BY <1>1 DEF Boots
    <3>2. \A q \in Posts : Boots(q)' => Boots(q) /\ q # r
      BY <1>3, NoPostRow DEF Boots
    <3> QED BY <3>1, <3>2 DEF RegInv, FounderAlone
  <2>2. \A q \in Posts : Removes(q)' => Removes(q)
    <3> SUFFICES ASSUME NEW q \in Posts, Removes(q)' PROVE Removes(q)
      OBVIOUS
    <3>1. q # r /\ post'[q] = post[q]
      BY <1>3, NoPostRow DEF Removes
    <3>2. post[q].of \in Accounts /\ Exists(post[q].of)
      BY <3>1 DEF Removes, RegInv, Standing
    <3>3. post[q].of # u
      BY <1>1, <3>2
    <3>4. row'[post[q].of] = row[post[q].of]
      BY <1>5, <3>2, <3>3 DEF RegInv, Rows
    <3> QED BY <3>1, <3>2, <3>4 DEF Removes, Admins
  <2>3. \A q \in Posts : ~(post'[q].do = "profile" /\ post'[q].of = u)
    BY <1>3, <1>4, NoPostRow DEF RegInv, Standing
  <2> HIDE DEF w
  <2> QED BY <1>1, <1>2, <1>3, <1>4, <1>5, <2>1, <2>2, <2>3, AccountRowStep
<1>6. ASSUME row' = row PROVE RegInv'
  <2>1. \A x : Standing(x)' <=> Standing(x)
    BY <1>6 DEF Standing, Exists, Admins
  <2>2. /\ \A q \in Posts : Boots(q)' => Boots(q)
        /\ \A q \in Posts : Removes(q)' => Removes(q) /\ post'[q] = post[q]
        /\ \A q \in Posts : post'[q].do = "profile" => post'[q] = post[q]
    BY <1>3, <1>6, NoPostRow DEF Boots, Removes, Admins
  <2>3. Rows' /\ AdminIsLeft'
    BY <1>1, <1>3, <1>6 DEF RegInv, Rows, Exists, Admins, AdminIsLeft
  <2>4. \A q \in Posts : Standing(post[q])'
    <3>1. \A q \in Posts : Standing(post'[q])
      BY <1>3, NoPostRow DEF RegInv, Standing
    <3> QED BY <2>1, <3>1
  <2>5. FounderAlone'
    BY <1>1, <1>6, <2>2 DEF RegInv, FounderAlone
  <2>6. AnotherStays'
    BY <1>1, <1>6, <2>2 DEF RegInv, AnotherStays, OtherActive, Admins
  <2>7. StillSuper'
    BY <1>1, <1>6, <2>2 DEF RegInv, StillSuper
  <2> QED BY <2>3, <2>4, <2>5, <2>6, <2>7 DEF RegInv
<1> QED BY <1>1, <1>5, <1>6

\* The profile is written
LEMMA WriteProfileStep ==
  ASSUME RegInv, NEW r \in Posts, WriteAdminProfile(r)
  PROVE  RegInv'
<1>1. PICK u \in Accounts : u = post[r].of /\ u \in Admins
  BY AdminExists DEF WriteAdminProfile, RegInv, Standing
<1>2. /\ post[r].do = "profile" /\ PostEnds(r) /\ UNCHANGED <<bearer, jammed>>
      /\ row' = [row EXCEPT ![u].level = post[r].row.level, ![u].users = post[r].row.users]
  BY <1>1 DEF WriteAdminProfile
<1>3. PICK level \in Levels, users \in BOOLEAN :
        level = post[r].row.level /\ users = post[r].row.users
  BY <1>2 DEF RegInv, Standing, Rows, PostRow, RegRow
<1> DEFINE w == [row[u] EXCEPT !.level = level, !.users = users]
<1>4. row' = [row EXCEPT ![u] = w]
  BY <1>2, <1>3 DEF RegInv, Rows
<1>5. Sound(row[u]) /\ row[u] \in RegRow /\ row[u].role = "ADMIN"
  BY <1>1, AdminExists DEF RegInv, Rows, Admins
<1>6. /\ w \in RegRow /\ Sound(w) /\ w.role = "ADMIN" /\ w.active = row[u].active
      /\ w.founder = row[u].founder
  BY <1>5 DEF RegRow, Sound
<1> HIDE DEF w
<1>7. /\ post' \in [Posts -> PostRow] /\ post'[r] = NoPost
      /\ \A q \in Posts \ {r} : post'[q] = post[q]
      /\ \A q \in Posts : post'[q] = post[q] \/ post'[q] = NoPost
  BY <1>2, PostEndsStep
<1>8. RegInv'
  <2>1. w.founder /\ "founders" \notin jammed =>
          (\A v \in Accounts \ {u} : ~row[v].founder) /\ \A q \in Posts : ~Boots(q)'
    BY <1>6, <1>7, NoPostRow DEF RegInv, FounderAlone, Boots
  <2>2. Admins' = Admins
    BY <1>4, <1>5, <1>6 DEF Admins, RegInv, Rows
  <2>3. \A q \in Posts : Removes(q)' => Removes(q)
    BY <1>7, <2>2, NoPostRow DEF Removes
  <2>4. \A q \in Posts : post'[q].do = "profile" /\ post'[q].of = u => "profiles" \in jammed
    BY <1>1, <1>2, <1>7, NoPostRow DEF RegInv, StillSuper
  <2> QED BY <1>1, <1>2, <1>4, <1>6, <1>7, <2>1, <2>3, <2>4, AccountRowStep
<1> QED BY <1>8

\* The account is switched off: another active administrator stays
LEMMA DeactivateStep ==
  ASSUME RegInv, NEW r \in Posts, DeactivateAccount(r)
  PROVE  RegInv'
<1>1. PICK u \in Accounts : u = post[r].of /\ Exists(u)
  BY DEF DeactivateAccount, RegInv, Standing
<1>2. /\ post[r].do = "deactivate" /\ PostEnds(r) /\ UNCHANGED <<bearer, jammed>>
      /\ row' = [row EXCEPT ![u].active = FALSE]
  BY <1>1 DEF DeactivateAccount
<1> DEFINE w == [row[u] EXCEPT !.active = FALSE]
<1>4. row' = [row EXCEPT ![u] = w]
  BY <1>2 DEF RegInv, Rows
<1>5. Sound(row[u]) /\ row[u] \in RegRow
  BY <1>1 DEF RegInv, Rows
<1>6. /\ w \in RegRow /\ Sound(w) /\ w.role = row[u].role /\ w.level = row[u].level
      /\ w.founder = row[u].founder
  <2>1. \A n \in RegRow, b \in BOOLEAN : Sound(n) =>
          LET v == [n EXCEPT !.active = b] IN
          /\ v \in RegRow /\ Sound(v) /\ v.role = n.role /\ v.level = n.level
          /\ v.founder = n.founder
    BY DEF RegRow, Sound
  <2> QED BY <1>5, <2>1, Zenon
<1> HIDE DEF w
<1>7. /\ post' \in [Posts -> PostRow] /\ post'[r] = NoPost
      /\ \A q \in Posts \ {r} : post'[q] = post[q]
      /\ \A q \in Posts : post'[q] = post[q] \/ post'[q] = NoPost
  BY <1>2, PostEndsStep
<1>8. u \in Admins <=> w.role = "ADMIN"
  BY <1>6 DEF Admins
<1>9. w.founder /\ "founders" \notin jammed =>
        (\A v \in Accounts \ {u} : ~row[v].founder) /\ \A q \in Posts : ~Boots(q)'
  BY <1>6, <1>7, NoPostRow DEF RegInv, FounderAlone, Boots
<1>10. Admins' = Admins
  BY <1>4, <1>5, <1>6 DEF Admins, RegInv, Rows
<1>11. \A q \in Posts : Removes(q)' => Removes(q) /\ q # r
  BY <1>7, <1>10, NoPostRow DEF Removes
<1>12. u \in Admins /\ "deactivations" \notin jammed =>
         OtherActive(u) # {} /\ \A q \in Posts : ~Removes(q)'
  BY <1>1, <1>2, <1>11 DEF RegInv, AnotherStays, Removes
<1>13. "profiles" \notin jammed =>
         \A q \in Posts : post'[q].do = "profile" /\ post'[q].of = u => w.level = "SUPER"
  BY <1>6, <1>7, NoPostRow DEF RegInv, StillSuper
<1> QED BY <1>2, <1>4, <1>6, <1>7, <1>8, <1>9, <1>11, <1>12, <1>13, AccountRowStep

\* A row that stays what it is but for its profile, which appears, or for being active
LEMMA TouchStep ==
  ASSUME RegInv, NEW u \in Accounts, Exists(u), NEW w \in RegRow, Sound(w),
         row' = [row EXCEPT ![u] = w], UNCHANGED <<bearer, post, jammed>>,
         w.role = row[u].role, w.level = row[u].level, w.founder = row[u].founder,
         row[u].active => w.active
  PROVE  RegInv'
<1>1. u \in Admins <=> w.role = "ADMIN"
  BY DEF Admins
<1>2. Admins' = Admins
  BY DEF Admins, RegInv, Rows
<1>3. /\ \A q \in Posts : Removes(q)' <=> Removes(q)
      /\ \A q \in Posts : Boots(q)' <=> Boots(q)
  BY <1>2 DEF Removes, Boots
<1>4. w.founder /\ "founders" \notin jammed =>
        (\A v \in Accounts \ {u} : ~row[v].founder) /\ \A q \in Posts : ~Boots(q)'
  BY <1>3 DEF RegInv, FounderAlone
<1>5. "profiles" \notin jammed =>
        \A q \in Posts : post'[q].do = "profile" /\ post'[q].of = u => w.level = "SUPER"
  BY DEF RegInv, StillSuper
<1>6. post' \in [Posts -> PostRow]
  BY DEF RegInv, Rows
<1> QED BY <1>1, <1>3, <1>4, <1>5, <1>6, AccountRowStep

\* A profile is completed
LEMMA CompleteStep ==
  ASSUME RegInv, NEW u \in Accounts, CompleteProfile(u)
  PROVE  RegInv'
<1> DEFINE w == [row[u] EXCEPT !.profile = TRUE]
<1>1. /\ row[u].role = "TRANSPORTER" /\ row' = [row EXCEPT ![u] = w]
      /\ UNCHANGED <<bearer, post, jammed>>
  BY DEF CompleteProfile, RegInv, Rows
<1>2. Exists(u)
  BY <1>1, NoUserRow DEF Exists
<1>3. Sound(row[u]) /\ row[u] \in RegRow
  BY <1>2 DEF RegInv, Rows
<1>4. /\ w \in RegRow /\ Sound(w) /\ w.role = row[u].role /\ w.level = row[u].level
      /\ w.founder = row[u].founder /\ w.active = row[u].active
  <2>1. \A n \in RegRow, b \in BOOLEAN : Sound(n) /\ b =>
          LET v == [n EXCEPT !.profile = b] IN
          /\ v \in RegRow /\ Sound(v) /\ v.role = n.role /\ v.level = n.level
          /\ v.founder = n.founder /\ v.active = n.active
    BY DEF RegRow, Sound
  <2> QED BY <1>3, <2>1, Zenon
<1> HIDE DEF w
<1> QED BY <1>1, <1>2, <1>4, TouchStep

\* An account is switched on again
LEMMA ReactivateStep ==
  ASSUME RegInv, NEW by \in Accounts, NEW u \in Accounts, ReactivateAccount(by, u)
  PROVE  RegInv'
<1> DEFINE w == [row[u] EXCEPT !.active = TRUE]
<1>1. /\ Exists(u) /\ row' = [row EXCEPT ![u] = w] /\ UNCHANGED <<bearer, post, jammed>>
  BY DEF ReactivateAccount, RegInv, Rows
<1>3. Sound(row[u]) /\ row[u] \in RegRow
  BY <1>1 DEF RegInv, Rows
<1>4. /\ w \in RegRow /\ Sound(w) /\ w.role = row[u].role /\ w.level = row[u].level
      /\ w.founder = row[u].founder /\ w.active = TRUE
  <2>1. \A n \in RegRow, b \in BOOLEAN : Sound(n) =>
          LET v == [n EXCEPT !.active = b] IN
          /\ v \in RegRow /\ Sound(v) /\ v.role = n.role /\ v.level = n.level
          /\ v.founder = n.founder /\ v.active = b
    BY DEF RegRow, Sound
  <2> QED BY <1>3, <2>1, Zenon
<1> HIDE DEF w
<1> QED BY <1>1, <1>4, TouchStep

\* Tokens of administrators come and go
LEMMA BearerStep ==
  ASSUME RegInv, bearer' \subseteq Admins, UNCHANGED <<row, post, jammed>>
  PROVE  RegInv'
<1>1. Admins' = Admins /\ \A u \in Accounts : Exists(u)' <=> Exists(u)
  BY DEF Admins, Exists
<1>2. Rows' /\ \A r \in Posts : Standing(post[r])'
  BY <1>1 DEF RegInv, Rows, Standing
<1> QED BY <1>1, <1>2 DEF RegInv, FounderAlone, AnotherStays, StillSuper, AdminIsLeft, Boots,
                          Removes, OtherActive

\* Each step preserves the invariant
LEMMA RegNextInv == RegInv /\ [RegistryNext]_registryVars => RegInv'
<1> SUFFICES ASSUME RegInv, [RegistryNext]_registryVars PROVE RegInv'
  OBVIOUS
<1>1. ASSUME NEW u \in Accounts, AdminSignsIn(u) \/ BearerExpires(u) PROVE RegInv'
  BY <1>1, BearerStep DEF AdminSignsIn, BearerExpires, RegInv, Rows
<1>2. UNCHANGED registryVars => RegInv'
  BY BearerStep DEF registryVars, RegInv, Rows
<1> QED BY <1>1, <1>2, RegisterStep, BootstrapStep, CreateAdminStep, ProfileCheckStep,
           DeactivateCheckStep, InsertStep, WriteProfileStep, DeactivateStep, CompleteStep,
           ReactivateStep, Zenon DEF RegistryNext

\* The invariant holds at first
LEMMA RegInitInv == RegistryInit => RegInv
<1> SUFFICES ASSUME RegistryInit PROVE RegInv
  OBVIOUS
<1>1. /\ \A u \in Accounts : row[u] = NoUser /\ ~Exists(u) /\ ~row[u].founder
      /\ \A r \in Posts : post[r] = NoPost /\ post[r].do = "idle"
      /\ Admins = {} /\ bearer = {} /\ jammed = {}
      /\ row \in [Accounts -> RegRow] /\ post \in [Posts -> PostRow]
  BY NoUserRow, NoPostRow DEF RegistryInit, Exists, Admins
<1> QED BY <1>1 DEF RegInv, Rows, Standing, FounderAlone, AnotherStays, StillSuper, AdminIsLeft,
                    Boots, Removes

\* So it always holds
LEMMA RegInvariance == RegistrySpec => []RegInv
  BY RegInitInv, RegNextInv, PTL DEF RegistrySpec

\* What RegistrySafety says follows
LEMMA RegInvImplies == RegInv => RegistrySafety
<1> SUFFICES ASSUME RegInv PROVE RegistrySafety
  OBVIOUS
<1>1. RegistryTypeOK
  BY NoUserRow DEF RegInv, Rows, Sound, RegistryTypeOK, RegRow, PostRow
<1>2. OneFounder
  <2> SUFFICES ASSUME "founders" \notin jammed
               PROVE  Cardinality({u \in Accounts : row[u].founder}) <= 1
    BY DEF OneFounder
  <2> DEFINE S == {u \in Accounts : row[u].founder}
  <2>1. \A u, v \in S : u = v
    BY DEF RegInv, FounderAlone
  <2> HIDE DEF S
  <2>2. CASE S = {}
    BY <2>2, FS_EmptySet DEF S
  <2>3. CASE S # {}
    <3>1. PICK u \in S : S = {u}
      BY <2>1, <2>3
    <3>2. Cardinality({u}) = 1
      BY FS_Singleton
    <3> QED BY <3>1, <3>2 DEF S
  <2> QED BY <2>2, <2>3
<1> QED BY <1>1, <1>2 DEF RegInv, RegistrySafety

\* For any number of accounts and requests: a plain administrator does not become
\* SUPER_ADMIN nor gain a permission, unless two changes of his profile overlapped while
\* he was SUPER_ADMIN (modifierProfilAdmin checks before it writes)
THEOREM NobodyIsPromoted == RegistrySpec => NoPromotion
<1> DEFINE Kept == \A u \in Accounts : row[u].level = "ADMIN" /\ "profiles" \notin jammed =>
                     row'[u].level = "ADMIN" /\ (row'[u].users => row[u].users)
<1>1. RegInv /\ [RegistryNext]_registryVars => [Kept]_registryVars
  <2> SUFFICES ASSUME RegInv, RegistryNext PROVE Kept
    OBVIOUS
  <2>1. ASSUME NEW r \in Posts, WriteAdminProfile(r) PROVE Kept
    <3>1. PICK u \in Accounts : u = post[r].of
      BY <2>1, AdminExists DEF WriteAdminProfile, RegInv, Standing
    <3>2. "profiles" \notin jammed => row[u].level = "SUPER"
      BY <2>1, <3>1 DEF WriteAdminProfile, RegInv, StillSuper
    <3>3. \A v \in Accounts \ {u} : row'[v] = row[v]
      BY <2>1, <3>1 DEF WriteAdminProfile, RegInv, Rows
    <3> QED BY <3>2, <3>3
  <2>2. ASSUME NEW r \in Posts, NEW u \in Accounts, InsertUser(r, u) PROVE Kept
    <3>1. row[u].level = "NONE" /\ \A v \in Accounts \ {u} : row'[v] = row[v]
      BY <2>2 DEF InsertUser, Exists, NoUser, RegInv, Rows
    <3> QED BY <3>1
  <2>3. ASSUME NEW r \in Posts, DeactivateAccount(r) PROVE Kept
    <3>1. PICK u \in Accounts : u = post[r].of
      BY <2>3 DEF DeactivateAccount, RegInv, Standing
    <3>2. row' = [row EXCEPT ![u].active = FALSE] /\ row[u] \in RegRow
      BY <2>3, <3>1 DEF DeactivateAccount, RegInv, Rows
    <3> QED BY <3>2 DEF RegInv, Rows, RegRow
  <2>4. ASSUME NEW u \in Accounts, CompleteProfile(u) PROVE Kept
    BY <2>4 DEF CompleteProfile, RegInv, Rows, RegRow
  <2>5. ASSUME NEW u \in Accounts, NEW by \in Accounts, ReactivateAccount(by, u) PROVE Kept
    BY <2>5 DEF ReactivateAccount, RegInv, Rows, RegRow
  <2>6. row' = row => Kept
    OBVIOUS
  <2> QED BY <2>1, <2>2, <2>3, <2>4, <2>5, <2>6, Zenon DEF RegistryNext, BeginBootstrap,
        BeginRegister, BeginCreateAdmin, CheckAdminProfile, CheckDeactivate, AdminSignsIn,
        BearerExpires
<1> QED BY <1>1, RegInvariance, PTL DEF RegistrySpec, NoPromotion

-----------------------------------------------------------------------------
(***************************************************************************)
(* Files: a file that was sent and has no row yet is in one hand.          *)
(***************************************************************************)

\* The shape of a request
UploadRow == [at : {"idle", "send", "row"}, by : Senders \cup {"none"},
              of : Targets \cup {Papers, "none"}, file : Files \cup {0}]

\* A request sends what its sender owns, and a file it has sent is his
Sending(q) ==
  /\ q.at = "idle" => q = NoUpload
  /\ q.at = "send" => q.file = 0
  /\ q.at # "idle" => q.by \in Senders /\ q.of \in Targets \cup {Papers}
  /\ q.at # "idle" /\ q.of # Papers => Owner[q.of] = q.by
  /\ q.at = "row" => q.file \in Files /\ stored[q.file] = q.by

\* Types of the rows
DocShape ==
  /\ stored \in [Files -> Senders \cup {"none"}] /\ rows \in [Files -> Targets \cup {Papers, "none"}]
  /\ upload \in [Uploads -> UploadRow] /\ standing \subseteq Targets

\* The invariant: requests tell the truth about what they hold
DocInv == DocShape /\ DocumentsSafety /\ \A r \in Uploads : Sending(upload[r])

\* A request at rest
LEMMA NoUploadRow == NoUpload \in UploadRow /\ NoUpload.at = "idle" /\ NoUpload.file = 0
  BY DEF NoUpload, UploadRow

\* A request moves on, and files, rows and targets stay
LEMMA UploadStep ==
  ASSUME DocInv, NEW r \in Uploads, NEW q \in UploadRow, Sending(q), upload[r].file \notin Files,
         upload' = [upload EXCEPT ![r] = q], UNCHANGED <<stored, rows, linked, standing, orphaned>>
  PROVE  DocInv'
<1>1. /\ upload'[r] = q /\ \A p \in Uploads \ {r} : upload'[p] = upload[p]
      /\ upload' \in [Uploads -> UploadRow]
  BY DEF DocInv, DocShape
<1>2. DocShape' /\ DocumentsTypeOK' /\ ShownByOwner'
  BY <1>1 DEF DocInv, DocShape, DocumentsSafety, DocumentsTypeOK, ShownByOwner, Rowed, Sent, UploadRow
<1>3. NoStrayFile'
  BY <1>1 DEF DocInv, DocumentsSafety, NoStrayFile, Rowed, Sent
<1>4. \A p \in Uploads : Sending(upload[p])'
  BY <1>1 DEF DocInv, Sending
<1> QED BY <1>2, <1>3, <1>4 DEF DocInv, DocumentsSafety

\* An upload begins, of what its sender owns
LEMMA BeginUploadStep ==
  ASSUME DocInv, NEW r \in Uploads, NEW u \in Senders,
         BeginPaper(r, u) \/ \E t \in Targets : BeginUpload(r, u, t)
  PROVE  DocInv'
<1>1. PICK t \in Targets \cup {Papers} :
        /\ upload[r].at = "idle" /\ (t # Papers => Owner[t] = u)
        /\ upload' = [upload EXCEPT ![r] = [at |-> "send", by |-> u, of |-> t, file |-> 0]]
        /\ UNCHANGED <<stored, rows, linked, standing, orphaned>>
  BY DEF BeginPaper, BeginUpload, Owns, Waits
<1> DEFINE q == [at |-> "send", by |-> u, of |-> t, file |-> 0]
<1>2. q \in UploadRow /\ Sending(q)
  BY <1>1 DEF UploadRow, Sending
<1>3. upload[r].file \notin Files
  BY <1>1, NoUploadRow, DocumentsAssumption DEF DocInv, Sending
<1> HIDE DEF q
<1>4. upload' = [upload EXCEPT ![r] = q]
  BY <1>1 DEF q
<1> QED BY <1>1, <1>2, <1>3, <1>4, UploadStep

\* The store refuses the file
LEMMA SendFailsStep ==
  ASSUME DocInv, NEW r \in Uploads, SendFails(r)
  PROVE  DocInv'
<1>1. Sending(NoUpload) /\ NoUpload \in UploadRow
  BY NoUploadRow DEF Sending
<1>2. upload[r].file \notin Files
  BY DocumentsAssumption DEF DocInv, Sending, SendFails
<1> QED BY <1>1, <1>2, UploadStep DEF SendFails

\* The store takes it, under a name nobody holds
LEMMA SendFileStep ==
  ASSUME DocInv, NEW r \in Uploads, NEW f \in Files, SendFile(r, f)
  PROVE  DocInv'
<1>1. /\ upload[r].at = "send" /\ f \notin Sent
      /\ stored' = [stored EXCEPT ![f] = upload[r].by]
      /\ upload' = [upload EXCEPT ![r].at = "row", ![r].file = f]
      /\ UNCHANGED <<bucket, rows, linked, standing, orphaned>>
  BY DEF SendFile
<1>2. /\ upload[r] \in UploadRow /\ upload[r].by \in Senders /\ upload[r].by # "none"
      /\ upload[r].file = 0 /\ upload[r].of \in Targets \cup {Papers}
      /\ upload[r].of # Papers => Owner[upload[r].of] = upload[r].by
  BY <1>1, DocumentsAssumption DEF DocInv, DocShape, Sending
<1>3. /\ stored' \in [Files -> Senders \cup {"none"}] /\ stored'[f] = upload[r].by
      /\ \A g \in Files \ {f} : stored'[g] = stored[g]
  BY <1>1, <1>2 DEF DocInv, DocShape
<1>4. /\ upload' \in [Uploads -> UploadRow] /\ \A p \in Uploads \ {r} : upload'[p] = upload[p]
      /\ upload'[r].at = "row" /\ upload'[r].file = f /\ upload'[r].by = upload[r].by
      /\ upload'[r].of = upload[r].of
  BY <1>1, <1>2 DEF DocInv, DocShape, UploadRow
<1>5. f \notin Rowed /\ f \notin orphaned /\ Sent' = Sent \cup {f} /\ Rowed' = Rowed
  BY <1>1, <1>2, <1>3 DEF DocInv, DocumentsSafety, DocumentsTypeOK, Sent, Rowed
<1>6. DocShape' /\ DocumentsTypeOK'
  BY <1>1, <1>3, <1>4, <1>5 DEF DocInv, DocShape, DocumentsSafety, DocumentsTypeOK, UploadRow
<1>7. ShownByOwner'
  BY <1>1, <1>3, <1>5 DEF DocInv, DocumentsSafety, ShownByOwner, Rowed
<1>8. NoStrayFile'
  BY <1>1, <1>2, <1>4, <1>5, DocumentsAssumption DEF DocInv, DocumentsSafety, NoStrayFile, Sent
<1>9. ASSUME NEW p \in Uploads PROVE Sending(upload[p])'
  <2>1. CASE p = r
    BY <1>2, <1>3, <1>4, <2>1 DEF Sending
  <2>2. CASE p # r
    <3>1. upload[p].at = "row" => upload[p].file # f
      BY <1>1, DocumentsAssumption DEF DocInv, Sending, Sent
    <3> QED BY <1>3, <1>4, <2>2, <3>1 DEF DocInv, Sending
  <2> QED BY <2>1, <2>2
<1> QED BY <1>6, <1>7, <1>8, <1>9 DEF DocInv, DocumentsSafety

\* A request that has sent its file writes the row of it, or loses it
LEMMA DocRowStep ==
  ASSUME DocInv, NEW r \in Uploads, WriteMedia(r) \/ WritePaper(r) \/ UploadDies(r)
  PROVE  DocInv'
<1> DEFINE f == upload[r].file
           t == upload[r].of
<1>1. /\ upload[r].at = "row" /\ upload' = [upload EXCEPT ![r] = NoUpload]
      /\ UNCHANGED <<stored, linked, standing>>
      /\ \/ rows' = [rows EXCEPT ![f] = t] /\ t \in standing \cup {Papers} /\ UNCHANGED orphaned
         \/ orphaned' = orphaned \cup {f} /\ UNCHANGED rows
  BY DEF WriteMedia, WritePaper, UploadDies
<1>2. /\ f \in Files /\ t \in Targets \cup {Papers} /\ f \in Sent /\ t # "none"
      /\ t # Papers => Owner[t] = stored[f]
  BY <1>1, DocumentsAssumption DEF DocInv, Sending, Sent
<1> HIDE DEF f, t
<1>3. /\ rows' \in [Files -> Targets \cup {Papers, "none"}]
      /\ \A g \in Files \ {f} : rows'[g] = rows[g]
      /\ (rows'[f] = t /\ t \in standing \cup {Papers} /\ orphaned' = orphaned)
           \/ (rows'[f] = rows[f] /\ orphaned' = orphaned \cup {f})
  BY <1>1, <1>2 DEF DocInv, DocShape
<1>4. /\ upload' \in [Uploads -> UploadRow] /\ upload'[r] = NoUpload
      /\ \A p \in Uploads \ {r} : upload'[p] = upload[p]
  BY <1>1, NoUploadRow DEF DocInv, DocShape
<1>5. Sent' = Sent /\ Rowed \subseteq Rowed' /\ Rowed' \subseteq Rowed \cup {f}
      /\ f \in Rowed' \cup orphaned' /\ orphaned \subseteq orphaned'
  BY <1>1, <1>2, <1>3 DEF Sent, Rowed
<1>6. DocShape' /\ DocumentsTypeOK'
  BY <1>1, <1>2, <1>3, <1>4, <1>5
     DEF DocInv, DocShape, DocumentsSafety, DocumentsTypeOK, UploadRow, Rowed
<1>7. ShownByOwner'
  BY <1>1, <1>2, <1>3, <1>5 DEF DocInv, DocumentsSafety, ShownByOwner, Rowed
<1>8. NoStrayFile'
  <2> SUFFICES ASSUME NEW g \in Sent PROVE g \in Rowed' \cup orphaned' \/ \E p \in Uploads : upload'[p].file = g
    BY <1>5 DEF NoStrayFile
  <2>1. CASE g = f
    BY <1>5, <2>1
  <2>2. CASE g # f
    BY <1>4, <1>5, <2>2 DEF DocInv, DocumentsSafety, NoStrayFile, f
  <2> QED BY <2>1, <2>2
<1>9. \A p \in Uploads : Sending(upload[p])'
  BY <1>1, <1>4, NoUploadRow DEF DocInv, Sending
<1> QED BY <1>6, <1>7, <1>8, <1>9 DEF DocInv, DocumentsSafety

\* Rows that go leave their files behind, as rows that went
LEMMA RowsGoStep ==
  ASSUME DocInv, NEW S \in SUBSET Rowed, NEW T \in SUBSET Targets,
         rows' = [f \in Files |-> IF f \in S THEN "none" ELSE rows[f]],
         orphaned' = orphaned \cup S, standing' = standing \ T, linked' = linked \ T,
         \A f \in Rowed \ S : rows[f] \notin T,
         UNCHANGED <<stored, upload>>
  PROVE  DocInv'
<1>1. /\ rows' \in [Files -> Targets \cup {Papers, "none"}]
      /\ Rowed' = Rowed \ S /\ \A f \in Rowed' : rows'[f] = rows[f]
      /\ Sent' = Sent
  BY DEF DocInv, DocShape, Rowed, Sent
<1>2. DocShape' /\ DocumentsTypeOK'
  BY <1>1 DEF DocInv, DocShape, DocumentsSafety, DocumentsTypeOK, UploadRow, Rowed
<1>3. ShownByOwner' /\ NoStrayFile'
  BY <1>1 DEF DocInv, DocumentsSafety, ShownByOwner, NoStrayFile
<1>4. \A p \in Uploads : Sending(upload[p])'
  BY DEF DocInv, Sending
<1> QED BY <1>2, <1>3, <1>4 DEF DocInv, DocumentsSafety

\* Each step preserves the invariant
LEMMA DocNextInv == DocInv /\ [DocumentsNext]_documentsVars => DocInv'
<1> SUFFICES ASSUME DocInv, [DocumentsNext]_documentsVars PROVE DocInv'
  OBVIOUS
<1>1. ASSUME NEW t \in Targets, TargetGoes(t) PROVE DocInv'
  <2>1. {f \in Rowed : rows[f] = t} \in SUBSET Rowed /\ {t} \in SUBSET Targets
    OBVIOUS
  <2>2. \A f \in Rowed \ {f \in Rowed : rows[f] = t} : rows[f] \notin {t}
    OBVIOUS
  <2> QED BY <1>1, <2>1, <2>2, RowsGoStep DEF TargetGoes
<1>2. ASSUME NEW u \in Senders, NEW f \in Files, DeleteMedia(u, f) PROVE DocInv'
  <2>1. rows' = [g \in Files |-> IF g \in {f} THEN "none" ELSE rows[g]]
    BY <1>2 DEF DeleteMedia, DocInv, DocShape
  <2>2. {f} \in SUBSET Rowed /\ {} \in SUBSET Targets /\ standing' = standing \ {}
        /\ linked' = linked \ {} /\ orphaned' = orphaned \cup {f} /\ UNCHANGED <<stored, upload>>
    BY <1>2 DEF DeleteMedia
  <2>3. \A g \in Rowed \ {f} : rows[g] \notin {}
    OBVIOUS
  <2> QED BY <2>1, <2>2, <2>3, RowsGoStep
<1>3. ASSUME UNCHANGED <<stored, rows, standing, upload, orphaned>>, linked' \subseteq standing
      PROVE  DocInv'
  BY <1>3 DEF DocInv, DocShape, DocumentsSafety, DocumentsTypeOK, ShownByOwner, NoStrayFile, Sending,
     Rowed, Sent
<1>4. ASSUME NEW u \in Senders, NEW t \in Targets, AddMedia(u, t) PROVE DocInv'
  BY <1>3, <1>4 DEF AddMedia, Owns, DocInv, DocumentsSafety, DocumentsTypeOK
<1>5. OpenBucket \/ UNCHANGED documentsVars => DocInv'
  BY <1>3 DEF OpenBucket, documentsVars, DocInv, DocumentsSafety, DocumentsTypeOK
<1> QED BY <1>1, <1>2, <1>4, <1>5, BeginUploadStep, SendFailsStep, SendFileStep, DocRowStep, Zenon
        DEF DocumentsNext

\* The invariant holds at first
LEMMA DocInitInv == DocumentsInit => DocInv
<1> SUFFICES ASSUME DocumentsInit PROVE DocInv
  OBVIOUS
<1>1. Sent = {} /\ Rowed = {} /\ \A r \in Uploads : upload[r] = NoUpload
  BY DEF DocumentsInit, Sent, Rowed
<1> QED BY <1>1, NoUploadRow DEF DocumentsInit, DocInv, DocShape, DocumentsSafety, DocumentsTypeOK,
           ShownByOwner, NoStrayFile, Sending

\* So it always holds
LEMMA DocInvariance == DocumentsSpec => []DocInv
  BY DocInitInv, DocNextInv, PTL DEF DocumentsSpec

-----------------------------------------------------------------------------
(***************************************************************************)
(* Routes: what a buyer was offered he pays, as long as the carrier        *)
(* changed nothing.                                                        *)
(***************************************************************************)

\* The shapes of a route, a mission and a choice
RouteRow == [status : {"NONE", "ACTIVE", "OFF"}, cap : Loads \cup {0}, tariff : Tariffs \cup {0},
             changes : Nat]
MissionRow == [status : {"NONE", "REQUESTED", "ACCEPTED"}, carrier : Carriers \cup {NoCarrier},
               kg : Loads \cup {0}, price : Nat, route : Carriers \cup {NoCarrier}, kept : BOOLEAN]
ChoiceRow == [route : Carriers \cup {NoCarrier}, kg : Loads \cup {0}, price : Nat, kept : BOOLEAN]

\* The route of that carrier takes that load, at that price
Agreed(c, kg, price) == c \in Carriers /\ Fits(c, kg) /\ price = Price(c, kg)

\* What was ordered is what the route offers, as long as the route stays as it was read
Ordered(w) == w.price >= Least /\ w.kg \in Loads /\ (w.kept => Agreed(w.route, w.kg, w.price))

\* Types of the rows
RouteShape ==
  /\ route \in [Carriers -> RouteRow] /\ mission \in [Missions -> MissionRow]
  /\ choice \in [Orderers -> ChoiceRow]

\* The invariant: choices and missions are of what was ordered
RouteInv ==
  /\ RouteShape
  /\ \A b \in Orderers : choice[b].route # NoCarrier => Ordered(choice[b])
  /\ \A m \in Missions : mission[m].status = "REQUESTED" => Ordered(mission[m])
  /\ \A m \in Missions : mission[m].status # "NONE" =>
       mission[m].price >= Least /\ mission[m].kg \in Loads

\* A price is a number, and the least one at least
LEMMA PriceType ==
  ASSUME RouteShape, NEW c \in Carriers, NEW kg \in Loads
  PROVE  Price(c, kg) \in Nat /\ Price(c, kg) >= Least
<1>1. PICK t \in Nat : t = route[c].tariff
  <2>1. route[c].tariff \in Tariffs \cup {0}
    BY DEF RouteShape, RouteRow
  <2> QED BY <2>1, RoutesAssumption
<1>2. PICK k \in Nat : k = kg
  BY RoutesAssumption
<1>3. t * k \in Nat /\ Least \in Nat
  BY RoutesAssumption
<1> QED BY <1>1, <1>2, <1>3 DEF Price

\* A row that is kept no longer, or kept as it was
LEMMA AlteredRow ==
  ASSUME NEW c \in Carriers
  PROVE  /\ \A w \in ChoiceRow : \A v : v = [w EXCEPT !.kept = @ /\ w.route # c] =>
              /\ v \in ChoiceRow /\ v.route = w.route /\ v.kg = w.kg /\ v.price = w.price
              /\ v.kept <=> w.kept /\ w.route # c
         /\ \A w \in MissionRow : \A v : v = [w EXCEPT !.kept = @ /\ w.route # c] =>
              /\ v \in MissionRow /\ v.route = w.route /\ v.kg = w.kg /\ v.price = w.price
              /\ v.status = w.status
              /\ v.kept <=> w.kept /\ w.route # c
<1>1. \A w \in ChoiceRow, b \in BOOLEAN : LET v == [w EXCEPT !.kept = b] IN
        /\ v \in ChoiceRow /\ v.route = w.route /\ v.kg = w.kg /\ v.price = w.price /\ v.kept = b
  BY DEF ChoiceRow
<1>2. \A w \in MissionRow, b \in BOOLEAN : LET v == [w EXCEPT !.kept = b] IN
        /\ v \in MissionRow /\ v.route = w.route /\ v.kg = w.kg /\ v.price = w.price
        /\ v.status = w.status /\ v.kept = b
  BY DEF MissionRow
<1>3. \A w : (w.kept /\ w.route # c) \in BOOLEAN
  OBVIOUS
<1>4. \A w \in ChoiceRow : LET v == [w EXCEPT !.kept = w.kept /\ w.route # c] IN
        /\ v \in ChoiceRow /\ v.route = w.route /\ v.kg = w.kg /\ v.price = w.price
        /\ v.kept = (w.kept /\ w.route # c)
  BY <1>1, <1>3, Zenon
<1>5. \A w \in MissionRow : LET v == [w EXCEPT !.kept = w.kept /\ w.route # c] IN
        /\ v \in MissionRow /\ v.route = w.route /\ v.kg = w.kg /\ v.price = w.price
        /\ v.status = w.status /\ v.kept = (w.kept /\ w.route # c)
  BY <1>2, <1>3, Zenon
<1> QED BY <1>4, <1>5, Zenon

\* The routes of others offer what they offered
LEMMA OthersAgree ==
  ASSUME RouteShape, NEW c \in Carriers, NEW w \in RouteRow, route' = [route EXCEPT ![c] = w],
         NEW d, d # c, NEW kg, NEW price
  PROVE  Agreed(d, kg, price)' <=> Agreed(d, kg, price)
<1>1. CASE d \in Carriers
  <2>1. route'[d] = route[d]
    BY <1>1 DEF RouteShape
  <2> QED BY <2>1 DEF Agreed, Fits, Price
<1>2. CASE d \notin Carriers
  BY <1>2 DEF Agreed
<1> QED BY <1>1, <1>2

\* A route is altered: the orders of others keep what they agreed
LEMMA AltersStep ==
  ASSUME RouteInv, NEW c \in Carriers, NEW w \in RouteRow, route' = [route EXCEPT ![c] = w],
         Alters(c)
  PROVE  RouteInv'
<1>1. ASSUME NEW b \in Orderers
      PROVE  /\ choice'[b] \in ChoiceRow /\ choice'[b].route = choice[b].route
             /\ choice'[b].kg = choice[b].kg /\ choice'[b].price = choice[b].price
             /\ choice'[b].kept <=> choice[b].kept /\ choice[b].route # c
  <2>1. choice[b] \in ChoiceRow
    BY DEF RouteInv, RouteShape
  <2>2. choice'[b] = [choice[b] EXCEPT !.kept = @ /\ choice[b].route # c]
    BY DEF Alters
  <2>3. \A x \in ChoiceRow : \A v : v = [x EXCEPT !.kept = @ /\ x.route # c] =>
          /\ v \in ChoiceRow /\ v.route = x.route /\ v.kg = x.kg /\ v.price = x.price
          /\ v.kept <=> x.kept /\ x.route # c
    BY AlteredRow, Zenon
  <2> QED BY <2>1, <2>2, <2>3, Zenon
<1>2. ASSUME NEW m \in Missions
      PROVE  /\ mission'[m] \in MissionRow /\ mission'[m].route = mission[m].route
             /\ mission'[m].kg = mission[m].kg /\ mission'[m].price = mission[m].price
             /\ mission'[m].status = mission[m].status
             /\ mission'[m].kept <=> mission[m].kept /\ mission[m].route # c
  <2>1. mission[m] \in MissionRow
    BY DEF RouteInv, RouteShape
  <2>2. mission'[m] = [mission[m] EXCEPT !.kept = @ /\ mission[m].route # c]
    BY DEF Alters
  <2>3. \A x \in MissionRow : \A v : v = [x EXCEPT !.kept = @ /\ x.route # c] =>
          /\ v \in MissionRow /\ v.route = x.route /\ v.kg = x.kg /\ v.price = x.price
          /\ v.status = x.status
          /\ v.kept <=> x.kept /\ x.route # c
    BY AlteredRow, Zenon
  <2> QED BY <2>1, <2>2, <2>3, Zenon
<1>3. RouteShape'
  <2>1. choice' \in [Orderers -> ChoiceRow]
    BY <1>1 DEF Alters
  <2>2. mission' \in [Missions -> MissionRow]
    BY <1>2 DEF Alters
  <2>3. route' \in [Carriers -> RouteRow]
    BY DEF RouteInv, RouteShape
  <2> QED BY <2>1, <2>2, <2>3 DEF RouteShape
<1>4. \A d, kg, price : d # c => (Agreed(d, kg, price)' <=> Agreed(d, kg, price))
  BY OthersAgree DEF RouteInv
<1>5. \A b \in Orderers : choice'[b].route # NoCarrier => Ordered(choice[b])'
  BY <1>1, <1>4 DEF RouteInv, Ordered
<1>6. \A m \in Missions : mission'[m].status = "REQUESTED" => Ordered(mission[m])'
  BY <1>2, <1>4 DEF RouteInv, Ordered
<1>7. \A m \in Missions : mission'[m].status # "NONE" =>
        mission'[m].price >= Least /\ mission'[m].kg \in Loads
  BY <1>2 DEF RouteInv
<1> QED BY <1>3, <1>5, <1>6, <1>7 DEF RouteInv

\* A carrier opens a route
LEMMA CreateRouteStep ==
  ASSUME RouteInv, NEW c \in Carriers, NEW cap \in Loads, NEW tariff \in Tariffs,
         CreateRoute(c, cap, tariff)
  PROVE  RouteInv'
<1> DEFINE w == [route[c] EXCEPT !.status = "ACTIVE", !.cap = cap, !.tariff = tariff]
<1>1. route[c].status = "NONE" /\ route' = [route EXCEPT ![c] = w] /\ UNCHANGED <<mission, choice>>
  BY DEF CreateRoute
<1>2. w \in RouteRow
  BY DEF RouteInv, RouteShape, RouteRow
<1> HIDE DEF w
<1>3. RouteShape'
  BY <1>1, <1>2 DEF RouteInv, RouteShape
<1>4. \A d, kg, price : Agreed(d, kg, price) => Agreed(d, kg, price)'
  <2>1. \A kg, price : ~Agreed(c, kg, price)
    BY <1>1 DEF Agreed, Fits
  <2> QED BY <1>1, <1>2, <2>1, OthersAgree DEF RouteInv
<1> QED BY <1>1, <1>3, <1>4 DEF RouteInv, Ordered

\* A buyer chooses one, at its price
LEMMA ChooseStep ==
  ASSUME RouteInv, NEW b \in Orderers, NEW c \in Carriers, NEW kg \in Loads, Choose(b, c, kg)
  PROVE  RouteInv'
<1> DEFINE w == [route |-> c, kg |-> kg, price |-> Price(c, kg), kept |-> TRUE]
<1>1. Offered(c, kg) /\ choice' = [choice EXCEPT ![b] = w] /\ UNCHANGED <<route, mission>>
  BY DEF Choose
<1>2. Price(c, kg) \in Nat /\ Price(c, kg) >= Least
  BY PriceType DEF RouteInv
<1>3. w \in ChoiceRow /\ w.route = c /\ w.kg = kg /\ w.price = Price(c, kg)
  <2>1. \A k \in BOOLEAN : [route |-> c, kg |-> kg, price |-> Price(c, kg), kept |-> k] \in ChoiceRow
    BY <1>2 DEF ChoiceRow
  <2> QED BY <2>1, Zenon
<1> HIDE DEF w
<1>4. Ordered(w)
  <2>1. Fits(c, kg)
    BY <1>1, RoutesAssumption DEF Offered, Fits, RouteInv, RouteShape, RouteRow
  <2> QED BY <1>2, <1>3, <2>1 DEF Ordered, Agreed
<1>5. \A x : Ordered(x)' <=> Ordered(x)
  BY <1>1 DEF Ordered, Agreed, Fits, Price
<1> QED BY <1>1, <1>3, <1>4, <1>5 DEF RouteInv, RouteShape

\* A buyer without a choice
LEMMA NoChoiceRow == NoChoice \in ChoiceRow /\ NoChoice.route = NoCarrier
  BY DEF NoChoice, ChoiceRow

\* The choice becomes a mission
LEMMA MissionStep ==
  ASSUME RouteInv, NEW b \in Orderers, NEW m \in Missions, CreateMission(b, m)
  PROVE  RouteInv'
<1> DEFINE o == choice[b]
           w == [status |-> "REQUESTED", carrier |-> NoCarrier, kg |-> o.kg, price |-> o.price,
                 route |-> o.route, kept |-> o.kept]
<1>1. /\ o.route # NoCarrier /\ mission' = [mission EXCEPT ![m] = w]
      /\ choice' = [choice EXCEPT ![b] = NoChoice] /\ UNCHANGED route
  BY DEF CreateMission
<1>2. o \in ChoiceRow /\ Ordered(o)
  BY <1>1 DEF RouteInv, RouteShape
<1>3. /\ w \in MissionRow /\ w.status = "REQUESTED" /\ w.kg = o.kg /\ w.price = o.price
      /\ w.route = o.route /\ w.kept = o.kept
  BY <1>2 DEF ChoiceRow, MissionRow
<1>4. Ordered(w)
  BY <1>2, <1>3 DEF Ordered
<1> HIDE DEF w
<1>5. \A x : Ordered(x)' <=> Ordered(x)
  BY <1>1 DEF Ordered, Agreed, Fits, Price
<1>6. w.price >= Least /\ w.kg \in Loads
  BY <1>4 DEF Ordered
<1> QED BY <1>1, <1>3, <1>4, <1>5, <1>6, NoChoiceRow DEF RouteInv, RouteShape

\* Its carrier accepts it
LEMMA AcceptMissionStep ==
  ASSUME RouteInv, NEW c \in Carriers, NEW m \in Missions, AcceptMission(c, m)
  PROVE  RouteInv'
<1> DEFINE w == [mission[m] EXCEPT !.status = "ACCEPTED", !.carrier = c]
<1>1. /\ mission[m].status = "REQUESTED" /\ mission[m] \in MissionRow
      /\ UNCHANGED <<route, choice>>
      /\ mission' = [mission EXCEPT ![m].status = "ACCEPTED", ![m].carrier = c]
  BY DEF AcceptMission, Available, RouteInv, RouteShape
<1>2. mission' = [mission EXCEPT ![m] = w]
  BY <1>1 DEF RouteInv, RouteShape
<1>3. w \in MissionRow /\ w.status = "ACCEPTED" /\ w.price = mission[m].price /\ w.kg = mission[m].kg
  BY <1>1 DEF MissionRow
<1> HIDE DEF w
<1>4. \A x : Ordered(x)' <=> Ordered(x)
  BY <1>1 DEF Ordered, Agreed, Fits, Price
<1> QED BY <1>1, <1>2, <1>3, <1>4 DEF RouteInv, RouteShape

\* Each step preserves the invariant
LEMMA RouteNextInv == RouteInv /\ [RoutesNext]_routesVars => RouteInv'
<1> SUFFICES ASSUME RouteInv, [RoutesNext]_routesVars PROVE RouteInv'
  OBVIOUS
<1>1. ASSUME NEW c \in Carriers, DeleteRoute(c) PROVE RouteInv'
  <2> DEFINE w == [route[c] EXCEPT !.status = "OFF"]
  <2>1. w \in RouteRow /\ route' = [route EXCEPT ![c] = w] /\ Alters(c)
    BY <1>1 DEF DeleteRoute, RouteInv, RouteShape, RouteRow
  <2> HIDE DEF w
  <2> QED BY <2>1, AltersStep
<1>2. ASSUME NEW c \in Carriers, NEW status \in {"ACTIVE", "OFF"}, NEW cap \in Loads,
             NEW tariff \in Tariffs, UpdateRoute(c, status, cap, tariff)
      PROVE  RouteInv'
  <2> DEFINE w == [status |-> status, cap |-> cap, tariff |-> tariff,
                   changes |-> route[c].changes + 1]
  <2>1. w \in RouteRow /\ route' = [route EXCEPT ![c] = w] /\ Alters(c)
    BY <1>2 DEF UpdateRoute, RouteInv, RouteShape, RouteRow
  <2> HIDE DEF w
  <2> QED BY <2>1, AltersStep
<1>3. UNCHANGED routesVars => RouteInv'
  BY DEF routesVars, RouteInv, RouteShape, Ordered, Agreed, Fits, Price
<1> QED BY <1>1, <1>2, <1>3, CreateRouteStep, ChooseStep, MissionStep, AcceptMissionStep, Zenon
        DEF RoutesNext

\* The invariant holds at first
LEMMA RouteInitInv == RoutesInit => RouteInv
<1> SUFFICES ASSUME RoutesInit PROVE RouteInv
  OBVIOUS
<1>1. NoRoute \in RouteRow
  BY DEF NoRoute, RouteRow
<1>2. NoMission \in MissionRow /\ NoMission.status = "NONE"
  BY DEF NoMission, MissionRow
<1> QED BY <1>1, <1>2, NoChoiceRow DEF RoutesInit, RouteInv, RouteShape

\* So it always holds
LEMMA RouteInvariance == RoutesSpec => []RouteInv
  BY RouteInitInv, RouteNextInv, PTL DEF RoutesSpec

\* What RoutesSafety says follows
LEMMA RouteInvImplies == RouteInv => RoutesSafety
<1> SUFFICES ASSUME RouteInv PROVE RoutesSafety
  OBVIOUS
<1>1. RoutesTypeOK
  BY DEF RouteInv, RouteShape, RoutesTypeOK, RouteRow, ChoiceRow
<1>2. OfferStands
  BY DEF RouteInv, OfferStands, Ordered, Agreed, Available
<1> QED BY <1>1, <1>2 DEF RoutesSafety

-----------------------------------------------------------------------------
(***************************************************************************)
(* The basket: a line is of a listing as it was read, or dated.            *)
(***************************************************************************)

\* The shapes of a listing, a line and a request
WareRow == [status : {"ACTIVE", "SUSPENDED", "DELETED"}, stock : Stocks, price : Prices, edits : Nat]
ItemRow == [kg : Nat, price : Prices \cup {0}]
CartRow == [do : {"idle", "add", "unlike"}, of : Wares \cup {"none"}, kg : Nat,
            stock : Stocks \cup {0}, price : Prices \cup {0}]

\* A request knows the listing as it is, unless that changed since
Knows(q) ==
  /\ q.do \in {"add", "unlike"} => q.of \in Wares
  /\ q.do = "add" /\ q.of \notin dated =>
       q.stock = ware[q.of].stock /\ q.price = ware[q.of].price

\* Types of the rows
BasketShape ==
  /\ ware \in [Wares -> WareRow] /\ item \in [Wares -> ItemRow] /\ cart \in [Shoppers -> CartRow]
  /\ toggles \in [Wares -> Int] /\ likes \subseteq Wares

\* The invariant
BasketInv == BasketShape /\ BasketSafety /\ \A r \in Shoppers : Knows(cart[r])

\* A request at rest
LEMMA NoCartRow == NoCart \in CartRow /\ NoCart.do = "idle"
  BY DEF NoCart, CartRow

\* No line
LEMMA NoItemRow == NoItem \in ItemRow /\ NoItem.kg = 0
  BY DEF NoItem, ItemRow

\* A request is begun or ends, and the basket stays
LEMMA CartStep ==
  ASSUME BasketInv, NEW r \in Shoppers, NEW q \in CartRow, cart' = [cart EXCEPT ![r] = q],
         Knows(q)', UNCHANGED <<ware, hasBasket, item, likes, toggles>>,
         \/ dated' = dated
         \/ \E w \in Wares : /\ dated' = dated \ {w} /\ item[w].kg = 0
                             /\ \A p \in Shoppers : cart[p].of # w
  PROVE  BasketInv'
<1>1. /\ cart'[r] = q /\ \A p \in Shoppers \ {r} : cart'[p] = cart[p]
      /\ cart' \in [Shoppers -> CartRow]
  BY DEF BasketInv, BasketShape
<1>2. BasketShape' /\ BasketTypeOK' /\ LikesAsAnswered'
  BY <1>1 DEF BasketInv, BasketShape, BasketSafety, BasketTypeOK, LikesAsAnswered, CartRow, Listed
<1>3. BasketCovered'
  BY DEF BasketInv, BasketSafety, BasketCovered
<1>4. \A p \in Shoppers : Knows(cart[p])'
  BY <1>1 DEF BasketInv, Knows
<1> QED BY <1>2, <1>3, <1>4 DEF BasketInv, BasketSafety

\* A listing is read, to be put in the basket
LEMMA BeginAddStep ==
  ASSUME BasketInv, NEW r \in Shoppers, NEW w \in Wares, NEW kg \in Helpings, BeginAdd(r, w, kg)
  PROVE  BasketInv'
<1>0. PICK stock \in Stocks, price \in Prices : stock = ware[w].stock /\ price = ware[w].price
  BY DEF BasketInv, BasketShape, WareRow
<1> DEFINE q == [do |-> "add", of |-> w, kg |-> kg, stock |-> stock, price |-> price]
<1>1. /\ cart' = [cart EXCEPT ![r] = q] /\ UNCHANGED <<ware, hasBasket, item, likes, toggles>>
      /\ dated' = IF item[w].kg = 0 /\ \A p \in Shoppers : cart[p].of # w THEN dated \ {w} ELSE dated
  BY <1>0 DEF BeginAdd
<1>2. q \in CartRow /\ q.do = "add" /\ q.of = w /\ q.stock = stock /\ q.price = price
  BY BasketAssumption DEF CartRow
<1> HIDE DEF q
<1>3. Knows(q)'
  BY <1>0, <1>1, <1>2 DEF Knows
<1> QED BY <1>1, <1>2, <1>3, CartStep

\* A request ends without a line
LEMMA DropStep ==
  ASSUME BasketInv, NEW r \in Shoppers, Leaves(r),
         UNCHANGED <<ware, hasBasket, item, likes, dated, toggles>>
  PROVE  BasketInv'
<1>1. Knows(NoCart)'
  BY NoCartRow DEF Knows
<1> QED BY <1>1, NoCartRow, CartStep DEF Leaves

\* A favourite is about to go
LEMMA BeginUnlikeStep ==
  ASSUME BasketInv, NEW r \in Shoppers, NEW w \in Wares, BeginUnlike(r, w)
  PROVE  BasketInv'
<1> DEFINE q == [NoCart EXCEPT !.do = "unlike", !.of = w]
<1>1. cart' = [cart EXCEPT ![r] = q] /\ UNCHANGED <<ware, hasBasket, item, likes, dated, toggles>>
  BY DEF BeginUnlike
<1>2. q \in CartRow /\ q.do = "unlike" /\ q.of = w
  BY DEF NoCart, CartRow
<1> HIDE DEF q
<1>3. Knows(q)'
  BY <1>1, <1>2 DEF Knows
<1> QED BY <1>1, <1>2, <1>3, CartStep

\* A request that ends leaves what the others know
LEMMA LeavesStep ==
  ASSUME BasketInv, NEW r \in Shoppers, Leaves(r), UNCHANGED <<ware, dated>>
  PROVE  cart' \in [Shoppers -> CartRow] /\ \A p \in Shoppers : Knows(cart[p])'
<1>1. /\ cart'[r] = NoCart /\ \A p \in Shoppers \ {r} : cart'[p] = cart[p]
      /\ cart' \in [Shoppers -> CartRow]
  BY NoCartRow DEF BasketInv, BasketShape, Leaves
<1> QED BY <1>1, NoCartRow DEF BasketInv, Knows

\* The line is written: what was read still fits, unless the listing changed
LEMMA AddItemStep ==
  ASSUME BasketInv, NEW r \in Shoppers, AddItem(r)
  PROVE  BasketInv'
<1>1. PICK w \in Wares : w = cart[r].of
  BY DEF AddItem, BasketInv, Knows
<1>2. cart[r] \in CartRow /\ item[w] \in ItemRow
  BY DEF BasketInv, BasketShape
<1>3. PICK kg \in Nat, old \in Nat : kg = cart[r].kg /\ old = item[w].kg
  BY <1>2 DEF CartRow, ItemRow
<1>4. /\ cart[r].do = "add" /\ Listed(w) /\ ~(old + kg > cart[r].stock)
      /\ hasBasket' = TRUE /\ Leaves(r) /\ UNCHANGED <<ware, likes, dated, toggles>>
      /\ item' = [item EXCEPT ![w] = [kg |-> old + kg, price |-> cart[r].price]]
  BY <1>1, <1>3 DEF AddItem, Overshoot
<1>5. /\ item' \in [Wares -> ItemRow] /\ item'[w].kg = old + kg /\ item'[w].price = cart[r].price
      /\ \A v \in Wares \ {w} : item'[v] = item[v]
  BY <1>2, <1>3, <1>4 DEF BasketInv, BasketShape, ItemRow, CartRow
<1>6. cart' \in [Shoppers -> CartRow] /\ \A p \in Shoppers : Knows(cart[p])'
  BY <1>4, LeavesStep
<1>7. BasketShape' /\ BasketTypeOK' /\ LikesAsAnswered'
  BY <1>4, <1>5, <1>6 DEF BasketInv, BasketShape, BasketSafety, BasketTypeOK, LikesAsAnswered,
                          CartRow, Listed
<1>8. BasketCovered'
  <2> SUFFICES ASSUME NEW v \in Wares \ dated, item'[v].kg > 0
               PROVE  item'[v].kg <= ware[v].stock /\ item'[v].price = ware[v].price
    BY <1>4 DEF BasketCovered
  <2>1. CASE v = w
    <3>1. cart[r].stock = ware[w].stock /\ cart[r].price = ware[w].price
      BY <1>1, <1>4, <2>1 DEF BasketInv, Knows
    <3>2. PICK n \in Nat : n = ware[w].stock
      BY BasketAssumption DEF BasketInv, BasketShape, WareRow
    <3> QED BY <1>4, <1>5, <2>1, <3>1, <3>2
  <2>2. CASE v # w
    BY <1>5, <2>2 DEF BasketInv, BasketSafety, BasketCovered
  <2> QED BY <2>1, <2>2
<1> QED BY <1>6, <1>7, <1>8 DEF BasketInv, BasketSafety

\* A favourite goes, and only one
LEMMA UnlikeStep ==
  ASSUME BasketInv, NEW r \in Shoppers, EndUnlike(r)
  PROVE  BasketInv'
<1>1. PICK w \in Wares : w = cart[r].of
  BY DEF EndUnlike, BasketInv, Knows
<1>2. /\ likes' = likes \ {w} /\ Leaves(r) /\ UNCHANGED <<ware, hasBasket, item, dated>>
      /\ toggles' = [toggles EXCEPT ![w] = IF w \in likes THEN @ - 1 ELSE @]
  BY <1>1 DEF EndUnlike
<1>3. cart' \in [Shoppers -> CartRow] /\ \A p \in Shoppers : Knows(cart[p])'
  BY <1>2, LeavesStep
<1>4. toggles' \in [Wares -> Int] /\ LikesAsAnswered'
  BY <1>2 DEF BasketInv, BasketShape, BasketSafety, LikesAsAnswered
<1>5. BasketShape' /\ BasketTypeOK' /\ BasketCovered'
  BY <1>2, <1>3, <1>4 DEF BasketInv, BasketShape, BasketSafety, BasketTypeOK, BasketCovered, CartRow,
     Listed
<1> QED BY <1>3, <1>4, <1>5 DEF BasketInv, BasketSafety

\* The seller edits the listing: what is in the baskets is dated
LEMMA EditWareStep ==
  ASSUME BasketInv, NEW w \in Wares, NEW stock \in Stocks, NEW price \in Prices,
         NEW status \in {"ACTIVE", "SUSPENDED"}, EditWare(w, stock, price, status)
  PROVE  BasketInv'
<1>1. /\ ware' = [ware EXCEPT ![w] = [status |-> status, stock |-> stock, price |-> price,
                                      edits |-> ware[w].edits + 1]]
      /\ dated' = dated \cup {w} /\ UNCHANGED <<hasBasket, item, likes, cart, toggles>>
  BY DEF EditWare
<1>2. /\ ware' \in [Wares -> WareRow] /\ \A v \in Wares \ {w} : ware'[v] = ware[v]
      /\ ware'[w].status = status
  BY <1>1 DEF BasketInv, BasketShape, WareRow
<1>3. BasketShape' /\ BasketTypeOK' /\ LikesAsAnswered'
  BY <1>1, <1>2 DEF BasketInv, BasketShape, BasketSafety, BasketTypeOK, LikesAsAnswered, Listed
<1>4. BasketCovered' /\ \A r \in Shoppers : Knows(cart[r])'
  BY <1>1, <1>2 DEF BasketInv, BasketSafety, BasketCovered, Knows
<1> QED BY <1>3, <1>4 DEF BasketInv, BasketSafety

\* ... or takes it away
LEMMA DeleteWareStep ==
  ASSUME BasketInv, NEW w \in Wares, DeleteWare(w)
  PROVE  BasketInv'
<1>1. /\ ware' = [ware EXCEPT ![w].status = "DELETED"] /\ item' = [item EXCEPT ![w] = NoItem]
      /\ likes' = likes \ {w} /\ toggles' = [toggles EXCEPT ![w] = 0]
      /\ UNCHANGED <<hasBasket, cart, dated>>
  BY DEF DeleteWare
<1>2. /\ ware' \in [Wares -> WareRow] /\ \A v \in Wares \ {w} : ware'[v] = ware[v]
      /\ ware'[w].stock = ware[w].stock /\ ware'[w].price = ware[w].price
  BY <1>1 DEF BasketInv, BasketShape, WareRow
<1>3. /\ item' \in [Wares -> ItemRow] /\ item'[w].kg = 0
      /\ \A v \in Wares \ {w} : item'[v] = item[v]
  BY <1>1, NoItemRow DEF BasketInv, BasketShape
<1>4. BasketShape' /\ BasketTypeOK' /\ LikesAsAnswered'
  BY <1>1, <1>2, <1>3 DEF BasketInv, BasketShape, BasketSafety, BasketTypeOK, LikesAsAnswered, Listed
<1>5. BasketCovered' /\ \A r \in Shoppers : Knows(cart[r])'
  BY <1>1, <1>2, <1>3 DEF BasketInv, BasketSafety, BasketCovered, Knows
<1> QED BY <1>4, <1>5 DEF BasketInv, BasketSafety

\* Each step preserves the invariant
LEMMA BasketNextInv == BasketInv /\ [BasketNext]_basketVars => BasketInv'
<1> SUFFICES ASSUME BasketInv, [BasketNext]_basketVars PROVE BasketInv'
  OBVIOUS
<1>1. ASSUME NEW w \in Wares, RemoveItem(w) PROVE BasketInv'
  <2>1. /\ item' \in [Wares -> ItemRow] /\ item'[w].kg = 0
        /\ \A v \in Wares \ {w} : item'[v] = item[v]
        /\ UNCHANGED <<ware, hasBasket, likes, cart, dated, toggles>>
    BY <1>1, NoItemRow DEF RemoveItem, BasketInv, BasketShape
  <2> QED BY <2>1 DEF BasketInv, BasketShape, BasketSafety, BasketTypeOK, BasketCovered,
                      LikesAsAnswered, Listed, Knows
<1>2. ASSUME NEW w \in Wares, Like(w) PROVE BasketInv'
  BY <1>2 DEF Like, BasketInv, BasketShape, BasketSafety, BasketTypeOK, BasketCovered,
     LikesAsAnswered, Listed, Knows
<1>3. OpenBasket => BasketInv'
  BY DEF OpenBasket, BasketInv, BasketShape, BasketSafety, BasketTypeOK, BasketCovered,
     LikesAsAnswered, Listed, Knows
<1>4. UNCHANGED basketVars => BasketInv'
  BY DEF basketVars, BasketInv, BasketShape, BasketSafety, BasketTypeOK, BasketCovered,
     LikesAsAnswered, Listed, Knows
<1>5. ASSUME NEW r \in Shoppers, RefuseItem(r) PROVE BasketInv'
  BY <1>5, DropStep DEF RefuseItem
<1> QED BY <1>1, <1>2, <1>3, <1>4, <1>5, BeginAddStep, BeginUnlikeStep, AddItemStep, UnlikeStep,
           EditWareStep, DeleteWareStep, Zenon DEF BasketNext

\* The invariant holds at first
LEMMA BasketInitInv == BasketInit => BasketInv
<1> SUFFICES ASSUME BasketInit PROVE BasketInv
  OBVIOUS
<1>1. ware \in [Wares -> WareRow] /\ \A w \in Wares : ware[w].status = "ACTIVE"
  BY DEF BasketInit, WareRow
<1> QED BY <1>1, NoItemRow, NoCartRow DEF BasketInit, BasketInv, BasketShape, BasketSafety,
        BasketTypeOK, BasketCovered, LikesAsAnswered, Listed, Knows

\* So it always holds
LEMMA BasketInvariance == BasketSpec => []BasketInv
  BY BasketInitInv, BasketNextInv, PTL DEF BasketSpec

-----------------------------------------------------------------------------
(***************************************************************************)
(* Defaults: one row is the default at most, and some row is one. The      *)
(* request that makes a default knows every other that it has to clear; it *)
(* does not when two such requests overlap, nor when a removal overlaps    *)
(* another request.                                                        *)
(***************************************************************************)

\* The shapes of a row and of a request
EntryRow == [there : BOOLEAN, active : BOOLEAN, default : BOOLEAN]
EditRow == [do : EditDos, of : Entries \cup {0}, default : BOOLEAN, clear : SUBSET Entries]

\* Types
EditShape ==
  /\ book \in {"address", "moyen"} /\ waived \in BOOLEAN /\ mixed \subseteq {"defaults", "removals"}
  /\ entry \in [Entries -> EntryRow] /\ edit \in [Edits -> EditRow]

\* A request is about rows that are there
AboutRows ==
  \A h \in Edits :
    /\ edit[h].do \in {"update", "remove"} => edit[h].of \in Made
    /\ edit[h].do = "create" => edit[h].of = 0
    /\ edit[h].do = "idle" => ~edit[h].default
    /\ edit[h].clear \subseteq Made /\ (edit[h].default \/ edit[h].clear = {})

\* Nothing is under way beside a removal
RemovesAlone ==
  "removals" \notin mixed =>
    \A g, h \in Edits : edit[g].do = "remove" /\ edit[h].do # "idle" => g = h

\* The default address is active, and so is one about to become it
DefaultIsActive ==
  book = "address" /\ "removals" \notin mixed =>
    /\ DefaultRows \subseteq ActiveRows
    /\ \A h \in Edits : edit[h].do = "update" => edit[h].of \in ActiveRows

\* One request makes a default, and knows every other one that it has to clear
MakesAlone ==
  "defaults" \notin mixed =>
    /\ \A d, e \in DefaultRows : d = e
    /\ \A g, h \in Edits : edit[g].default /\ edit[h].default => g = h
    /\ \A h \in Edits : edit[h].default =>
         DefaultRows \subseteq {edit[h].of} \cup (IF edit[h].do = "remove" THEN {} ELSE edit[h].clear)

\* What is created is the default or finds one, and what is removed is what it was
HandsOn ==
  book = "address" /\ ~waived /\ mixed = {} =>
    /\ ActiveRows # {} => DefaultRows # {}
    /\ \A h \in Edits :
         /\ edit[h].do = "create" /\ ~edit[h].default => DefaultRows # {}
         /\ edit[h].do = "update" => edit[h].default
         /\ edit[h].do = "remove" => (edit[h].default <=> edit[h].of \in DefaultRows)

\* The invariant
DefInv ==
  EditShape /\ AboutRows /\ RemovesAlone /\ DefaultIsActive /\ MakesAlone /\ HandsOn

-----------------------------------------------------------------------------

\* A set of numbers that is finite has a greatest one
LEMMA GreatestOne ==
  ASSUME NEW S, IsFiniteSet(S), S \subseteq Nat, S # {}
  PROVE  \E d \in S : \A o \in S : o <= d
<1> DEFINE Q == {T \in SUBSET S : T # {} => \E d \in T : \A o \in T : o <= d}
<1>1. {} \in Q
  OBVIOUS
<1>2. ASSUME NEW T \in Q, NEW x \in S \ T PROVE T \cup {x} \in Q
  <2>1. CASE T = {}
    BY <2>1
  <2>2. CASE T # {}
    <3>1. PICK d \in T : \A o \in T : o <= d
      BY <2>2
    <3>2. d \in Nat /\ x \in Nat /\ \A o \in T : o \in Nat
      OBVIOUS
    <3>3. CASE x <= d
      BY <3>1, <3>3
    <3>4. CASE d <= x
      BY <3>1, <3>2, <3>4
    <3> QED BY <3>2, <3>3, <3>4
  <2> QED BY <2>1, <2>2
<1> HIDE DEF Q
<1>3. S \in Q
  BY <1>1, <1>2, FiniteInduction
<1> QED BY <1>3 DEF Q

\* The sets of rows are sets of rows
LEMMA RowSets ==
  /\ ActiveRows \subseteq Made /\ DefaultRows \subseteq Made /\ Made \subseteq Entries
  /\ \A e : e \in Made <=> e \in Entries /\ entry[e].there
  /\ \A e : e \in ActiveRows <=> e \in Made /\ entry[e].active
  /\ \A e : e \in DefaultRows <=> e \in Made /\ entry[e].default
  BY DEF Made, ActiveRows, DefaultRows

\* A request at rest
LEMMA NoEditRow == NoEdit \in EditRow /\ NoEdit.do = "idle" /\ ~NoEdit.default /\ NoEdit.clear = {}
  BY DEF NoEdit, EditRow, EditDos

\* A row made the default or not, switched on or off, created
LEMMA DefaultField ==
  \A w \in EntryRow, b \in BOOLEAN : LET v == [w EXCEPT !.default = b] IN
    v \in EntryRow /\ v.there = w.there /\ v.active = w.active /\ v.default = b
  BY DEF EntryRow

LEMMA ActiveField ==
  \A w \in EntryRow, a \in BOOLEAN : LET v == [w EXCEPT !.active = a] IN
    v \in EntryRow /\ v.there = w.there /\ v.active = a /\ v.default = w.default
  BY DEF EntryRow

LEMMA NewEntry ==
  \A b \in BOOLEAN : LET v == [there |-> TRUE, active |-> TRUE, default |-> b] IN
    v \in EntryRow /\ v.there /\ v.active /\ v.default = b
  BY DEF EntryRow

\* A request is begun: what it is told of the rows is true, and it is not beside one that
\* it must not be beside
LEMMA BegunStep ==
  ASSUME DefInv, NEW h \in Edits, EditFree(h), NEW q \in EditRow, q.do # "idle",
         edit' = [edit EXCEPT ![h] = q], Mixes(q.do, q.default), UNCHANGED <<book, entry>>,
         waived' \in BOOLEAN, waived => waived', q.clear \subseteq Made,
         q.default \/ q.clear = {},
         q.do = "create" => q.of = 0,
         q.do \in {"update", "remove"} =>
           q.of \in Made /\ (book = "address" => q.of \in ActiveRows),
         q.do \in {"create", "update"} /\ q.default => DefaultRows \subseteq {q.of} \cup q.clear,
         q.do = "remove" => (q.default <=> q.of \in DefaultRows),
         q.do = "update" /\ ~q.default => waived',
         q.do = "create" /\ ~q.default /\ book = "address" => waived' \/ ActiveRows # {}
  PROVE  DefInv'
<1>1. /\ edit'[h] = q /\ \A g \in Edits \ {h} : edit'[g] = edit[g]
      /\ edit' \in [Edits -> EditRow]
  BY DEF DefInv, EditShape
<1>2. Made' = Made /\ ActiveRows' = ActiveRows /\ DefaultRows' = DefaultRows
  BY DEF Made, ActiveRows, DefaultRows
<1>3. edit[h].do = "idle" /\ ~edit[h].default
  BY DEF EditFree, DefInv, AboutRows
<1>4. /\ mixed \subseteq mixed' /\ mixed' \subseteq {"defaults", "removals"}
      /\ "defaults" \notin mixed' /\ q.default => \A g \in Edits : ~edit[g].default
      /\ "removals" \notin mixed' => \A g \in Edits : edit[g].do # "idle" =>
           q.do # "remove" /\ edit[g].do # "remove"
  <2>1. /\ mixed \subseteq mixed' /\ mixed' \subseteq {"defaults", "removals"}
        /\ "defaults" \notin mixed' /\ q.default => \A g \in Edits :
             edit[g].do # "idle" => ~edit[g].default
        /\ "removals" \notin mixed' => \A g \in Edits : edit[g].do # "idle" =>
             q.do # "remove" /\ edit[g].do # "remove"
    BY DEF Mixes, DefInv, EditShape
  <2> QED BY <2>1 DEF DefInv, AboutRows
<1>5. EditShape' /\ AboutRows'
  BY <1>1, <1>2, <1>4 DEF DefInv, EditShape, AboutRows
<1>6. RemovesAlone'
  BY <1>1, <1>3, <1>4 DEF DefInv, RemovesAlone
<1>7. DefaultIsActive'
  BY <1>1, <1>2, <1>4 DEF DefInv, DefaultIsActive
<1>8. MakesAlone'
  <2> SUFFICES ASSUME "defaults" \notin mixed'
               PROVE  /\ \A d, e \in DefaultRows : d = e
                      /\ \A f, g \in Edits : edit'[f].default /\ edit'[g].default => f = g
                      /\ \A g \in Edits : edit'[g].default =>
                           DefaultRows \subseteq {edit'[g].of} \cup
                             (IF edit'[g].do = "remove" THEN {} ELSE edit'[g].clear)
    BY <1>2 DEF MakesAlone
  <2>1. MakesAlone /\ "defaults" \notin mixed
    BY <1>4 DEF DefInv
  <2>2. \A d, e \in DefaultRows : d = e
    BY <2>1 DEF MakesAlone
  <2>3. \A f, g \in Edits : edit'[f].default /\ edit'[g].default => f = g
    BY <1>1, <1>4, <2>1 DEF MakesAlone
  <2>4. q.do \in {"create", "update", "remove"}
    BY DEF EditRow, EditDos
  <2>5. q.default => DefaultRows \subseteq {q.of} \cup (IF q.do = "remove" THEN {} ELSE q.clear)
    BY <2>2, <2>4
  <2>6. ASSUME NEW g \in Edits, edit'[g].default
        PROVE  DefaultRows \subseteq {edit'[g].of} \cup
                 (IF edit'[g].do = "remove" THEN {} ELSE edit'[g].clear)
    <3>1. CASE g = h
      BY <1>1, <2>5, <2>6, <3>1
    <3>2. CASE g # h
      BY <1>1, <2>1, <2>6, <3>2 DEF MakesAlone
    <3> QED BY <3>1, <3>2
  <2> QED BY <2>2, <2>3, <2>6
<1>9. HandsOn'
  <2> SUFFICES ASSUME book = "address", ~waived', mixed' = {}
               PROVE  /\ ActiveRows # {} => DefaultRows # {}
                      /\ \A g \in Edits :
                          /\ edit'[g].do = "create" /\ ~edit'[g].default => DefaultRows # {}
                          /\ edit'[g].do = "update" => edit'[g].default
                          /\ edit'[g].do = "remove" => (edit'[g].default <=> edit'[g].of \in DefaultRows)
    BY <1>2 DEF HandsOn
  <2>1. HandsOn /\ ~waived /\ mixed = {}
    BY <1>4 DEF DefInv
  <2> QED BY <1>1, <2>1 DEF HandsOn
<1> QED BY <1>5, <1>6, <1>7, <1>8, <1>9 DEF DefInv

\* A request that ends
LEMMA EditEndsStep ==
  ASSUME DefInv, NEW h \in Edits, EditEnds(h)
  PROVE  /\ edit'[h] = NoEdit /\ \A g \in Edits \ {h} : edit'[g] = edit[g]
         /\ edit' \in [Edits -> EditRow]
  BY NoEditRow DEF DefInv, EditShape, EditEnds

\* The rows after a creation or an update: e is there, the default or not, and the rows
\* to clear are not
LEMMA WriteStep ==
  ASSUME DefInv, NEW h \in Edits, NEW e \in Entries, edit[h].do \in {"create", "update"},
         EditEnds(h), UNCHANGED <<book, waived, mixed>>,
         entry' \in [Entries -> EntryRow],
         Made' = Made \cup {e},
         edit[h].do = "create" => ActiveRows' = ActiveRows \cup {e} /\ e \notin Made,
         edit[h].do = "update" => ActiveRows' = ActiveRows /\ e = edit[h].of,
         DefaultRows' = IF edit[h].default THEN (DefaultRows \ edit[h].clear) \cup {e}
                        ELSE (DefaultRows \ edit[h].clear) \ {e},
         edit[h].default \/ edit[h].clear = {}
  PROVE  DefInv'
<1>1. /\ edit'[h] = NoEdit /\ \A g \in Edits \ {h} : edit'[g] = edit[g]
      /\ edit' \in [Edits -> EditRow]
  BY EditEndsStep
<1>2. EditShape' /\ AboutRows'
  BY <1>1, NoEditRow DEF DefInv, EditShape, AboutRows
<1>3. RemovesAlone'
  BY <1>1, NoEditRow DEF DefInv, RemovesAlone
<1>4. DefaultIsActive'
  <2> SUFFICES ASSUME book = "address", "removals" \notin mixed
               PROVE  /\ DefaultRows' \subseteq ActiveRows'
                      /\ \A g \in Edits : edit'[g].do = "update" => edit'[g].of \in ActiveRows'
    BY DEF DefaultIsActive
  <2>1. DefaultRows \subseteq ActiveRows /\ \A g \in Edits : edit[g].do = "update" => edit[g].of \in ActiveRows
    BY DEF DefInv, DefaultIsActive
  <2>2. ActiveRows \subseteq ActiveRows' /\ e \in ActiveRows'
    BY <2>1
  <2> QED BY <1>1, <2>1, <2>2, NoEditRow
<1>5. MakesAlone'
  <2> SUFFICES ASSUME "defaults" \notin mixed PROVE MakesAlone'
    BY DEF MakesAlone
  <2>1. MakesAlone
    BY DEF DefInv
  <2>2. \A g \in Edits : edit'[g].default => g # h /\ edit'[g] = edit[g]
    BY <1>1, NoEditRow
  <2>3. CASE edit[h].default
    <3>1. DefaultRows \subseteq {edit[h].of} \cup edit[h].clear
      BY <2>1, <2>3 DEF MakesAlone
    <3>2. edit[h].of = 0 \/ edit[h].of = e
      BY DEF DefInv, AboutRows
    <3>3. 0 \notin DefaultRows
      BY RowSets, DefaultsAssumption
    <3>4. DefaultRows' = {e}
      BY <2>3, <3>1, <3>2, <3>3
    <3>5. \A g \in Edits : ~edit'[g].default
      BY <2>1, <2>2, <2>3 DEF MakesAlone
    <3> QED BY <3>4, <3>5 DEF MakesAlone
  <2>4. CASE ~edit[h].default
    <3>1. DefaultRows' \subseteq DefaultRows
      BY <2>4
    <3> QED BY <2>1, <2>2, <3>1 DEF MakesAlone
  <2> QED BY <2>3, <2>4
<1>6. HandsOn'
  <2> SUFFICES ASSUME book = "address", ~waived, mixed = {} PROVE HandsOn'
    BY DEF HandsOn
  <2>1. HandsOn
    BY DEF DefInv
  <2>2. DefaultRows' # {}
    <3>1. CASE edit[h].default
      BY <3>1
    <3>2. CASE ~edit[h].default
      <4>1. edit[h].do = "create" /\ DefaultRows # {} /\ edit[h].clear = {}
        BY <2>1, <3>2 DEF HandsOn
      <4>2. e \notin DefaultRows
        BY <4>1, RowSets
      <4> QED BY <3>2, <4>1, <4>2
    <3> QED BY <3>1, <3>2
  <2>3. \A g \in Edits : edit'[g].do # "remove"
    BY <1>1, NoEditRow DEF DefInv, RemovesAlone
  <2>4. \A g \in Edits : edit'[g].do = "update" => edit'[g].default
    BY <1>1, <2>1, NoEditRow DEF HandsOn
  <2> QED BY <2>2, <2>3, <2>4 DEF HandsOn
<1> QED BY <1>2, <1>3, <1>4, <1>5, <1>6 DEF DefInv

\* The rows that a request clears are not the default
Clearing(e, C) ==
  \A d \in Entries : d # e => entry'[d] =
    IF d \in C THEN [entry[d] EXCEPT !.default = FALSE] ELSE entry[d]

\* ... and otherwise what they were
Cleared(e, C) ==
  \A d \in Entries : d # e =>
    /\ entry'[d] \in EntryRow
    /\ entry'[d].there = entry[d].there
    /\ entry'[d].active = entry[d].active
    /\ entry'[d].default <=> entry[d].default /\ d \notin C

\* Clearing clears
LEMMA ClearedRows ==
  ASSUME DefInv, NEW e \in Entries, NEW C, Clearing(e, C)
  PROVE  Cleared(e, C)
<1>1. \A d \in Entries : entry[d] \in EntryRow
  BY DEF DefInv, EditShape
<1> SUFFICES ASSUME NEW d \in Entries, d # e
             PROVE  /\ entry'[d] \in EntryRow
                    /\ entry'[d].there = entry[d].there
                    /\ entry'[d].active = entry[d].active
                    /\ entry'[d].default <=> entry[d].default /\ d \notin C
  BY DEF Cleared
<1>2. CASE d \in C
  <2>1. entry'[d] = [entry[d] EXCEPT !.default = FALSE]
    BY <1>2 DEF Clearing
  <2>2. FALSE \in BOOLEAN
    OBVIOUS
  <2>3. PICK w \in EntryRow : w = entry[d]
    BY <1>1
  <2>4. entry'[d] = [w EXCEPT !.default = FALSE]
    BY <2>1, <2>3
  <2>5. /\ entry'[d] \in EntryRow /\ entry'[d].there = w.there
        /\ entry'[d].active = w.active /\ entry'[d].default = FALSE
    BY <2>2, <2>4, DefaultField, Zenon
  <2> QED BY <1>2, <2>3, <2>5
<1>3. CASE d \notin C
  BY <1>1, <1>3 DEF Clearing
<1> QED BY <1>2, <1>3

\* A row is created, and the rows of its request cleared
LEMMA CreateEntryStep ==
  ASSUME DefInv, NEW h \in Edits, NEW e \in Entries, CommitCreate(h, e)
  PROVE  DefInv'
<1>1. PICK b \in BOOLEAN : b = edit[h].default
  BY DEF DefInv, EditShape, EditRow
<1>2. /\ edit[h].do = "create" /\ e \notin Made /\ EditEnds(h) /\ UNCHANGED <<book, waived, mixed>>
      /\ entry' = [d \in Entries |-> entry'[d]]
      /\ entry'[e] = [there |-> TRUE, active |-> TRUE, default |-> b]
      /\ \A d \in Entries : d # e => entry'[d] =
           IF d \in edit[h].clear THEN [entry[d] EXCEPT !.default = FALSE] ELSE entry[d]
  BY <1>1 DEF CommitCreate
<1>3. \A d \in Entries : d # e =>
        /\ entry'[d] \in EntryRow
        /\ entry'[d].there = entry[d].there
        /\ entry'[d].active = entry[d].active
        /\ entry'[d].default <=> entry[d].default /\ d \notin edit[h].clear
  <2>1. PICK C : C = edit[h].clear
    OBVIOUS
  <2>2. Clearing(e, C)
    BY <1>2, <2>1 DEF Clearing
  <2>3. Cleared(e, C)
    BY <2>2, ClearedRows, Zenon
  <2> QED BY <2>1, <2>3 DEF Cleared
<1>4. entry'[e] \in EntryRow /\ entry'[e].there /\ entry'[e].active /\ entry'[e].default = b
  BY <1>2, NewEntry, Zenon
<1>5. entry' \in [Entries -> EntryRow]
  BY <1>2, <1>3, <1>4
<1>6. Made' = Made \cup {e} /\ ActiveRows' = ActiveRows \cup {e}
  BY <1>2, <1>3, <1>4 DEF Made, ActiveRows
<1>7. DefaultRows' = IF b THEN (DefaultRows \ edit[h].clear) \cup {e}
                     ELSE (DefaultRows \ edit[h].clear) \ {e}
  BY <1>3, <1>4, <1>6 DEF Made, DefaultRows
<1>8. edit[h].default \/ edit[h].clear = {}
  BY DEF DefInv, AboutRows
<1> QED BY <1>1, <1>2, <1>5, <1>6, <1>7, <1>8, WriteStep

\* ... or updated
LEMMA UpdateEntryStep ==
  ASSUME DefInv, NEW h \in Edits, CommitUpdate(h)
  PROVE  DefInv'
<1>1. PICK e \in Entries : e = edit[h].of /\ e \in Made
  BY RowSets DEF CommitUpdate, DefInv, AboutRows
<1>2. PICK b \in BOOLEAN : b = edit[h].default
  BY DEF DefInv, EditShape, EditRow
<1>3. /\ edit[h].do = "update" /\ EditEnds(h) /\ UNCHANGED <<book, waived, mixed>>
      /\ entry' = [d \in Entries |-> entry'[d]]
      /\ entry'[e] = [entry[e] EXCEPT !.default = b]
      /\ \A d \in Entries : d # e => entry'[d] =
           IF d \in edit[h].clear THEN [entry[d] EXCEPT !.default = FALSE] ELSE entry[d]
  BY <1>1, <1>2 DEF CommitUpdate
<1>4. \A d \in Entries : d # e =>
        /\ entry'[d] \in EntryRow
        /\ entry'[d].there = entry[d].there
        /\ entry'[d].active = entry[d].active
        /\ entry'[d].default <=> entry[d].default /\ d \notin edit[h].clear
  <2>1. PICK C : C = edit[h].clear
    OBVIOUS
  <2>2. Clearing(e, C)
    BY <1>3, <2>1 DEF Clearing
  <2>3. Cleared(e, C)
    BY <2>2, ClearedRows, Zenon
  <2> QED BY <2>1, <2>3 DEF Cleared
<1>5. entry[e] \in EntryRow
  BY DEF DefInv, EditShape
<1>6. /\ entry'[e] \in EntryRow /\ entry'[e].there = entry[e].there
      /\ entry'[e].active = entry[e].active /\ entry'[e].default = b
  <2>1. PICK w \in EntryRow : w = entry[e]
    BY <1>5
  <2>2. entry'[e] = [w EXCEPT !.default = b] /\ b \in BOOLEAN
    BY <1>3, <2>1
  <2>3. /\ entry'[e] \in EntryRow /\ entry'[e].there = w.there
        /\ entry'[e].active = w.active /\ entry'[e].default = b
    BY <2>1, <2>2, DefaultField
  <2> QED BY <2>1, <2>3
<1>7. entry' \in [Entries -> EntryRow]
  BY <1>3, <1>4, <1>6
<1>8. Made' = Made \cup {e} /\ ActiveRows' = ActiveRows
  BY <1>1, <1>4, <1>6 DEF Made, ActiveRows
<1>9. DefaultRows' = IF b THEN (DefaultRows \ edit[h].clear) \cup {e}
                     ELSE (DefaultRows \ edit[h].clear) \ {e}
  BY <1>1, <1>4, <1>6, <1>8 DEF Made, DefaultRows
<1>10. edit[h].default \/ edit[h].clear = {}
  BY DEF DefInv, AboutRows
<1> QED BY <1>1, <1>2, <1>3, <1>7, <1>8, <1>9, <1>10, WriteStep

\* A removal hands the default on to the latest row that stays active
LEMMA RemoveEntryStep ==
  ASSUME DefInv, NEW h \in Edits, CommitRemove(h)
  PROVE  DefInv'
<1>1. PICK e \in Entries : e = edit[h].of /\ e \in Made
  BY RowSets DEF CommitRemove, DefInv, AboutRows
<1> DEFINE H == IF book = "address" /\ edit[h].default THEN Fallbacks(e) ELSE {}
<1> DEFINE N == {d \in H : d # e /\ \A o \in H : o <= d}
<1>2. /\ edit[h].do = "remove" /\ EditEnds(h) /\ UNCHANGED <<book, waived, mixed>>
      /\ entry' = [d \in Entries |-> entry'[d]]
      /\ entry'[e] = [entry[e] EXCEPT !.active = FALSE, !.default = FALSE]
      /\ \A d \in Entries : d # e => entry'[d] =
           IF d \in N THEN [entry[d] EXCEPT !.default = TRUE] ELSE entry[d]
  BY <1>1 DEF CommitRemove
<1>3. /\ N \subseteq ActiveRows \ {e} /\ \A c, d \in N : c = d
      /\ (book # "address" \/ ~edit[h].default) => N = {}
      /\ book = "address" /\ edit[h].default /\ ActiveRows \ {e} # {} => N # {}
  <2>1. H \subseteq ActiveRows \ {e} /\ H \subseteq Nat
    BY RowSets, DefaultsAssumption DEF Fallbacks
  <2>2. H # {} => \E d \in H : \A o \in H : o <= d
    <3>1. IsFiniteSet(H)
      BY <2>1, RowSets, DefaultsAssumption, FS_Subset
    <3> HIDE DEF H
    <3> QED BY <2>1, <3>1, GreatestOne
  <2>3. book = "address" /\ edit[h].default /\ ActiveRows \ {e} # {} => H # {}
    BY DEF Fallbacks
  <2> QED BY <2>1, <2>2, <2>3
<1> HIDE DEF H, N
<1>4. \A d \in Entries : entry[d] \in EntryRow
  BY DEF DefInv, EditShape
<1>5. \A d \in Entries : d # e =>
        /\ entry'[d] \in EntryRow
        /\ entry'[d].there = entry[d].there
        /\ entry'[d].active = entry[d].active
        /\ entry'[d].default <=> entry[d].default \/ d \in N
  <2> SUFFICES ASSUME NEW d \in Entries, d # e
               PROVE  /\ entry'[d] \in EntryRow
                      /\ entry'[d].there = entry[d].there
                      /\ entry'[d].active = entry[d].active
                      /\ entry'[d].default <=> entry[d].default \/ d \in N
    OBVIOUS
  <2>1. CASE d \in N
    <3>1. entry'[d] = [entry[d] EXCEPT !.default = TRUE]
      BY <1>2, <2>1
    <3>2. TRUE \in BOOLEAN
      OBVIOUS
    <3>3. /\ entry'[d] \in EntryRow /\ entry'[d].there = entry[d].there
          /\ entry'[d].active = entry[d].active /\ entry'[d].default = TRUE
      BY <1>4, <3>1, <3>2, DefaultField, Zenon
    <3> QED BY <2>1, <3>3
  <2>2. CASE d \notin N
    BY <1>2, <1>4, <2>2
  <2> QED BY <2>1, <2>2
<1>6. /\ entry'[e] \in EntryRow /\ entry'[e].there = entry[e].there
      /\ ~entry'[e].active /\ ~entry'[e].default
  <2> DEFINE w == [entry[e] EXCEPT !.active = FALSE]
  <2>1. FALSE \in BOOLEAN
    OBVIOUS
  <2>2. w \in EntryRow /\ w.there = entry[e].there /\ w.active = FALSE
    BY <1>4, <2>1, ActiveField, Zenon
  <2>3. entry'[e] = [w EXCEPT !.default = FALSE]
    BY <1>2
  <2> HIDE DEF w
  <2>4. /\ entry'[e] \in EntryRow /\ entry'[e].there = w.there
        /\ entry'[e].active = w.active /\ entry'[e].default = FALSE
    BY <2>1, <2>2, <2>3, DefaultField, Zenon
  <2> QED BY <2>2, <2>4
<1>7. entry' \in [Entries -> EntryRow]
  BY <1>2, <1>5, <1>6
<1>8. Made' = Made /\ ActiveRows' = ActiveRows \ {e} /\ DefaultRows' = (DefaultRows \ {e}) \cup N
  <2>1. Made' = Made
    BY <1>5, <1>6 DEF Made
  <2>2. ActiveRows' = ActiveRows \ {e}
    BY <1>5, <1>6, <2>1 DEF Made, ActiveRows
  <2>3. DefaultRows' = (DefaultRows \ {e}) \cup N
    BY <1>3, <1>5, <1>6, <2>1, RowSets DEF Made, DefaultRows
  <2> QED BY <2>1, <2>2, <2>3
<1>9. /\ edit'[h] = NoEdit /\ \A g \in Edits \ {h} : edit'[g] = edit[g]
      /\ edit' \in [Edits -> EditRow]
  BY <1>2, EditEndsStep
<1>10. EditShape' /\ AboutRows'
  BY <1>2, <1>7, <1>8, <1>9, NoEditRow DEF DefInv, EditShape, AboutRows
<1>11. RemovesAlone'
  BY <1>2, <1>9, NoEditRow DEF DefInv, RemovesAlone
<1>12. "removals" \notin mixed => \A g \in Edits : edit'[g].do = "idle"
  BY <1>2, <1>9, NoEditRow DEF DefInv, RemovesAlone
<1>13. DefaultIsActive'
  BY <1>2, <1>3, <1>8, <1>12 DEF DefInv, DefaultIsActive
<1>14. MakesAlone'
  <2> SUFFICES ASSUME "defaults" \notin mixed PROVE MakesAlone'
    BY <1>2 DEF MakesAlone
  <2>1. MakesAlone
    BY DEF DefInv
  <2>2. \A g \in Edits : edit'[g].default => g # h /\ edit'[g] = edit[g]
    BY <1>9, NoEditRow
  <2>3. CASE edit[h].default
    <3>1. DefaultRows \subseteq {e}
      BY <1>1, <1>2, <2>1, <2>3 DEF MakesAlone
    <3>2. DefaultRows' = N
      BY <1>3, <1>8, <3>1
    <3>3. \A g \in Edits : ~edit'[g].default
      BY <2>1, <2>2, <2>3 DEF MakesAlone
    <3> QED BY <1>3, <3>2, <3>3 DEF MakesAlone
  <2>4. CASE ~edit[h].default
    <3>1. DefaultRows' \subseteq DefaultRows
      BY <1>3, <1>8, <2>4
    <3> QED BY <2>1, <2>2, <3>1 DEF MakesAlone
  <2> QED BY <2>3, <2>4
<1>15. HandsOn'
  <2> SUFFICES ASSUME book = "address", ~waived, mixed = {} PROVE HandsOn'
    BY <1>2 DEF HandsOn
  <2>1. HandsOn
    BY DEF DefInv
  <2>2. \A g \in Edits : edit'[g].do = "idle"
    BY <1>12
  <2>3. ASSUME ActiveRows' # {} PROVE DefaultRows' # {}
    <3>1. CASE edit[h].default
      BY <1>3, <1>8, <2>3, <3>1
    <3>2. CASE ~edit[h].default
      <4>1. e \notin DefaultRows /\ DefaultRows # {}
        BY <1>1, <1>2, <1>8, <2>1, <2>3, <3>2 DEF HandsOn
      <4> QED BY <1>8, <4>1
    <3> QED BY <3>1, <3>2
  <2> QED BY <2>2, <2>3 DEF HandsOn
<1> QED BY <1>10, <1>11, <1>13, <1>14, <1>15 DEF DefInv

\* A payment method is switched on or off: of addresses nothing is said then
LEMMA SwitchStep ==
  ASSUME DefInv, NEW e \in Entries, NEW a \in BOOLEAN, SwitchMoyen(e, a)
  PROVE  DefInv'
<1>1. /\ book = "moyen" /\ UNCHANGED <<book, edit, waived, mixed>>
      /\ entry' = [entry EXCEPT ![e].active = a]
  BY DEF SwitchMoyen
<1>2. entry \in [Entries -> EntryRow]
  BY DEF DefInv, EditShape
<1>3. entry'[e] = [entry[e] EXCEPT !.active = a] /\ \A d \in Entries \ {e} : entry'[d] = entry[d]
  BY <1>1, <1>2
<1>4. /\ entry'[e] \in EntryRow /\ entry'[e].there = entry[e].there
      /\ entry'[e].default = entry[e].default
  <2>1. PICK w \in EntryRow : w = entry[e]
    BY <1>2
  <2>2. entry'[e] = [w EXCEPT !.active = a] /\ a \in BOOLEAN
    BY <1>3, <2>1
  <2>3. entry'[e] \in EntryRow /\ entry'[e].there = w.there /\ entry'[e].default = w.default
    BY <2>1, <2>2, ActiveField
  <2> QED BY <2>1, <2>3
<1>5. entry' \in [Entries -> EntryRow]
  BY <1>1, <1>2, <1>3, <1>4
<1>6. Made' = Made /\ DefaultRows' = DefaultRows
  <2>1. \A d \in Entries : entry'[d].there = entry[d].there /\ entry'[d].default = entry[d].default
    BY <1>3, <1>4
  <2> QED BY <2>1 DEF Made, DefaultRows
<1>7. EditShape' /\ AboutRows'
  BY <1>1, <1>5, <1>6 DEF DefInv, EditShape, AboutRows
<1>8. RemovesAlone' /\ MakesAlone'
  BY <1>1, <1>6 DEF DefInv, RemovesAlone, MakesAlone
<1>9. DefaultIsActive' /\ HandsOn'
  BY <1>1 DEF DefaultIsActive, HandsOn
<1> QED BY <1>7, <1>8, <1>9 DEF DefInv

\* What a request holds, once begun
LEMMA BegunRow ==
  ASSUME NEW do \in EditDos, NEW e \in Entries \cup {0}, NEW b \in BOOLEAN,
         NEW C \in SUBSET Entries
  PROVE  \E q \in EditRow : /\ q = [do |-> do, of |-> e, default |-> b, clear |-> C]
                            /\ q.do = do /\ q.of = e /\ q.default = b /\ q.clear = C
<1> DEFINE q == [do |-> do, of |-> e, default |-> b, clear |-> C]
<1>1. q \in EditRow
  BY DEF EditRow
<1>2. q.do = do /\ q.of = e /\ q.default = b /\ q.clear = C
  OBVIOUS
<1> QED BY <1>1, <1>2

\* What a creation, an update and a removal are told of the rows is true
LEMMA BeginsCreateStep ==
  ASSUME DefInv, NEW h \in Edits, NEW asked \in {"yes", "no", "unset"}, BeginCreate(h, asked)
  PROVE  DefInv'
<1>1. PICK b \in BOOLEAN : b = AsDefault(asked)
  BY DEF AsDefault
<1>2. PICK C \in SUBSET Entries : C = Clears(0, b)
  BY RowSets DEF Clears
<1>3. PICK q \in EditRow : /\ q = [do |-> "create", of |-> 0, default |-> b, clear |-> C]
                           /\ q.do = "create" /\ q.of = 0 /\ q.default = b /\ q.clear = C
  <2>1. "create" \in EditDos /\ 0 \in Entries \cup {0}
    BY DEF EditDos
  <2> QED BY <2>1, BegunRow
<1>4. /\ EditFree(h) /\ edit' = [edit EXCEPT ![h] = q] /\ Mixes(q.do, q.default)
      /\ UNCHANGED <<book, entry>>
  BY <1>1, <1>2, <1>3 DEF BeginCreate, Begun
<1>5. waived \in BOOLEAN
  BY DEF DefInv, EditShape
<1>6. waived' \in BOOLEAN /\ (waived => waived')
  BY <1>5 DEF BeginCreate
<1>7. q.clear \subseteq Made /\ (q.default \/ q.clear = {})
  BY <1>2, <1>3, RowSets DEF Clears
<1>8. q.default => DefaultRows \subseteq {q.of} \cup q.clear
  BY <1>2, <1>3 DEF Clears
<1>9. ~q.default /\ book = "address" => waived' \/ ActiveRows # {}
  BY <1>1, <1>3, <1>5 DEF AsDefault, BeginCreate
<1> QED BY <1>3, <1>4, <1>6, <1>7, <1>8, <1>9, BegunStep

LEMMA BeginsUpdateStep ==
  ASSUME DefInv, NEW h \in Edits, NEW e \in Entries, NEW b \in BOOLEAN, BeginUpdate(h, e, b)
  PROVE  DefInv'
<1>1. PICK C \in SUBSET Entries : C = Clears(e, b)
  BY RowSets DEF Clears
<1>2. PICK q \in EditRow : /\ q = [do |-> "update", of |-> e, default |-> b, clear |-> C]
                           /\ q.do = "update" /\ q.of = e /\ q.default = b /\ q.clear = C
  <2>1. "update" \in EditDos /\ e \in Entries \cup {0}
    BY DEF EditDos
  <2> QED BY <2>1, BegunRow
<1>3. /\ EditFree(h) /\ edit' = [edit EXCEPT ![h] = q] /\ Mixes(q.do, q.default)
      /\ UNCHANGED <<book, entry>> /\ e \in Made /\ (book = "address" => e \in ActiveRows)
  BY <1>1, <1>2 DEF BeginUpdate, Begun
<1>4. waived \in BOOLEAN
  BY DEF DefInv, EditShape
<1>5. waived' \in BOOLEAN /\ (waived => waived') /\ (~q.default => waived')
  BY <1>2, <1>4 DEF BeginUpdate, Waive
<1>6. q.clear \subseteq Made /\ (q.default \/ q.clear = {})
  BY <1>1, <1>2, RowSets DEF Clears
<1>7. q.default => DefaultRows \subseteq {q.of} \cup q.clear
  BY <1>1, <1>2 DEF Clears
<1> QED BY <1>2, <1>3, <1>5, <1>6, <1>7, BegunStep

LEMMA BeginsRemoveStep ==
  ASSUME DefInv, NEW h \in Edits, NEW e \in Entries, BeginRemove(h, e)
  PROVE  DefInv'
<1>1. PICK b \in BOOLEAN : b = entry[e].default
  BY DEF DefInv, EditShape, EntryRow
<1>2. PICK q \in EditRow : /\ q = [do |-> "remove", of |-> e, default |-> b, clear |-> {}]
                           /\ q.do = "remove" /\ q.of = e /\ q.default = b /\ q.clear = {}
  <2>1. "remove" \in EditDos /\ e \in Entries \cup {0}
    BY DEF EditDos
  <2>2. PICK C \in SUBSET Entries : C = {}
    OBVIOUS
  <2>3. \E q \in EditRow : /\ q = [do |-> "remove", of |-> e, default |-> b, clear |-> C]
                           /\ q.do = "remove" /\ q.of = e /\ q.default = b /\ q.clear = C
    BY <2>1, BegunRow
  <2> QED BY <2>2, <2>3
<1>3. /\ EditFree(h) /\ edit' = [edit EXCEPT ![h] = q] /\ Mixes(q.do, q.default)
      /\ UNCHANGED <<book, entry, waived>> /\ e \in Made
      /\ (book = "address" => e \in ActiveRows)
  BY <1>1, <1>2 DEF BeginRemove, Begun
<1>4. waived' \in BOOLEAN /\ (waived => waived')
  BY <1>3 DEF DefInv, EditShape
<1>5. q.default <=> q.of \in DefaultRows
  BY <1>1, <1>2, <1>3, RowSets
<1> QED BY <1>2, <1>3, <1>4, <1>5, BegunStep

\* Each step preserves the invariant
LEMMA DefNextInv == DefInv /\ [DefaultsNext]_defaultsVars => DefInv'
<1> SUFFICES ASSUME DefInv, [DefaultsNext]_defaultsVars PROVE DefInv'
  OBVIOUS
<1>1. CASE UNCHANGED defaultsVars
  <2>1. /\ UNCHANGED <<book, entry, edit, waived, mixed>>
        /\ Made' = Made /\ ActiveRows' = ActiveRows /\ DefaultRows' = DefaultRows
    BY <1>1 DEF defaultsVars, Made, ActiveRows, DefaultRows
  <2> QED BY <2>1 DEF DefInv, EditShape, AboutRows, RemovesAlone, DefaultIsActive, MakesAlone,
        HandsOn
<1>2. CASE DefaultsNext
  BY <1>2, BeginsCreateStep, CreateEntryStep, BeginsRemoveStep, BeginsUpdateStep, UpdateEntryStep,
     RemoveEntryStep, SwitchStep, Zenon DEF DefaultsNext
<1> QED BY <1>1, <1>2

\* The invariant holds at first
LEMMA DefInitInv == DefaultsInit => DefInv
<1> SUFFICES ASSUME DefaultsInit PROVE DefInv
  OBVIOUS
<1>1. Made = {} /\ ActiveRows = {} /\ DefaultRows = {}
  BY DEF DefaultsInit, Made, ActiveRows, DefaultRows, NoEntry
<1>2. NoEntry \in EntryRow
  BY DEF NoEntry, EntryRow
<1>3. \A h \in Edits : edit[h] = NoEdit
  BY DEF DefaultsInit
<1>4. EditShape
  BY <1>2, NoEditRow DEF EditShape, DefaultsInit
<1>5. AboutRows /\ RemovesAlone
  BY <1>3, NoEditRow DEF AboutRows, RemovesAlone
<1>6. DefaultIsActive /\ MakesAlone /\ HandsOn
  BY <1>1, <1>3, NoEditRow DEF DefaultIsActive, MakesAlone, HandsOn
<1> QED BY <1>4, <1>5, <1>6 DEF DefInv

\* So it always holds
LEMMA DefInvariance == DefaultsSpec => []DefInv
  BY DefInitInv, DefNextInv, PTL DEF DefaultsSpec

\* What DefaultsSafety says follows
LEMMA DefInvImplies == DefInv => DefaultsSafety
<1> SUFFICES ASSUME DefInv PROVE DefaultsSafety
  OBVIOUS
<1>1. DefaultsTypeOK
  BY DEF DefInv, EditShape, AboutRows, DefaultIsActive, DefaultsTypeOK, EntryRow, EditRow
<1>2. SomeDefault
  BY DEF DefInv, HandsOn, SomeDefault
<1>3. ASSUME "defaults" \notin mixed PROVE Cardinality(DefaultRows) <= 1
  <2>1. \A c, d \in DefaultRows : c = d
    BY <1>3 DEF DefInv, MakesAlone
  <2>2. CASE DefaultRows = {}
    BY <2>2, FS_EmptySet
  <2>3. CASE DefaultRows # {}
    <3>1. PICK c : DefaultRows = {c}
      BY <2>1, <2>3
    <3>2. Cardinality({c}) = 1
      BY FS_Singleton
    <3> QED BY <3>1, <3>2
  <2> QED BY <2>2, <2>3
<1> QED BY <1>1, <1>2, <1>3 DEF DefaultsSafety, OneDefault

-----------------------------------------------------------------------------
(***************************************************************************)
(* Parcels: the crops of a parcel fit in it. A request that sows has       *)
(* summed what stands there, and nobody else is sowing, or the parcel is   *)
(* crowded.                                                                *)
(***************************************************************************)

\* The shapes of a parcel, a crop and a request
ParcelRow == [name : Names \cup {"none"}, area : Areas \cup {0}, fresh : BOOLEAN]
CropRow == [of : Parcels \cup {0}, area : Beds \cup {0}]
ErrandRow == [do : {"idle", "parcel", "crop", "exam"}, of : Parcels \cup {0},
              name : Names \cup {"none"}, area : Areas \cup Beds \cup {0}]

\* Types, and what a request is about
FieldRows ==
  /\ parcel \in [Parcels -> ParcelRow] /\ crop \in [Crops -> CropRow]
  /\ errand \in [Growers -> ErrandRow]
  /\ \A r \in Growers :
       /\ errand[r].do = "parcel" => errand[r].name \in Names /\ errand[r].area \in Areas
       /\ errand[r].do \in {"crop", "exam"} => errand[r].of \in Parcels
       /\ errand[r].do = "crop" => errand[r].area \in Beds

\* A request about to sow on that parcel
Sows(r, p) == errand[r].do = "crop" /\ errand[r].of = p

\* One request at a time sows on a parcel, and its crop fits beside the others
SownAlone ==
  \A p \in ParcelsMade \ crowded : \A r, q \in Growers : Sows(r, p) /\ Sows(q, p) => r = q

RoomKept ==
  \A p \in ParcelsMade \ crowded : \A r \in Growers :
    Sows(r, p) => Sown(p) + errand[r].area <= parcel[p].area

\* Of the parcel to come none was made in the minute
TwinAway ==
  \A r \in Growers : \A p \in ParcelsMade \ blurred :
    errand[r].do = "parcel" /\ parcel[p].fresh => parcel[p].name # errand[r].name

\* The invariant
FieldsInv == FieldRows /\ FieldsSafety /\ SownAlone /\ RoomKept /\ TwinAway

-----------------------------------------------------------------------------

\* A request at rest
LEMMA NoErrandRow == NoErrand \in ErrandRow /\ NoErrand.do = "idle"
  BY DEF NoErrand, ErrandRow

\* Areas are numbers
LEMMA AreasCounted == /\ \A x \in Areas \cup {0} : x \in Nat
                      /\ \A x \in Beds \cup {0} : x \in Nat
<1>1. \A x \in Areas \cup {0} : x \in Nat
  BY FieldsAssumption
<1>2. \A x \in Beds \cup {0} : x \in Nat
  BY FieldsAssumption
<1> QED BY <1>1, <1>2

\* A parcel is made when it has a name
LEMMA MadeIs == \A p : p \in ParcelsMade <=> p \in Parcels /\ parcel[p].name # "none"
  BY DEF ParcelsMade

\* What is sown on a parcel is a number, of finitely many crops
LEMMA SownNat ==
  ASSUME FieldRows, NEW p
  PROVE  /\ Sown(p) \in Nat /\ CropsOf(p) \subseteq Crops /\ IsFiniteSet(CropsOf(p))
         /\ \A c \in Crops : crop[c].area \in Nat
<1>1. CropsOf(p) \subseteq Crops /\ IsFiniteSet(CropsOf(p))
  <2>1. CropsOf(p) \in SUBSET Crops
    BY DEF CropsOf
  <2> QED BY <2>1, FS_Subset, FieldsAssumption
<1>2. \A c \in Crops : crop[c].area \in Nat
  <2>1. \A c \in Crops : crop[c].area \in Beds \cup {0}
    BY DEF FieldRows, CropRow
  <2> QED BY <2>1, AreasCounted
<1> DEFINE f == [c \in Crops |-> crop[c].area]
<1>3. \A c \in CropsOf(p) : f[c] \in Nat
  BY <1>1, <1>2
<1> HIDE DEF f
<1>4. SumFunctionOnSet(f, CropsOf(p)) \in Nat
  BY <1>1, <1>3, SumNat
<1> QED BY <1>1, <1>2, <1>4 DEF Sown, f

\* Where nothing is sown no more stands than before
LEMMA SownDrops ==
  ASSUME FieldRows, FieldRows', NEW p,
         \A c \in Crops : crop'[c].of = p => crop'[c] = crop[c]
  PROVE  Sown(p)' <= Sown(p) /\ Sown(p) \in Nat /\ Sown(p)' \in Nat
<1> DEFINE f == [c \in Crops |-> crop[c].area]
           g == [c \in Crops |-> crop'[c].area]
           S == CropsOf(p)
           R == {c \in Crops : crop'[c].of = p}
<1>1. R \in SUBSET S /\ S \subseteq Crops
  BY DEF CropsOf
<1>2. IsFiniteSet(S) /\ IsFiniteSet(R)
  BY <1>1, SownNat, FS_Subset
<1>3. (\A c \in S : f[c] \in Nat) /\ (\A c \in R : f[c] \in Int /\ f[c] = g[c])
  BY <1>1, SownNat
<1>4. Sown(p) = SumFunctionOnSet(f, S) /\ Sown(p)' = SumFunctionOnSet(g, R)
  BY DEF Sown, CropsOf
<1> HIDE DEF f, g, S, R
<1>5. SumFunctionOnSet(f, R) <= SumFunctionOnSet(f, S)
  BY <1>1, <1>2, <1>3, SumPart
<1>6. SumFunctionOnSet(f, R) = SumFunctionOnSet(g, R)
  <2>1. Ints(f, R)
    BY <1>3 DEF Ints
  <2> QED BY <1>2, <1>3, <2>1, SumEqual
<1>7. Sown(p) \in Nat
  BY SownNat
<1>8. Sown(p)' \in Nat
  <2>1. \A c \in R : g[c] \in Nat
    BY <1>1, <1>3
  <2> QED BY <1>2, <1>4, <2>1, SumNat
<1> QED BY <1>4, <1>5, <1>6, <1>7, <1>8

\* A crop is added to what stands
LEMMA SownAdds ==
  ASSUME FieldRows, FieldRows', NEW p, NEW c \in Crops, crop[c].of # p, crop'[c].of = p,
         \A d \in Crops \ {c} : crop'[d] = crop[d]
  PROVE  Sown(p)' = Sown(p) + crop'[c].area
<1> DEFINE f == [d \in Crops |-> crop[d].area]
           g == [d \in Crops |-> crop'[d].area]
           S == CropsOf(p)
<1>1. S \subseteq Crops /\ c \notin S /\ IsFiniteSet(S)
  BY SownNat DEF CropsOf
<1>2. {d \in Crops : crop'[d].of = p} = S \cup {c}
  BY DEF CropsOf
<1>3. Sown(p) = SumFunctionOnSet(f, S) /\ Sown(p)' = SumFunctionOnSet(g, S \cup {c})
  BY <1>2 DEF Sown, CropsOf
<1>4. \A d \in S : f[d] = g[d] /\ f[d] \in Int
  BY <1>1, SownNat
<1>5. g[c] = crop'[c].area /\ g[c] \in Int
  <2>1. crop'[c].area \in Beds \cup {0}
    BY DEF FieldRows, CropRow
  <2> QED BY <2>1, AreasCounted
<1> HIDE DEF f, g, S
<1>6. Ints(g, S \cup {c}) /\ Ints(f, S)
  BY <1>4, <1>5 DEF Ints
<1>7. SumFunctionOnSet(g, S \cup {c}) = g[c] + SumFunctionOnSet(g, S)
  BY <1>1, <1>6, SumAdd
<1>8. SumFunctionOnSet(f, S) = SumFunctionOnSet(g, S) /\ SumFunctionOnSet(f, S) \in Int
  BY <1>1, <1>4, <1>6, SumEqual, SumType
<1> QED BY <1>3, <1>5, <1>7, <1>8

\* A step that sows nothing and shrinks no parcel
NothingSown ==
  /\ \A p \in (ParcelsMade' \ crowded') :
       /\ p \in ParcelsMade \ crowded /\ parcel'[p].area >= parcel[p].area
       /\ \A c \in Crops : crop'[c].of = p => crop'[c] = crop[c]
  /\ \A r \in Growers : errand'[r].do = "crop" => errand'[r] = errand[r]

\* ... keeps the crops within their parcels
LEMMA RoomStays ==
  ASSUME FieldsInv, FieldRows', NothingSown
  PROVE  AreaRespected' /\ SownAlone' /\ RoomKept'
<1> SUFFICES ASSUME NEW p \in (ParcelsMade' \ crowded')
             PROVE  /\ Sown(p)' <= parcel'[p].area
                    /\ \A r, q \in Growers : Sows(r, p)' /\ Sows(q, p)' => r = q
                    /\ \A r \in Growers : Sows(r, p)' => Sown(p)' + errand'[r].area <= parcel'[p].area
  BY DEF AreaRespected, SownAlone, RoomKept
<1>1. p \in ParcelsMade \ crowded /\ parcel'[p].area >= parcel[p].area /\ p \in Parcels
  BY MadeIs DEF NothingSown
<1>2. Sown(p)' <= Sown(p) /\ Sown(p) \in Nat /\ Sown(p)' \in Nat
  BY SownDrops DEF NothingSown, FieldsInv
<1>3. parcel[p].area \in Nat /\ parcel'[p].area \in Nat
  <2>1. parcel[p].area \in Areas \cup {0} /\ parcel'[p].area \in Areas \cup {0}
    BY <1>1 DEF FieldsInv, FieldRows, ParcelRow
  <2> QED BY <2>1, AreasCounted
<1>4. \A r \in Growers : Sows(r, p)' => Sows(r, p) /\ errand'[r] = errand[r]
  BY DEF NothingSown, Sows
<1>5. Sown(p)' <= parcel'[p].area
  BY <1>1, <1>2, <1>3 DEF FieldsInv, FieldsSafety, AreaRespected
<1>6. \A r, q \in Growers : Sows(r, p)' /\ Sows(q, p)' => r = q
  BY <1>1, <1>4 DEF FieldsInv, SownAlone
<1>7. ASSUME NEW r \in Growers, Sows(r, p)' PROVE Sown(p)' + errand'[r].area <= parcel'[p].area
  <2>1. Sown(p) + errand[r].area <= parcel[p].area /\ errand'[r].area = errand[r].area
    BY <1>1, <1>4, <1>7 DEF FieldsInv, RoomKept
  <2>2. errand[r].area \in Nat
    <3>1. errand[r].area \in Beds
      BY <1>4, <1>7 DEF FieldsInv, FieldRows, Sows
    <3> QED BY <3>1, AreasCounted
  <2> QED BY <1>1, <1>2, <1>3, <2>1, <2>2
<1> QED BY <1>5, <1>6, <1>7

\* A step that makes no parcel and names none
NothingNamed ==
  /\ \A p \in (ParcelsMade' \ blurred') : parcel'[p].fresh =>
       p \in ParcelsMade \ blurred /\ parcel[p].fresh /\ parcel'[p].name = parcel[p].name
  /\ \A r \in Growers : errand'[r].do = "parcel" => errand'[r] = errand[r]

\* ... makes no twin
LEMMA TwinsStay ==
  ASSUME FieldsInv, NothingNamed
  PROVE  NoTwin' /\ TwinAway'
<1>1. NoTwin'
  BY DEF NothingNamed, FieldsInv, FieldsSafety, NoTwin
<1>2. TwinAway'
  BY DEF NothingNamed, FieldsInv, TwinAway
<1> QED BY <1>1, <1>2

\* A parcel is begun: none of that name was made within the minute
LEMMA BeginParcelStep ==
  ASSUME FieldsInv, NEW r \in Growers, NEW n \in Names, NEW a \in Areas, BeginParcel(r, n, a)
  PROVE  FieldsInv'
<1>1. /\ UNCHANGED <<parcel, crop, examined, blurred, crowded>> /\ ~Recent(n)
      /\ errand' = [errand EXCEPT ![r] = [do |-> "parcel", of |-> 0, name |-> n, area |-> a]]
  BY DEF BeginParcel, Sets
<1>2. [do |-> "parcel", of |-> 0, name |-> n, area |-> a] \in ErrandRow
  BY DEF ErrandRow
<1>3. FieldRows'
  BY <1>1, <1>2 DEF FieldsInv, FieldRows
<1>4. /\ errand'[r].do = "parcel" /\ errand'[r].name = n
      /\ \A q \in Growers \ {r} : errand'[q] = errand[q]
  BY <1>1 DEF FieldsInv, FieldRows
<1>5. ParcelsMade' = ParcelsMade
  BY <1>1 DEF ParcelsMade
<1>6. FieldsTypeOK'
  BY <1>1, <1>3, <1>4, <1>5 DEF FieldsInv, FieldsSafety, FieldsTypeOK
<1>7. NothingSown
  <2>1. \A p \in Parcels : parcel[p].area \in Nat
    <3>1. \A p \in Parcels : parcel[p].area \in Areas \cup {0}
      BY DEF FieldsInv, FieldRows, ParcelRow
    <3> QED BY <3>1, AreasCounted
  <2> QED BY <1>1, <1>4, <1>5, <2>1, MadeIs DEF NothingSown
<1>8. NoTwin'
  BY <1>1, <1>5 DEF FieldsInv, FieldsSafety, NoTwin
<1>9. TwinAway'
  <2>1. \A p \in ParcelsMade : parcel[p].fresh => parcel[p].name # n
    BY <1>1 DEF Recent
  <2> QED BY <1>1, <1>4, <1>5, <2>1 DEF FieldsInv, TwinAway
<1> QED BY <1>3, <1>6, <1>7, <1>8, <1>9, RoomStays DEF FieldsInv, FieldsSafety

\* A request that ends
LEMMA FinishesStep ==
  ASSUME FieldRows, NEW r \in Growers, Finishes(r)
  PROVE  /\ errand'[r].do = "idle" /\ \A q \in Growers \ {r} : errand'[q] = errand[q]
         /\ errand' \in [Growers -> ErrandRow]
  BY NoErrandRow DEF FieldRows, Finishes

\* The parcel that comes has no crop yet, and none in flight
LEMMA InsertParcelStep ==
  ASSUME FieldsInv, NEW r \in Growers, NEW p \in Parcels, InsertParcel(r, p)
  PROVE  FieldsInv'
<1>1. PICK n \in Names : n = errand[r].name
  BY DEF InsertParcel, FieldsInv, FieldRows
<1>2. PICK a \in Areas : a = errand[r].area
  BY DEF InsertParcel, FieldsInv, FieldRows
<1>3. /\ errand[r].do = "parcel" /\ p \notin ParcelsMade /\ \A q \in Growers : errand[q].of # p
      /\ parcel' = [parcel EXCEPT ![p] = [name |-> n, area |-> a, fresh |-> TRUE]]
      /\ blurred' = IF \E q \in Growers \ {r} : errand[q].do = "parcel" /\ errand[q].name = n
                    THEN blurred \cup {p} ELSE blurred
      /\ Finishes(r) /\ UNCHANGED <<crop, examined, crowded>>
  BY <1>1, <1>2 DEF InsertParcel
<1>4. PICK w \in ParcelRow : /\ w = [name |-> n, area |-> a, fresh |-> TRUE]
                             /\ w.name = n /\ w.area = a /\ w.fresh
  <2> DEFINE w == [name |-> n, area |-> a, fresh |-> TRUE]
  <2>1. w \in ParcelRow
    BY DEF ParcelRow
  <2>2. w.name = n /\ w.area = a /\ w.fresh
    OBVIOUS
  <2> QED BY <2>1, <2>2
<1>5. /\ parcel' \in [Parcels -> ParcelRow] /\ parcel'[p] = w
      /\ \A q \in Parcels \ {p} : parcel'[q] = parcel[q]
  BY <1>3, <1>4 DEF FieldsInv, FieldRows
<1>6. /\ errand'[r].do = "idle" /\ \A q \in Growers \ {r} : errand'[q] = errand[q]
      /\ errand' \in [Growers -> ErrandRow]
  BY <1>3, FinishesStep DEF FieldsInv
<1>7. FieldRows'
  BY <1>3, <1>5, <1>6 DEF FieldsInv, FieldRows
<1>8. ParcelsMade' = ParcelsMade \cup {p}
  BY <1>4, <1>5, FieldsAssumption DEF ParcelsMade
<1>9. FieldsTypeOK'
  BY <1>3, <1>5, <1>6, <1>7, <1>8
     DEF FieldsInv, FieldsSafety, FieldsTypeOK, FieldRows, ParcelRow
<1>10. \A c \in Crops : crop[c].of # p
  BY <1>3, FieldsAssumption DEF FieldsInv, FieldsSafety, FieldsTypeOK
<1>11. Sown(p)' = 0
  <2>1. {c \in Crops : crop'[c].of = p} = {}
    BY <1>3, <1>10
  <2> QED BY <2>1, SumEmpty DEF Sown, CropsOf
<1>12. \A q : Sown(q)' = Sown(q)
  BY <1>3 DEF Sown, CropsOf
<1>13. \A o : \A q \in Growers : Sows(q, o)' => Sows(q, o) /\ o # p /\ errand'[q] = errand[q]
  BY <1>3, <1>6 DEF Sows
<1>14. AreaRespected' /\ SownAlone' /\ RoomKept'
  <2> SUFFICES ASSUME NEW o \in (ParcelsMade' \ crowded')
               PROVE  /\ Sown(o)' <= parcel'[o].area
                      /\ \A q, s \in Growers : Sows(q, o)' /\ Sows(s, o)' => q = s
                      /\ \A q \in Growers : Sows(q, o)' => Sown(o)' + errand'[q].area <= parcel'[o].area
    BY DEF AreaRespected, SownAlone, RoomKept
  <2>1. CASE o = p
    <3>1. a >= 0
      BY AreasCounted
    <3> QED BY <1>4, <1>5, <1>11, <1>13, <2>1, <3>1
  <2>2. CASE o # p
    <3>1. o \in ParcelsMade \ crowded /\ parcel'[o] = parcel[o]
      BY <1>3, <1>5, <1>8, <2>2, MadeIs
    <3>2. /\ Sown(o) <= parcel[o].area
          /\ \A q, s \in Growers : Sows(q, o) /\ Sows(s, o) => q = s
          /\ \A q \in Growers : Sows(q, o) => Sown(o) + errand[q].area <= parcel[o].area
      BY <3>1 DEF FieldsInv, FieldsSafety, AreaRespected, SownAlone, RoomKept
    <3> QED BY <1>12, <1>13, <3>1, <3>2
  <2> QED BY <2>1, <2>2
<1>15. NoTwin'
  <2> SUFFICES ASSUME NEW o \in (ParcelsMade' \ blurred'), NEW q \in (ParcelsMade' \ blurred'),
                      parcel'[o].fresh, parcel'[q].fresh, parcel'[o].name = parcel'[q].name,
                      o # q
               PROVE  FALSE
    BY DEF NoTwin
  <2>1. \A s \in ParcelsMade \ blurred : parcel[s].fresh => parcel[s].name # n
    BY <1>1, <1>3 DEF FieldsInv, TwinAway
  <2>2. blurred \subseteq blurred'
    BY <1>3
  <2>3. \A s \in (ParcelsMade' \ blurred') : s # p =>
          s \in ParcelsMade \ blurred /\ parcel'[s] = parcel[s]
    BY <1>5, <1>8, <2>2, MadeIs
  <2>4. CASE o = p
    BY <1>4, <1>5, <2>1, <2>3, <2>4
  <2>5. CASE q = p
    BY <1>4, <1>5, <2>1, <2>3, <2>5
  <2>6. CASE o # p /\ q # p
    <3>1. /\ o \in ParcelsMade \ blurred /\ q \in ParcelsMade \ blurred
          /\ parcel[o].fresh /\ parcel[q].fresh /\ parcel[o].name = parcel[q].name
      BY <2>3, <2>6
    <3> QED BY <3>1 DEF FieldsInv, FieldsSafety, NoTwin
  <2> QED BY <2>4, <2>5, <2>6
<1>16. TwinAway'
  <2> SUFFICES ASSUME NEW q \in Growers, NEW o \in (ParcelsMade' \ blurred'),
                      errand'[q].do = "parcel", parcel'[o].fresh, parcel'[o].name = errand'[q].name
               PROVE  FALSE
    BY DEF TwinAway
  <2>1. q # r /\ errand'[q] = errand[q]
    BY <1>6
  <2>2. CASE o = p
    BY <1>3, <1>4, <1>5, <2>1, <2>2
  <2>3. CASE o # p
    <3>1. o \in ParcelsMade \ blurred /\ parcel'[o] = parcel[o]
      BY <1>3, <1>5, <1>8, <2>3, MadeIs
    <3> QED BY <2>1, <3>1 DEF FieldsInv, TwinAway
  <2> QED BY <2>2, <2>3
<1> QED BY <1>7, <1>9, <1>14, <1>15, <1>16 DEF FieldsInv, FieldsSafety

\* The area of a parcel is a number
LEMMA AreaIs ==
  ASSUME FieldRows
  PROVE  \A p \in Parcels : parcel[p] \in ParcelRow /\ parcel[p].area \in Nat
<1>1. \A p \in Parcels : parcel[p] \in ParcelRow /\ parcel[p].area \in Areas \cup {0}
  BY DEF FieldRows, ParcelRow
<1> QED BY <1>1, AreasCounted

\* The minute passes
LEMMA MaturesStep ==
  ASSUME FieldsInv, NEW p \in Parcels, Matures(p)
  PROVE  FieldsInv'
<1>1. /\ p \in ParcelsMade /\ parcel' = [parcel EXCEPT ![p].fresh = FALSE]
      /\ UNCHANGED <<crop, examined, errand, blurred, crowded>>
  BY DEF Matures
<1>2. parcel \in [Parcels -> ParcelRow] /\ FieldRows
  BY DEF FieldsInv, FieldRows
<1>3. \A w \in ParcelRow : LET v == [w EXCEPT !.fresh = FALSE] IN
        v \in ParcelRow /\ v.name = w.name /\ v.area = w.area /\ ~v.fresh
  BY DEF ParcelRow
<1>4. parcel'[p] = [parcel[p] EXCEPT !.fresh = FALSE] /\ \A q \in Parcels \ {p} : parcel'[q] = parcel[q]
  BY <1>1, <1>2
<1>5. /\ parcel'[p] \in ParcelRow /\ parcel'[p].name = parcel[p].name
      /\ parcel'[p].area = parcel[p].area /\ ~parcel'[p].fresh
  <2>1. PICK w \in ParcelRow : w = parcel[p]
    BY <1>2
  <2>2. parcel'[p] = [w EXCEPT !.fresh = FALSE]
    BY <1>4, <2>1
  <2>3. /\ parcel'[p] \in ParcelRow /\ parcel'[p].name = w.name /\ parcel'[p].area = w.area
        /\ ~parcel'[p].fresh
    BY <1>3, <2>1, <2>2
  <2> QED BY <2>1, <2>3
<1>6. FieldRows'
  BY <1>1, <1>2, <1>4, <1>5 DEF FieldRows
<1>7. ParcelsMade' = ParcelsMade
  BY <1>4, <1>5 DEF ParcelsMade
<1>8. FieldsTypeOK'
  BY <1>1, <1>6, <1>7 DEF FieldsInv, FieldsSafety, FieldsTypeOK, FieldRows, ParcelRow
<1>9. NothingSown
  BY <1>1, <1>2, <1>4, <1>5, <1>7, MadeIs, AreaIs DEF NothingSown
<1>10. NothingNamed
  BY <1>1, <1>4, <1>5, <1>7, MadeIs DEF NothingNamed
<1> QED BY <1>6, <1>8, <1>9, <1>10, RoomStays, TwinsStay DEF FieldsInv, FieldsSafety

\* A parcel is renamed, or its area changed: it is blurred, or crowded
LEMMA UpdateParcelStep ==
  ASSUME FieldsInv, NEW p \in Parcels, NEW n \in Names, NEW a \in Areas, UpdateParcel(p, n, a)
  PROVE  FieldsInv'
<1>1. /\ p \in ParcelsMade /\ parcel' = [parcel EXCEPT ![p].name = n, ![p].area = a]
      /\ blurred' = IF n # parcel[p].name THEN blurred \cup {p} ELSE blurred
      /\ crowded' = IF a < parcel[p].area THEN crowded \cup {p} ELSE crowded
      /\ UNCHANGED <<crop, examined, errand>>
  BY DEF UpdateParcel
<1>2. parcel \in [Parcels -> ParcelRow] /\ FieldRows
  BY DEF FieldsInv, FieldRows
<1>3. \A w \in ParcelRow : LET v == [w EXCEPT !.name = n, !.area = a] IN
        v \in ParcelRow /\ v.name = n /\ v.area = a /\ v.fresh = w.fresh
  BY DEF ParcelRow
<1>4. /\ parcel'[p] = [parcel[p] EXCEPT !.name = n, !.area = a]
      /\ \A q \in Parcels \ {p} : parcel'[q] = parcel[q]
  BY <1>1, <1>2
<1>5. /\ parcel'[p] \in ParcelRow /\ parcel'[p].name = n /\ parcel'[p].area = a
      /\ parcel'[p].fresh = parcel[p].fresh
  <2>1. PICK w \in ParcelRow : w = parcel[p]
    BY <1>2
  <2>2. parcel'[p] = [w EXCEPT !.name = n, !.area = a]
    BY <1>4, <2>1
  <2>3. /\ parcel'[p] \in ParcelRow /\ parcel'[p].name = n /\ parcel'[p].area = a
        /\ parcel'[p].fresh = w.fresh
    BY <1>3, <2>1, <2>2
  <2> QED BY <2>1, <2>3
<1>6. FieldRows'
  BY <1>1, <1>2, <1>4, <1>5 DEF FieldRows
<1>7. ParcelsMade' = ParcelsMade
  <2>1. n # "none"
    BY FieldsAssumption
  <2> QED BY <1>1, <1>4, <1>5, <2>1 DEF ParcelsMade
<1>8. FieldsTypeOK'
  BY <1>1, <1>6, <1>7 DEF FieldsInv, FieldsSafety, FieldsTypeOK, FieldRows, ParcelRow
<1>9. NothingSown
  <2>1. a \in Nat
    BY AreasCounted
  <2> QED BY <1>1, <1>2, <1>4, <1>5, <1>7, <2>1, MadeIs, AreaIs DEF NothingSown
<1>10. NothingNamed
  BY <1>1, <1>4, <1>5, <1>7, MadeIs DEF NothingNamed
<1> QED BY <1>6, <1>8, <1>9, <1>10, RoomStays, TwinsStay DEF FieldsInv, FieldsSafety

\* A parcel goes, and its crops with it
LEMMA DeleteParcelStep ==
  ASSUME FieldsInv, NEW p \in Parcels, DeleteParcel(p)
  PROVE  FieldsInv'
<1>1. /\ p \in ParcelsMade /\ p \notin examined /\ parcel' = [parcel EXCEPT ![p] = NoParcel]
      /\ crop' = [c \in Crops |-> IF crop[c].of = p THEN NoCrop ELSE crop[c]]
      /\ blurred' = blurred \ {p} /\ crowded' = crowded \ {p}
      /\ UNCHANGED <<examined, errand>>
  BY DEF DeleteParcel
<1>2. /\ parcel \in [Parcels -> ParcelRow] /\ FieldRows /\ crop \in [Crops -> CropRow]
      /\ NoParcel \in ParcelRow /\ NoCrop \in CropRow /\ NoCrop.of = 0 /\ NoParcel.name = "none"
  <2>1. parcel \in [Parcels -> ParcelRow] /\ FieldRows /\ crop \in [Crops -> CropRow]
    BY DEF FieldsInv, FieldRows
  <2>2. NoParcel \in ParcelRow /\ NoParcel.name = "none"
    BY DEF NoParcel, ParcelRow
  <2>3. NoCrop \in CropRow /\ NoCrop.of = 0
    BY DEF NoCrop, CropRow
  <2> QED BY <2>1, <2>2, <2>3
<1>3. FieldRows'
  BY <1>1, <1>2 DEF FieldRows
<1>4. ParcelsMade' = ParcelsMade \ {p} /\ \A q \in Parcels \ {p} : parcel'[q] = parcel[q]
  BY <1>1, <1>2 DEF ParcelsMade
<1>5. \A c \in Crops : IF crop[c].of = p THEN crop'[c].of = 0 ELSE crop'[c] = crop[c]
  BY <1>1, <1>2
<1>6. FieldsTypeOK'
  <2>1. parcel' \in [Parcels -> ParcelRow]
    BY <1>3 DEF FieldRows
  <2> QED BY <1>1, <1>4, <1>5, <2>1 DEF FieldsInv, FieldsSafety, FieldsTypeOK, ParcelRow
<1>7. NothingSown
  <2>1. \A q \in (ParcelsMade' \ crowded') : q \in ParcelsMade \ crowded /\ parcel'[q] = parcel[q]
          /\ q \in Parcels /\ q # 0
    BY <1>1, <1>4, MadeIs, FieldsAssumption
  <2>2. \A q \in Parcels : q # 0 => \A c \in Crops : crop'[c].of = q => crop'[c] = crop[c]
    BY <1>5
  <2> QED BY <1>1, <1>2, <2>1, <2>2, AreaIs DEF NothingSown
<1>8. NothingNamed
  BY <1>1, <1>4, MadeIs DEF NothingNamed
<1> QED BY <1>3, <1>6, <1>7, <1>8, RoomStays, TwinsStay DEF FieldsInv, FieldsSafety

\* A crop is begun: it fits, and if another is under way the parcel is crowded
LEMMA BeginCropStep ==
  ASSUME FieldsInv, NEW r \in Growers, NEW p \in Parcels, NEW a \in Beds, BeginCrop(r, p, a)
  PROVE  FieldsInv'
<1>1. /\ Idle(r) /\ p \in ParcelsMade /\ HasRoom(p, a)
      /\ UNCHANGED <<parcel, crop, examined, blurred>>
      /\ errand' = [errand EXCEPT ![r] = [do |-> "crop", of |-> p, name |-> "none", area |-> a]]
      /\ crowded' = IF \E q \in Growers : errand[q].do = "crop" /\ errand[q].of = p
                    THEN crowded \cup {p} ELSE crowded
  BY DEF BeginCrop, Sets
<1>2. [do |-> "crop", of |-> p, name |-> "none", area |-> a] \in ErrandRow
  BY DEF ErrandRow
<1>3. FieldRows'
  BY <1>1, <1>2 DEF FieldsInv, FieldRows
<1>4. /\ errand'[r].do = "crop" /\ errand'[r].of = p /\ errand'[r].area = a
      /\ \A q \in Growers \ {r} : errand'[q] = errand[q]
  BY <1>1 DEF FieldsInv, FieldRows
<1>5. ParcelsMade' = ParcelsMade
  BY <1>1 DEF ParcelsMade
<1>6. FieldsTypeOK'
  BY <1>1, <1>4, <1>5 DEF FieldsInv, FieldsSafety, FieldsTypeOK
<1>7. \A o : Sown(o)' = Sown(o)
  BY <1>1 DEF Sown, CropsOf
<1>8. crowded \subseteq crowded'
  BY <1>1
<1>9. AreaRespected'
  BY <1>1, <1>5, <1>7, <1>8 DEF FieldsInv, FieldsSafety, AreaRespected
<1>10. \A o : \A q \in Growers : Sows(q, o)' =>
         \/ q = r /\ o = p
         \/ q # r /\ Sows(q, o) /\ errand'[q] = errand[q] /\ (o = p => p \in crowded')
  BY <1>1, <1>4 DEF Sows
<1>11. SownAlone'
  BY <1>5, <1>8, <1>10 DEF FieldsInv, SownAlone
<1>12. RoomKept'
  <2> SUFFICES ASSUME NEW o \in (ParcelsMade' \ crowded'), NEW q \in Growers, Sows(q, o)'
               PROVE  Sown(o) + errand'[q].area <= parcel[o].area
    BY <1>1, <1>7 DEF RoomKept
  <2>1. CASE q = r
    BY <1>1, <1>4, <2>1 DEF HasRoom, Sows
  <2>2. CASE q # r
    BY <1>5, <1>8, <1>10, <2>2 DEF FieldsInv, RoomKept
  <2> QED BY <2>1, <2>2
<1>13. NothingNamed
  BY <1>1, <1>4, <1>5 DEF NothingNamed
<1> QED BY <1>3, <1>6, <1>9, <1>11, <1>12, <1>13, TwinsStay DEF FieldsInv, FieldsSafety

\* ... and inserted, if its parcel is there: nobody else was sowing on it
LEMMA InsertCropStep ==
  ASSUME FieldsInv, NEW r \in Growers, NEW c \in Crops, InsertCrop(r, c)
  PROVE  FieldsInv'
<1>1. PICK p \in Parcels : p = errand[r].of
  BY DEF InsertCrop, FieldsInv, FieldRows
<1>2. PICK a \in Beds : a = errand[r].area
  BY DEF InsertCrop, FieldsInv, FieldRows
<1>3. /\ errand[r].do = "crop" /\ crop[c].of = 0 /\ Finishes(r)
      /\ crop' = IF p \in ParcelsMade THEN [crop EXCEPT ![c] = [of |-> p, area |-> a]] ELSE crop
      /\ UNCHANGED <<parcel, examined, blurred, crowded>>
  BY <1>1, <1>2 DEF InsertCrop
<1>4. /\ errand'[r].do = "idle" /\ \A q \in Growers \ {r} : errand'[q] = errand[q]
      /\ errand' \in [Growers -> ErrandRow]
  BY <1>3, FinishesStep DEF FieldsInv
<1>5. [of |-> p, area |-> a] \in CropRow
  BY DEF CropRow
<1>6. FieldRows'
  BY <1>3, <1>4, <1>5 DEF FieldsInv, FieldRows
<1>7. ParcelsMade' = ParcelsMade
  BY <1>3 DEF ParcelsMade
<1>8. /\ \A d \in Crops \ {c} : crop'[d] = crop[d]
      /\ p \in ParcelsMade => crop'[c].of = p /\ crop'[c].area = a
      /\ p \notin ParcelsMade => crop' = crop
  BY <1>3 DEF FieldsInv, FieldRows
<1>9. FieldsTypeOK'
  BY <1>3, <1>4, <1>7, <1>8 DEF FieldsInv, FieldsSafety, FieldsTypeOK
<1>10. NothingNamed
  BY <1>3, <1>4, <1>7 DEF NothingNamed
<1>11. \A o : \A q \in Growers : Sows(q, o)' => q # r /\ Sows(q, o) /\ errand'[q] = errand[q]
  BY <1>4 DEF Sows
<1>12. AreaRespected' /\ SownAlone' /\ RoomKept'
  <2> SUFFICES ASSUME NEW o \in (ParcelsMade \ crowded)
               PROVE  /\ Sown(o)' <= parcel[o].area
                      /\ \A q, s \in Growers : Sows(q, o)' /\ Sows(s, o)' => q = s
                      /\ \A q \in Growers : Sows(q, o)' => Sown(o)' + errand'[q].area <= parcel[o].area
    BY <1>3, <1>7 DEF AreaRespected, SownAlone, RoomKept
  <2>1. /\ Sown(o) <= parcel[o].area
        /\ \A q, s \in Growers : Sows(q, o) /\ Sows(s, o) => q = s
        /\ \A q \in Growers : Sows(q, o) => Sown(o) + errand[q].area <= parcel[o].area
    BY DEF FieldsInv, FieldsSafety, AreaRespected, SownAlone, RoomKept
  <2>2. CASE o = p
    <3>1. Sows(r, p)
      BY <1>1, <1>3 DEF Sows
    <3>2. Sown(p)' = Sown(p) + crop'[c].area
      <4>1. FieldRows /\ crop[c].of # p /\ crop'[c].of = p
        BY <1>3, <1>8, <2>2, FieldsAssumption DEF FieldsInv
      <4> QED BY <1>6, <1>8, <4>1, SownAdds
    <3>3. Sown(p)' <= parcel[p].area
      BY <1>2, <1>8, <2>1, <2>2, <3>1, <3>2
    <3>4. \A q \in Growers : ~Sows(q, p)'
      BY <1>11, <2>1, <2>2, <3>1
    <3> QED BY <2>2, <3>3, <3>4
  <2>3. CASE o # p
    <3>1. o # 0
      BY MadeIs, FieldsAssumption
    <3>2. CropsOf(o)' = CropsOf(o)
      BY <1>3, <1>8, <2>3, <3>1 DEF CropsOf
    <3>3. Sown(o)' = Sown(o)
      <4> DEFINE f == [d \in Crops |-> crop[d].area]
                 g == [d \in Crops |-> crop'[d].area]
      <4>1. CropsOf(o) \subseteq Crops /\ IsFiniteSet(CropsOf(o)) /\ c \notin CropsOf(o)
        BY <1>3, <3>1, SownNat DEF FieldsInv, CropsOf
      <4>2. \A d \in CropsOf(o) : f[d] = g[d] /\ f[d] \in Int
        BY <1>8, <4>1, SownNat DEF FieldsInv
      <4>3. Sown(o)' = SumFunctionOnSet(g, CropsOf(o)) /\ Sown(o) = SumFunctionOnSet(f, CropsOf(o))
        BY <3>2 DEF Sown
      <4> HIDE DEF f, g
      <4>4. Ints(f, CropsOf(o))
        BY <4>2 DEF Ints
      <4> QED BY <4>1, <4>2, <4>3, <4>4, SumEqual
    <3> QED BY <1>11, <2>1, <3>3
  <2> QED BY <2>2, <2>3
<1> QED BY <1>6, <1>9, <1>10, <1>12, TwinsStay DEF FieldsInv, FieldsSafety

\* A crop goes
LEMMA DeleteCropStep ==
  ASSUME FieldsInv, NEW c \in Crops, DeleteCrop(c)
  PROVE  FieldsInv'
<1>1. /\ crop' = [crop EXCEPT ![c] = NoCrop]
      /\ UNCHANGED <<parcel, examined, errand, blurred, crowded>>
  BY DEF DeleteCrop
<1>2. NoCrop \in CropRow /\ NoCrop.of = 0
  BY DEF NoCrop, CropRow
<1>3. FieldRows'
  BY <1>1, <1>2 DEF FieldsInv, FieldRows
<1>4. ParcelsMade' = ParcelsMade
  BY <1>1 DEF ParcelsMade
<1>5. crop'[c].of = 0 /\ \A d \in Crops \ {c} : crop'[d] = crop[d]
  BY <1>1, <1>2 DEF FieldsInv, FieldRows
<1>6. FieldsTypeOK'
  BY <1>1, <1>4, <1>5 DEF FieldsInv, FieldsSafety, FieldsTypeOK
<1>7. NothingSown
  <2>1. \A p \in ParcelsMade : parcel[p].area \in Nat /\ p # 0
    BY MadeIs, AreaIs, FieldsAssumption DEF FieldsInv
  <2> QED BY <1>1, <1>4, <1>5, <2>1 DEF NothingSown
<1>8. NothingNamed
  BY <1>1, <1>4 DEF NothingNamed
<1> QED BY <1>3, <1>6, <1>7, <1>8, RoomStays, TwinsStay DEF FieldsInv, FieldsSafety

\* A plant is about to be analysed
LEMMA BeginExamStep ==
  ASSUME FieldsInv, NEW r \in Growers, NEW p \in Parcels, BeginExam(r, p)
  PROVE  FieldsInv'
<1>1. /\ UNCHANGED <<parcel, crop, examined, blurred, crowded>>
      /\ errand' = [errand EXCEPT ![r] = [do |-> "exam", of |-> p, name |-> "none", area |-> 0]]
  BY DEF BeginExam, Sets
<1>2. [do |-> "exam", of |-> p, name |-> "none", area |-> 0] \in ErrandRow
  BY DEF ErrandRow
<1>3. FieldRows'
  BY <1>1, <1>2 DEF FieldsInv, FieldRows
<1>4. errand'[r].do = "exam" /\ \A q \in Growers \ {r} : errand'[q] = errand[q]
  BY <1>1 DEF FieldsInv, FieldRows
<1>5. ParcelsMade' = ParcelsMade
  BY <1>1 DEF ParcelsMade
<1>6. FieldsTypeOK'
  BY <1>1, <1>4, <1>5 DEF FieldsInv, FieldsSafety, FieldsTypeOK
<1>7. NothingSown
  BY <1>1, <1>4, <1>5, MadeIs, AreaIs DEF NothingSown, FieldsInv
<1>8. NothingNamed
  BY <1>1, <1>4, <1>5 DEF NothingNamed
<1> QED BY <1>3, <1>6, <1>7, <1>8, RoomStays, TwinsStay DEF FieldsInv, FieldsSafety

\* ... and was, unless its parcel went
LEMMA EndExamStep ==
  ASSUME FieldsInv, NEW r \in Growers, NEW answered \in BOOLEAN, EndExam(r, answered)
  PROVE  FieldsInv'
<1>1. /\ UNCHANGED <<parcel, crop, blurred, crowded>> /\ Finishes(r)
      /\ examined' \subseteq examined \cup ParcelsMade
  BY DEF EndExam
<1>2. /\ errand'[r].do = "idle" /\ \A q \in Growers \ {r} : errand'[q] = errand[q]
      /\ errand' \in [Growers -> ErrandRow]
  BY <1>1, FinishesStep DEF FieldsInv
<1>3. FieldRows'
  BY <1>1, <1>2 DEF FieldsInv, FieldRows
<1>4. ParcelsMade' = ParcelsMade
  BY <1>1 DEF ParcelsMade
<1>5. FieldsTypeOK'
  BY <1>1, <1>2, <1>4 DEF FieldsInv, FieldsSafety, FieldsTypeOK
<1>6. NothingSown
  BY <1>1, <1>2, <1>4, MadeIs, AreaIs DEF NothingSown, FieldsInv
<1>7. NothingNamed
  BY <1>1, <1>2, <1>4 DEF NothingNamed
<1> QED BY <1>3, <1>5, <1>6, <1>7, RoomStays, TwinsStay DEF FieldsInv, FieldsSafety

\* Each step preserves the invariant
LEMMA FieldsNextInv == FieldsInv /\ [FieldsNext]_fieldsVars => FieldsInv'
<1> SUFFICES ASSUME FieldsInv, [FieldsNext]_fieldsVars PROVE FieldsInv'
  OBVIOUS
<1>1. CASE UNCHANGED fieldsVars
  <2>1. UNCHANGED <<parcel, crop, examined, errand, blurred, crowded>>
    BY <1>1 DEF fieldsVars
  <2>2. ParcelsMade' = ParcelsMade
    BY <2>1 DEF ParcelsMade
  <2>3. FieldRows' /\ FieldsTypeOK'
    BY <2>1, <2>2 DEF FieldsInv, FieldRows, FieldsSafety, FieldsTypeOK
  <2>4. NothingSown /\ NothingNamed
    BY <2>1, <2>2, MadeIs, AreaIs DEF NothingSown, NothingNamed, FieldsInv
  <2> QED BY <2>3, <2>4, RoomStays, TwinsStay DEF FieldsInv, FieldsSafety
<1>2. CASE FieldsNext
  BY <1>2, MaturesStep, DeleteParcelStep, UpdateParcelStep, InsertParcelStep, BeginExamStep,
     BeginCropStep, BeginParcelStep, InsertCropStep, EndExamStep, DeleteCropStep, Zenon
     DEF FieldsNext
<1> QED BY <1>1, <1>2

\* The invariant holds at first
LEMMA FieldsInitInv == FieldsInit => FieldsInv
<1> SUFFICES ASSUME FieldsInit PROVE FieldsInv
  OBVIOUS
<1>1. /\ NoParcel \in ParcelRow /\ NoParcel.name = "none"
      /\ NoCrop \in CropRow /\ NoCrop.of = 0
  <2>1. NoParcel \in ParcelRow /\ NoParcel.name = "none"
    BY DEF NoParcel, ParcelRow
  <2>2. NoCrop \in CropRow /\ NoCrop.of = 0
    BY DEF NoCrop, CropRow
  <2> QED BY <2>1, <2>2
<1>2. ParcelsMade = {}
  BY <1>1 DEF FieldsInit, ParcelsMade
<1>3. FieldRows
  BY <1>1, NoErrandRow DEF FieldsInit, FieldRows
<1>4. FieldsTypeOK
  BY <1>1, <1>2, <1>3, NoErrandRow DEF FieldsInit, FieldsTypeOK, FieldRows, ParcelRow
<1>5. AreaRespected /\ SownAlone /\ RoomKept /\ NoTwin /\ TwinAway
  BY <1>2 DEF AreaRespected, SownAlone, RoomKept, NoTwin, TwinAway
<1> QED BY <1>3, <1>4, <1>5 DEF FieldsInv, FieldsSafety

\* So it always holds
LEMMA FieldsInvariance == FieldsSpec => []FieldsInv
  BY FieldsInitInv, FieldsNextInv, PTL DEF FieldsSpec

-----------------------------------------------------------------------------
(***************************************************************************)
(* Together, as the runs check them                                        *)
(***************************************************************************)

\* Who may come in: a code opens one session, wrong PINs lock at the limit, every account
\* has the profile of its role, and an active administrator is left (AuthService), unless
\* requests of one kind overlapped
THEOREM AccountsAreSafe == AccessSpec /\ RegistrySpec => []AccountSafety
<1>1. AccessSpec => []AccessSafety
  BY AccessInvariance, AccessInvImplies, PTL
<1>2. RegistrySpec => []RegistrySafety
  BY RegInvariance, RegInvImplies, PTL
<1>3. AccessSafety /\ RegistrySafety => AccountSafety
  BY DEF AccountSafety
<1> QED BY <1>1, <1>2, <1>3, PTL

\* What a buyer keeps: one default address or payment method, a basket of what was offered,
\* a route at the price he read (BuyerAddressesService, CartService, TransporterRoutesService)
THEOREM BuyersAreSafe == DefaultsSpec /\ BasketSpec /\ RoutesSpec => []BuyerSafety
<1>1. DefaultsSpec => []DefaultsSafety
  BY DefInvariance, DefInvImplies, PTL
<1>2. BasketInv => BasketSafety
  BY DEF BasketInv
<1>3. BasketSpec => []BasketSafety
  BY BasketInvariance, <1>2, PTL
<1>4. RoutesSpec => []RoutesSafety
  BY RouteInvariance, RouteInvImplies, PTL
<1>5. DefaultsSafety /\ BasketSafety /\ RoutesSafety => BuyerSafety
  BY DEF BuyerSafety
<1> QED BY <1>1, <1>3, <1>4, <1>5, PTL

\* What an owner records: crops that fit in parcels that exist, files that show what is his
\* (AgronomieService, MediaService)
THEOREM OwnersAreSafe == FieldsSpec /\ DocumentsSpec => []OwnerSafety
<1>1. FieldsInv => FieldsSafety
  BY DEF FieldsInv
<1>2. FieldsSpec => []FieldsSafety
  BY FieldsInvariance, <1>1, PTL
<1>3. DocInv => DocumentsSafety
  BY DEF DocInv
<1>4. DocumentsSpec => []DocumentsSafety
  BY DocInvariance, <1>3, PTL
<1>5. FieldsSafety /\ DocumentsSafety => OwnerSafety
  BY DEF OwnerSafety
<1> QED BY <1>2, <1>4, <1>5, PTL

=============================================================================
