------------------------------- MODULE Access -------------------------------
(***************************************************************************)
(* How a user proves who he is: the PIN with its lock, and the codes sent  *)
(* by SMS.  What he gets, a session, is the module Sessions.               *)
(*                                                                         *)
(* Each request reads the account, compares a hash, which takes a while,   *)
(* and writes without looking again; the process may stop in between.      *)
(***************************************************************************)
EXTENDS Naturals, FiniteSets

CONSTANTS
  Codes,         \* rows of otps, in order of creation: 1..n
  Tries,         \* requests in flight
  MaxAttempts    \* MAX_FAILED_ATTEMPTS

VARIABLES
  user,      \* the row of users
  code,      \* otps: "none", "fresh", "used" or "expired"
  try,       \* the request in each hand
  wrong,     \* history: wrong PINs in a row
  spent,     \* history: how often each code opened a session
  overlap    \* history: kinds of requests that overlapped

\* The rows are numbered, and a PIN may be tried at least once
ASSUME AccessAssumption ==
  IsFiniteSet(Codes) /\ Codes \subseteq Nat \ {0} /\ MaxAttempts \in Nat \ {0}

accessVars == <<user, code, try, wrong, spent, overlap>>

NoTry == [do |-> "idle", code |-> 0, right |-> FALSE, tries |-> 0]

TryFree(r) == try[r].do = "idle"
TryEnds(r) == try' = [try EXCEPT ![r] = NoTry]
Beside(r, do) == overlap' = IF \E q \in Tries \ {r} : try[q].do = do
                            THEN overlap \cup {do} ELSE overlap

-----------------------------------------------------------------------------
(* connexionPin                                                            *)

\* The account as it is read; the PIN is compared with the hash then read
BeginLogin(r, right) ==
  /\ TryFree(r)
  /\ user.pin /\ user.active /\ ~user.managed /\ ~user.locked
  /\ try' = [try EXCEPT ![r] = [NoTry EXCEPT !.do = "login", !.right = right,
                                             !.tries = user.tries]]
  /\ Beside(r, "login")
  /\ UNCHANGED <<user, code, wrong, spent>>

\* Mutant: the lock comes one attempt early
FailedAttemptEarly(tries) ==
  IF tries + 2 >= MaxAttempts THEN [user EXCEPT !.tries = 0, !.locked = TRUE]
  ELSE [user EXCEPT !.tries = tries + 1]

\* Mutant: the count is not reset by the lock
FailedAttemptKept(tries) == [user EXCEPT !.tries = tries + 1, !.locked = tries + 1 >= MaxAttempts]

\* registerFailedAttempt: the count read before the comparison, plus one
FailedAttempt(tries) ==
  IF tries + 1 >= MaxAttempts THEN [user EXCEPT !.tries = 0, !.locked = TRUE]
  ELSE [user EXCEPT !.tries = tries + 1]

WrongPin(r) ==
  /\ try[r].do = "login" /\ ~try[r].right
  /\ user' = FailedAttempt(try[r].tries)
  /\ wrong' = wrong + 1
  /\ TryEnds(r)
  /\ UNCHANGED <<code, spent, overlap>>

\* A session is opened; a lock set meanwhile is lifted with the count
RightPin(r) ==
  /\ try[r].do = "login" /\ try[r].right
  /\ user' = [user EXCEPT !.tries = 0, !.locked = FALSE]
  /\ wrong' = 0
  /\ TryEnds(r)
  /\ UNCHANGED <<code, spent, overlap>>

\* locked_until is past: three attempts more
LockExpires ==
  /\ user.locked
  /\ user' = [user EXCEPT !.locked = FALSE]
  /\ wrong' = 0
  /\ UNCHANGED <<code, try, spent, overlap>>

-----------------------------------------------------------------------------
(* envoyerOtp and verifierOtp                                              *)

\* Mutant: codes sent before stay good
InvalidateNone == code

\* The codes sent before are used up; the new one is created in another statement
Invalidate == [c \in Codes |-> IF code[c] = "fresh" THEN "used" ELSE code[c]]

BeginSend(r) ==
  /\ TryFree(r) /\ ~user.managed
  /\ code' = Invalidate
  /\ try' = [try EXCEPT ![r] = [NoTry EXCEPT !.do = "send"]]
  /\ Beside(r, "send")
  /\ UNCHANGED <<user, wrong, spent>>

CreateCode(r, c) ==
  /\ try[r].do = "send"
  /\ code[c] = "none" /\ \A d \in Codes : d < c => code[d] # "none"
  /\ code' = [code EXCEPT ![c] = "fresh"]
  /\ TryEnds(r)
  /\ UNCHANGED <<user, wrong, spent, overlap>>

\* The most recent code neither used nor expired
Latest == {c \in Codes : code[c] = "fresh" /\ \A d \in Codes : code[d] = "fresh" => d <= c}

\* A wrong code changes nothing, so only the right one is followed
BeginVerify(r, c) ==
  /\ TryFree(r) /\ c \in Latest
  /\ try' = [try EXCEPT ![r] = [NoTry EXCEPT !.do = "consume", !.code = c]]
  /\ Beside(r, "consume")
  /\ UNCHANGED <<user, code, wrong, spent>>

\* Mutant: the code is not marked
UsedNot(c) == code

Used(c) == [code EXCEPT ![c] = "used"]

ConsumeCode(r) ==
  /\ try[r].do = "consume"
  /\ code' = Used(try[r].code)
  /\ try' = [try EXCEPT ![r].do = "verify"]
  /\ UNCHANGED <<user, wrong, spent, overlap>>

\* The account is read after the code is used up; deactivated or managed, the code
\* is lost.  A code proves the telephone, it does not lift the lock of the PIN.
VerifyUser(r) ==
  /\ try[r].do = "verify"
  /\ IF user.active /\ ~user.managed
     THEN /\ user' = [user EXCEPT !.verified = TRUE]
          /\ spent' = [spent EXCEPT ![try[r].code] = @ + 1]
     ELSE UNCHANGED <<user, spent>>
  /\ TryEnds(r)
  /\ UNCHANGED <<code, wrong, overlap>>

CodeExpires(c) ==
  /\ code[c] = "fresh"
  /\ code' = [code EXCEPT ![c] = "expired"]
  /\ UNCHANGED <<user, try, wrong, spent, overlap>>

-----------------------------------------------------------------------------
(* definirPin, the administrator, the cooperative and the process          *)

\* By a request that a session allows; it is the first PIN here
DefinePin ==
  /\ ~user.pin /\ user.verified
  /\ user' = [user EXCEPT !.pin = TRUE]
  /\ UNCHANGED <<code, try, wrong, spent, overlap>>

\* deactivateUser and reactivateUser
SetActive(active) ==
  /\ user.active # active
  /\ user' = [user EXCEPT !.active = active]
  /\ UNCHANGED <<code, try, wrong, spent, overlap>>

\* promoteManagedMember gives the account a telephone
Promoted ==
  /\ user.managed
  /\ user' = [user EXCEPT !.managed = FALSE]
  /\ UNCHANGED <<code, try, wrong, spent, overlap>>

TryDies(r) ==
  /\ ~TryFree(r) /\ TryEnds(r)
  /\ UNCHANGED <<user, code, wrong, spent, overlap>>

AccessInit ==
  /\ user \in [pin : BOOLEAN, tries : {0}, locked : {FALSE}, active : {TRUE},
               managed : BOOLEAN, verified : {FALSE}]
  /\ user.managed => ~user.pin
  /\ code = [c \in Codes |-> "none"]
  /\ try = [r \in Tries |-> NoTry]
  /\ wrong = 0 /\ spent = [c \in Codes |-> 0] /\ overlap = {}

AccessNext ==
  \/ \E r \in Tries :
       \/ \E right \in BOOLEAN : BeginLogin(r, right)
       \/ WrongPin(r) \/ RightPin(r) \/ BeginSend(r) \/ ConsumeCode(r) \/ VerifyUser(r)
       \/ TryDies(r)
       \/ \E c \in Codes : CreateCode(r, c) \/ BeginVerify(r, c)
  \/ \E c \in Codes : CodeExpires(c)
  \/ LockExpires \/ DefinePin \/ Promoted
  \/ \E active \in BOOLEAN : SetActive(active)

AccessSpec == AccessInit /\ [][AccessNext]_accessVars

-----------------------------------------------------------------------------
(* Properties                                                              *)

AccessTypeOK ==
  /\ user \in [pin : BOOLEAN, tries : 0..(MaxAttempts - 1), locked : BOOLEAN, active : BOOLEAN,
               managed : BOOLEAN, verified : BOOLEAN]
  /\ code \in [Codes -> {"none", "fresh", "used", "expired"}]
  /\ try \in [Tries -> [do : {"idle", "login", "send", "consume", "verify"},
                        code : Codes \cup {0}, right : BOOLEAN, tries : 0..(MaxAttempts - 1)]]
  /\ wrong \in Nat /\ spent \in [Codes -> Nat] /\ overlap \subseteq {"login", "send", "consume"}

\* The lock is there exactly when MAX_FAILED_ATTEMPTS wrong PINs were given in a row,
\* and the count is theirs until then, as long as no two attempts overlapped
LockedAtTheLimit ==
  "login" \notin overlap => /\ user.locked <=> wrong = MaxAttempts
                            /\ ~user.locked => user.tries = wrong

\* One code at most is good at a time, unless two sendings overlapped
OneGoodCode == "send" \notin overlap => Cardinality({c \in Codes : code[c] = "fresh"}) <= 1

\* A code opens one session at most, unless two requests compared it at once
CodeOpensOnce == "consume" \notin overlap => \A c \in Codes : spent[c] <= 1

\* Wrong PINs lock the account at the limit, and of the codes sent one is good, for one
\* session
AccessSafety == AccessTypeOK /\ LockedAtTheLimit /\ OneGoodCode /\ CodeOpensOnce

=============================================================================
