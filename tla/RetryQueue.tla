----------------------------- MODULE RetryQueue -----------------------------
(***************************************************************************)
(* RetryQueueService: a transaction whose payment failed is tried again by *)
(* a timer, after 30 s, 2 min and 10 min, three times at most.  The timers *)
(* are in the memory of the process, in a map under the transaction's id.  *)
(*                                                                         *)
(* One transaction.  A chain is what one call of schedule sets going: the  *)
(* row is read, a timer set, its callback counts the attempt and calls the *)
(* handler, and a failure schedules again before the timer is forgotten, all *)
(* in one turn of the event loop.                                          *)
(***************************************************************************)
EXTENDS Naturals, FiniteSets

CONSTANTS
  Chains,       \* calls of schedule by the rest of the program
  MaxRetries,   \* BACKOFFS_MS.length
  Restarts      \* bound on the restarts of the process

ASSUME RetryAssumption == MaxRetries \in Nat /\ Restarts \in Nat

VARIABLES
  txStatus,   \* transactions.status
  attempts,   \* transactions.attempts
  chain,      \* where each chain is, and its attempt
  timer,        \* the chain whose timer the map holds
  restarts,
  called,     \* history: how often each chain called the handler
  settledLate,\* history: the transaction was settled after a chain had given it up
  twoAtOnce   \* history: a chain began while another was under way

retryVars == <<txStatus, attempts, chain, timer, restarts, called, settledLate, twoAtOnce>>

NoChain == [at |-> "none", attempt |-> {}]
DecidedNow == settledLate' = (settledLate \/ \E c \in Chains : chain[c].at = "giveUp")
Decided == txStatus \in {"SUCCESS", "ESCROW"}
Moves(c, at) == chain' = [chain EXCEPT ![c].at = at]
UnderWay(c) == chain[c].at \notin {"none", "done"}

-----------------------------------------------------------------------------

\* schedule, called by the rest of the program: the attempt is the row's count
Schedule(c) ==
  /\ chain[c].at = "none"
  /\ chain' = [chain EXCEPT ![c] = [at |-> "reading", attempt |-> {}]]
  /\ twoAtOnce' = (twoAtOnce \/ \E d \in Chains : UnderWay(d))
  /\ UNCHANGED <<txStatus, attempts, timer, restarts, called, settledLate>>

AttemptOf(c) == IF chain[c].attempt = {} THEN attempts ELSE CHOOSE a \in chain[c].attempt : TRUE

\* Mutant: one attempt more
ExhaustedLate(a) == a > MaxRetries

Exhausted(a) == a >= MaxRetries

\* Mutant: a payment held in escrow is tried again
ResolvedSuccess == txStatus = "SUCCESS"

Resolved == Decided

\* The row is read: resolved, nothing; exhausted, it will be FAILED; else a timer,
\* which takes the place in the map of whatever is there
ReadRow(c) ==
  LET a == AttemptOf(c) IN
  /\ chain[c].at = "reading"
  /\ IF Resolved THEN Moves(c, "done") /\ UNCHANGED timer
     ELSE IF Exhausted(a) THEN Moves(c, "giveUp") /\ UNCHANGED timer
     ELSE chain' = [chain EXCEPT ![c] = [at |-> "armed", attempt |-> {a}]] /\ timer' = {c}
  /\ UNCHANGED <<txStatus, attempts, restarts, called, settledLate, twoAtOnce>>

\* Mutant: a transaction given up is scheduled again
GiveUpAgain(c) ==
  /\ chain[c].at = "giveUp"
  /\ txStatus' = "FAILED" /\ Moves(c, "reading")
  /\ UNCHANGED <<attempts, timer, restarts, called, settledLate, twoAtOnce>>

\* The status is written whatever it has become since it was read
GiveUp(c) ==
  /\ chain[c].at = "giveUp"
  /\ txStatus' = "FAILED" /\ Moves(c, "done")
  /\ UNCHANGED <<attempts, timer, restarts, called, settledLate, twoAtOnce>>

\* The timer fires: the attempt is counted in the row, then the handler is called
Fire(c) ==
  /\ chain[c].at = "armed"
  /\ attempts' = attempts + 1
  /\ called' = [called EXCEPT ![c] = @ + 1]
  /\ Moves(c, "handling")
  /\ UNCHANGED <<txStatus, timer, restarts, settledLate, twoAtOnce>>

\* Mutant: a failure counts twice
NextAttemptByTwo(a) == {a + 2}

NextAttempt(a) == {a + 1}

\* Mutant: the timer is not forgotten
JobKept(c) == timer

\* finally: the id is deleted, whatever timer it stands for
JobForgotten(c) == {}

\* The handler resolves the transaction, or it throws and the next attempt starts
\* to read the row
Handle(c) ==
  /\ chain[c].at = "handling"
  /\ \/ txStatus' = "SUCCESS" /\ Moves(c, "done") /\ DecidedNow
     \/ chain' = [chain EXCEPT ![c] = [at |-> "reading", attempt |-> NextAttempt(AttemptOf(c))]]
        /\ UNCHANGED <<txStatus, settledLate>>
  /\ timer' = JobForgotten(c)
  /\ UNCHANGED <<attempts, restarts, called, twoAtOnce>>

\* cancel: the timer that the map holds never fires; a callback under way goes on
CancelRetry ==
  /\ timer # {}
  /\ chain' = [c \in Chains |-> IF c \in timer /\ chain[c].at = "armed"
                                THEN [chain[c] EXCEPT !.at = "done"] ELSE chain[c]]
  /\ timer' = {}
  /\ UNCHANGED <<txStatus, attempts, restarts, called, settledLate, twoAtOnce>>

\* onModuleDestroy, or the end of the process: nothing is read back afterwards
RestartQueue ==
  /\ restarts < Restarts
  /\ restarts' = restarts + 1
  /\ chain' = [c \in Chains |-> IF chain[c].at = "none" THEN NoChain
                                ELSE [chain[c] EXCEPT !.at = "done"]]
  /\ timer' = {}
  /\ UNCHANGED <<txStatus, attempts, called, settledLate, twoAtOnce>>

\* A webhook or the reconciliation settles the transaction
SettledElsewhere ==
  /\ ~Decided
  /\ txStatus' = "ESCROW"
  /\ DecidedNow
  /\ UNCHANGED <<attempts, chain, timer, restarts, called, twoAtOnce>>

RetryInit ==
  /\ txStatus = "PENDING" /\ attempts = 0 /\ timer = {} /\ restarts = 0
  /\ chain = [c \in Chains |-> NoChain]
  /\ called = [c \in Chains |-> 0]
  /\ settledLate = FALSE /\ twoAtOnce = FALSE

RetryStep(c) == ReadRow(c) \/ GiveUp(c) \/ Fire(c) \/ Handle(c)

RetryNext ==
  \/ \E c \in Chains : Schedule(c) \/ ReadRow(c) \/ GiveUp(c) \/ Fire(c) \/ Handle(c)
  \/ CancelRetry \/ RestartQueue \/ SettledElsewhere

\* The event loop runs the timers that are due and the callbacks they start
RetryFairness == \A c \in Chains : WF_retryVars(RetryStep(c))

RetrySpec == RetryInit /\ [][RetryNext]_retryVars /\ RetryFairness

-----------------------------------------------------------------------------
(* Properties                                                              *)

RetryTypeOK ==
  /\ txStatus \in {"PENDING", "SUCCESS", "ESCROW", "FAILED"}
  /\ attempts \in Nat
  /\ chain \in [Chains -> [at : {"none", "reading", "armed", "handling", "giveUp", "done"},
                           attempt : SUBSET (0..MaxRetries)]]
  /\ timer \subseteq Chains /\ Cardinality(timer) <= 1
  /\ restarts \in 0..Restarts /\ called \in [Chains -> Nat]
  /\ settledLate \in BOOLEAN /\ twoAtOnce \in BOOLEAN

\* A call of schedule calls the handler three times at most, whatever cancels and
\* restarts come between
AttemptsBounded == \A c \in Chains : called[c] <= MaxRetries

\* Every timer set can be cancelled and is stopped with the module, and the map holds
\* no timer that will not fire again once its callback has ended; but when a second
\* chain began before the first had ended
TimersAreKnown ==
  ~twoAtOnce => /\ \A c \in Chains : chain[c].at = "armed" => timer = {c}
                /\ \A c \in timer : chain[c].at \in {"armed", "handling"}

\* A transaction settled by the provider is not marked FAILED by a retry, unless it
\* was settled between the reading of a last attempt and its write
SettledIsNotFailed ==
  [][Decided /\ ~settledLate => txStatus' # "FAILED"]_retryVars

\* A chain ends, by a result, by giving up, or because a restart or a cancel took its
\* timer away: no sequence of failures keeps it going
RetryEnds == \A c \in Chains : chain[c].at = "reading" ~> chain[c].at = "done"

\* A settled transaction keeps its status and every chain ends
RetrySettles == SettledIsNotFailed /\ RetryEnds

\* A call runs the handler three times at most, and the map knows every timer that is
\* set, whatever cancels, restarts and webhooks come between
RetrySafety == RetryTypeOK /\ AttemptsBounded /\ TimersAreKnown

=============================================================================
