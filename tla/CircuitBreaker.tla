--------------------------- MODULE CircuitBreaker ---------------------------
(***************************************************************************)
(* CircuitBreakerService for one provider: the provider_circuit_state row, *)
(* and clients that ask before they call the provider and record how the   *)
(* call ended.  Every database call is a step of its own; none is in a     *)
(* transaction with another.                                               *)
(***************************************************************************)
EXTENDS Integers

CONSTANTS
  Callers,
  Threshold,    \* THRESHOLD
  MaxFailures   \* bound on failure_count, for model checking

ASSUME BreakerAssumption ==
  Threshold \in Nat \ {0} /\ MaxFailures \in Nat

VARIABLES
  state,     \* CLOSED, OPEN or HALF_OPEN; CLOSED also when there is no row
  failures,  \* failure_count
  cooled,    \* COOLDOWN_MS have passed since opened_at
  at,        \* where each client is
  cut        \* history: since the last success a process died in recordFailure,
             \* between the count and the write of OPEN

breakerVars == <<state, failures, cooled, at, cut>>

Puts(c, step) == at' = [at EXCEPT ![c] = step]

-----------------------------------------------------------------------------

\* Mutant: the cooldown is not tested, OPEN always throws
AskForever(c) ==
  /\ at[c] = "idle" /\ state # "OPEN" /\ Puts(c, "calling")
  /\ UNCHANGED <<state, failures, cooled, cut>>

\* assertAvailable: CLOSED and HALF_OPEN let the call through; OPEN does after
\* the cooldown, and throws (the client stays idle) before.
Ask(c) ==
  /\ at[c] = "idle"
  /\ \/ state # "OPEN" /\ Puts(c, "calling")
     \/ state = "OPEN" /\ cooled /\ Puts(c, "halfOpen")
  /\ UNCHANGED <<state, failures, cooled, cut>>

\* ... and writes HALF_OPEN, whatever the state has become
HalfOpen(c) ==
  /\ at[c] = "halfOpen"
  /\ state' = "HALF_OPEN"
  /\ Puts(c, "calling")
  /\ UNCHANGED <<failures, cooled, cut>>

\* Mutant: a success takes one failure off instead of resetting the count
RecordSuccessSlow(c) ==
  /\ at[c] = "calling"
  /\ state' = "CLOSED" /\ failures' = failures - 1 /\ cooled' = FALSE /\ cut' = FALSE
  /\ Puts(c, "idle")

\* recordSuccess: one upsert
RecordSuccess(c) ==
  /\ at[c] = "calling"
  /\ state' = "CLOSED" /\ failures' = 0 /\ cooled' = FALSE /\ cut' = FALSE
  /\ Puts(c, "idle")

\* Mutant: > for >=
RecordFailureLate(c) ==
  /\ at[c] = "calling"
  /\ failures < MaxFailures
  /\ failures' = failures + 1
  /\ Puts(c, IF failures' > Threshold /\ state # "OPEN" THEN "trip" ELSE "idle")
  /\ UNCHANGED <<state, cooled, cut>>

\* recordFailure: the upsert increments and returns the row ...
RecordFailure(c) ==
  /\ at[c] = "calling"
  /\ failures < MaxFailures
  /\ failures' = failures + 1
  /\ Puts(c, IF failures' >= Threshold /\ state # "OPEN" THEN "trip" ELSE "idle")
  /\ UNCHANGED <<state, cooled, cut>>

\* ... and OPEN is written after it
Trip(c) ==
  /\ at[c] = "trip"
  /\ state' = "OPEN" /\ cooled' = FALSE
  /\ Puts(c, "idle")
  /\ UNCHANGED <<failures, cut>>

Cooldown ==
  /\ state = "OPEN" /\ cooled' = TRUE
  /\ UNCHANGED <<state, failures, at, cut>>

CallerDies(c) ==
  /\ at[c] # "idle"
  /\ Puts(c, "idle") /\ cut' = (cut \/ at[c] = "trip")
  /\ UNCHANGED <<state, failures, cooled>>

BreakerInit ==
  /\ state = "CLOSED" /\ failures = 0 /\ cooled = FALSE /\ cut = FALSE
  /\ at = [c \in Callers |-> "idle"]

CallerStep(c) == HalfOpen(c) \/ RecordSuccess(c) \/ RecordFailure(c) \/ Trip(c)

BreakerNext == (\E c \in Callers : Ask(c) \/ CallerStep(c) \/ CallerDies(c)) \/ Cooldown

BreakerSpec == BreakerInit /\ [][BreakerNext]_breakerVars

\* Time passes, clients go on asking, and the process does not die each time
\* at the same step.
BreakerFairness ==
  /\ WF_breakerVars(Cooldown)
  /\ \A c \in Callers : WF_breakerVars(Ask(c))
  /\ SF_breakerVars(\E c \in Callers : CallerStep(c))

BreakerLiveSpec == BreakerSpec /\ BreakerFairness

-----------------------------------------------------------------------------

\* Types
BreakerTypeOK ==
  /\ state \in {"CLOSED", "OPEN", "HALF_OPEN"}
  /\ failures \in Nat
  /\ {cooled, cut} \subseteq BOOLEAN
  /\ at \in [Callers -> {"idle", "halfOpen", "calling", "trip"}]

\* A circuit that counted enough failures does not stay closed: while it is
\* CLOSED some client is about to write OPEN, whatever calls overlap, unless
\* a process died between the two writes of recordFailure.
TripIsWritten ==
  state = "CLOSED" /\ failures >= Threshold /\ ~cut => \E c \in Callers : at[c] = "trip"

\* A circuit that opens is tried again: it never refuses for ever, although
\* the process may die between the cooldown's test and the HALF_OPEN write.
Retried == state = "OPEN" ~> state # "OPEN"

\* A circuit that counted enough failures is OPEN or about to be written so
BreakerSafety == BreakerTypeOK /\ TripIsWritten

=============================================================================
