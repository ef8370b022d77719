-------------------------------- MODULE Crons --------------------------------
(***************************************************************************)
(* The timers of the periodic jobs.  Each sets a timer for its first pass, *)
(* some minutes after the server starts, and an interval for the others;   *)
(* only the interval is kept, so only it is cleared when the module stops. *)
(* A pass is asynchronous: nothing waits for its end, the next may begin   *)
(* before it, and what it throws is logged.  Time is counted in minutes    *)
(* and goes from one timer to the next.                                    *)
(***************************************************************************)
EXTENDS Integers, FiniteSets

CONSTANTS
  Jobs,     \* the jobs that are run, among those below
  Passes,   \* bound on the passes a behaviour is followed for
  Never

\* The timers are minutes ahead, the first pass before the second one
ASSUME CronsAssumption ==
  /\ Passes \in Nat /\ Never \notin Nat \ {0}
  /\ \A j \in Jobs :
       /\ j.first \in Nat \ {0} /\ j.period \in Nat \ {0}
       /\ j.first < j.period

VARIABLES
  cron,     \* the job
  process,  \* "down", "up", or "stopping" once its modules are destroyed
  now,
  first,    \* when the timer of the first pass fires
  timer,    \* when the interval fires
  running,  \* the passes begun and not ended, by the time they began
  since,    \* history: when the last pass began, or the server started
  wanted,   \* history: started with this job on, and neither stopped nor killed since
  begun,    \* history: the passes that began
  late      \* history: the passes that began after the module was destroyed

cronsVars == <<cron, process, now, first, timer, running, since, wanted, begun, late>>

ExpireReservations == [first |-> 5, period |-> 60]
CleanupOrders == [first |-> 5, period |-> 60]
CleanupShipments == [first |-> 10, period |-> 60]
Reconcile == [first |-> 1, period |-> 24 * 60]
RemindHarvests == [first |-> 2, period |-> 24 * 60]

CronsInit ==
  /\ cron \in Jobs /\ process = "down" /\ now = 0
  /\ first = Never /\ timer = Never /\ running = {}
  /\ since = 0 /\ wanted = FALSE /\ begun = 0 /\ late = 0

\* onModuleInit, unless the environment disables the job
OnModuleInit(enabled) ==
  /\ process = "down" /\ process' = "up"
  /\ first' = IF enabled THEN now + cron.first ELSE Never
  /\ timer' = IF enabled THEN now + cron.period ELSE Never
  /\ since' = now /\ wanted' = enabled
  /\ UNCHANGED <<cron, now, running, begun, late>>

\* Mutant: the interval is never cleared
OnModuleDestroyNot ==
  /\ process = "up" /\ process' = "stopping" /\ wanted' = FALSE
  /\ UNCHANGED <<cron, now, first, timer, running, since, begun, late>>

OnModuleDestroy ==
  /\ process = "up" /\ process' = "stopping" /\ wanted' = FALSE
  /\ timer' = Never
  /\ UNCHANGED <<cron, now, first, running, since, begun, late>>

\* runOnce begins
Begin(time) ==
  /\ begun < Passes /\ begun' = begun + 1
  /\ now' = time /\ since' = time /\ running' = running \cup {time}
  /\ late' = IF process = "stopping" THEN late + 1 ELSE late

FirstPass ==
  /\ first # Never /\ (timer # Never => first <= timer)
  /\ Begin(first) /\ first' = Never
  /\ UNCHANGED <<cron, process, timer, wanted>>

\* Mutant: the interval does not begin again
IntervalPassOnce ==
  /\ timer # Never /\ (first # Never => timer < first)
  /\ Begin(timer)
  /\ UNCHANGED <<cron, process, first, timer, wanted>>

IntervalPass ==
  /\ timer # Never /\ (first # Never => timer < first)
  /\ Begin(timer) /\ timer' = timer + cron.period
  /\ UNCHANGED <<cron, process, first, wanted>>

\* Mutant: what a pass throws is not caught, and ends the process
PassEndsOrThrows(p) ==
  /\ p \in running
  /\ \/ /\ running' = running \ {p} /\ UNCHANGED <<process, first, timer>>
     \/ /\ process' = "down" /\ first' = Never /\ timer' = Never /\ running' = {}
  /\ UNCHANGED <<cron, now, since, wanted, begun, late>>

\* runOnce ends, well or not
PassEnds(p) ==
  /\ p \in running /\ running' = running \ {p}
  /\ UNCHANGED <<cron, process, now, first, timer, since, wanted, begun, late>>

\* environment: the process is killed, and its timers with it
Killed ==
  /\ process # "down" /\ process' = "down" /\ wanted' = FALSE
  /\ first' = Never /\ timer' = Never /\ running' = {} /\ late' = 0
  /\ UNCHANGED <<cron, now, since, begun>>

CronsNext ==
  \/ \E enabled \in BOOLEAN : OnModuleInit(enabled)
  \/ OnModuleDestroy \/ Killed
  \/ FirstPass \/ IntervalPass \/ \E p \in running : PassEnds(p)

CronsSpec == CronsInit /\ [][CronsNext]_cronsVars

-----------------------------------------------------------------------------

\* Passes that run are passes that began, and whatever timer is set has still to fire.
CronsTypeOK ==
  /\ process \in {"down", "up", "stopping"}
  /\ Cardinality(running) <= begun
  /\ \A t \in {first, timer} \ {Never} : t > now

\* While the server runs with the job on, the next pass begins within one period of the
\* last one, however many passes failed or overlap.
EveryPeriod ==
  wanted => \E t \in {first, timer} \ {Never} : t <= since + cron.period

\* At most one pass begins once the module is destroyed: the first one, whose timer is
\* not cleared.
OnlyFirstIsLate == late <= 1

\* Passes begin one period apart at most, and one at most begins after the module stopped
CronsSafety == CronsTypeOK /\ EveryPeriod /\ OnlyFirstIsLate

=============================================================================
