------------------------------ MODULE Reminder ------------------------------
(***************************************************************************)
(* PrevisionsReminderCron: once a day, and two minutes after each start of *)
(* the server, the farmers whose harvest is four to six days ahead are     *)
(* reminded of it, at most once in six days.  Time is counted in days.     *)
(***************************************************************************)
EXTENDS Integers, FiniteSets

CONSTANTS
  Forecasts,  \* previsions_production
  LastDay,    \* bound on the clock
  Harvests,   \* dates a forecast may have
  NoPass

ASSUME ReminderAssumption ==
  LastDay \in Nat /\ Harvests \subseteq Int /\ \A S \in SUBSET Forecasts : NoPass # S

VARIABLES
  today,
  server,     \* whether it runs, and whether its pass of this day is still to come
  forecast,   \* status OPEN or not, date_recolte_prev
  due,        \* the forecasts a pass has still to go through, or NoPass
  notes,      \* days of the PREVISION_J5_REMINDER rows of each forecast
  owed,       \* history: open forecasts four to six days ahead on a day when a pass ended
  unsettled   \* history: forecasts rescheduled, or whose notification failed

reminderVars == <<today, server, forecast, due, notes, owed, unsettled>>

\* ANTI_SPAM_WINDOW_MS
SpamDays == 6

\* Mutant: the last day only
InWindowLast(d) == d = today + 4

\* [J+4, J+6]
InWindow(d) == today + 4 <= d /\ d <= today + 6

\* Mutant: any notification of the day
RecentDay(p) == today \in notes[p]

Recent(p) == \E d \in notes[p] : today < d + SpamDays

\* onModuleInit: a first pass, then one a day
Start ==
  /\ ~server.up
  /\ server' = [up |-> TRUE, duty |-> TRUE]
  /\ UNCHANGED <<today, forecast, due, notes, owed, unsettled>>

\* onModuleDestroy, or a crash, in the middle of a pass too
Stop ==
  /\ server.up
  /\ server' = [up |-> FALSE, duty |-> FALSE]
  /\ due' = NoPass
  /\ UNCHANGED <<today, forecast, notes, owed, unsettled>>

\* environment: a day passes; the timer of a server that runs has fired by then
DayPasses ==
  /\ today < LastDay /\ due = NoPass /\ ~server.duty
  /\ today' = today + 1
  /\ server' = [server EXCEPT !.duty = server.up]
  /\ UNCHANGED <<forecast, due, notes, owed, unsettled>>

\* runOnce: the forecasts of the window, OPEN and not converted ...
BeginPass ==
  /\ server.duty /\ due = NoPass
  /\ due' = {p \in Forecasts : forecast[p].open /\ InWindow(forecast[p].date)}
  /\ UNCHANGED <<today, server, forecast, notes, owed, unsettled>>

\* ... reminded recently ...
Skip(p) ==
  /\ due # NoPass /\ p \in due /\ Recent(p)
  /\ due' = due \ {p}
  /\ UNCHANGED <<today, server, forecast, notes, owed, unsettled>>

\* ... or not; a notification that fails is left for the next pass
Remind(p, ok) ==
  /\ due # NoPass /\ p \in due /\ ~Recent(p)
  /\ notes' = IF ok THEN [notes EXCEPT ![p] = @ \cup {today}] ELSE notes
  /\ unsettled' = IF ok THEN unsettled ELSE unsettled \cup {p}
  /\ due' = due \ {p}
  /\ UNCHANGED <<today, server, forecast, owed>>

EndPass ==
  /\ due = {}
  /\ due' = NoPass
  /\ server' = [server EXCEPT !.duty = FALSE]
  /\ owed' = owed \cup {p \in Forecasts : forecast[p].open /\ forecast[p].date - today \in 4 .. 6}
  /\ UNCHANGED <<today, forecast, notes, unsettled>>

\* environment: convertPrevision, rejectPrevision; updatePrevision of the date
Close(p) ==
  /\ forecast[p].open
  /\ forecast' = [forecast EXCEPT ![p].open = FALSE]
  /\ UNCHANGED <<today, server, due, notes, owed, unsettled>>

Reschedule(p, d) ==
  /\ forecast[p].open
  /\ forecast' = [forecast EXCEPT ![p].date = d]
  /\ unsettled' = unsettled \cup {p}
  /\ UNCHANGED <<today, server, due, notes, owed>>

ReminderInit ==
  /\ today = 0
  /\ server = [up |-> FALSE, duty |-> FALSE]
  /\ forecast \in [Forecasts -> [open : {TRUE}, date : Harvests]]
  /\ due = NoPass
  /\ notes = [p \in Forecasts |-> {}]
  /\ owed = {} /\ unsettled = {}

ReminderNext ==
  \/ Start \/ Stop \/ DayPasses \/ BeginPass \/ EndPass
  \/ \E p \in Forecasts :
       \/ Skip(p) \/ Close(p)
       \/ \E ok \in BOOLEAN : Remind(p, ok)
       \/ \E d \in Harvests : Reschedule(p, d)

ReminderSpec == ReminderInit /\ [][ReminderNext]_reminderVars

-----------------------------------------------------------------------------
(* Properties                                                              *)

\* Types; the farmer is not reminded twice of a forecast within six days, however often
\* the server starts and whatever its date becomes
ReminderTypeOK ==
  /\ today \in 0 .. LastDay /\ server \in [up : BOOLEAN, duty : BOOLEAN]
  /\ due = NoPass \/ due \subseteq Forecasts
  /\ \A p \in Forecasts : \A d, e \in notes[p] : d < e => d + SpamDays <= e

\* A farmer is reminded of his harvest if a pass ended on one of the three days, unless
\* the date changed or the notification failed: a pass cut short is made good by the next
RemindedInTime == \A p \in owed \ unsettled : notes[p] # {}

\* A farmer is reminded of each harvest, and not twice within six days
ReminderSafety == ReminderTypeOK /\ RemindedInTime

=============================================================================
