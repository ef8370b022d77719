------------------------------ MODULE Notices ------------------------------
(***************************************************************************)
(* Notifications: the row, the event on the stream of its user, and the    *)
(* push to his devices that nobody waits for.  NotificationsService with   *)
(* enregistrerDeviceToken of AuthService; Firebase is external.            *)
(***************************************************************************)
EXTENDS Naturals, FiniteSets

CONSTANTS
  Readers,  \* users
  Devices,  \* FCM tokens
  Bells, \* 1..n: notifications, in the order of their requests
  NoOne     \* a notification nobody asked for yet

ASSUME NoticesAssumption == NoOne \notin Readers

VARIABLES
  notice,   \* notifications: user, where it is, is_read, whether its stream had it
  device,   \* device_tokens, per user and token: "none", "on", "off" (is_active)
  dead,     \* tokens that Firebase no longer knows
  stream,   \* users with an open SSE stream
  push,     \* per notification, the progress of sendFcm
  spoilt    \* history: rows disabled by a payload that Firebase refused

noticesVars == <<notice, device, dead, stream, push, spoilt>>

NoNotice == [of |-> NoOne, row |-> "none", read |-> FALSE, streamed |-> FALSE, due |-> FALSE]
NoPush == [at |-> "none", tokens |-> {}, off |-> {}]

Wanted(n) == notice[n].of # NoOne
ActiveTokens(u) == {t \in Devices : device[u][t] = "on"}

-----------------------------------------------------------------------------
(* create                                                                  *)

\* A service asks for a notification
AskNotice(n, u) ==
  /\ ~Wanted(n) /\ \A m \in Bells : m < n => Wanted(m)
  /\ notice' = [notice EXCEPT ![n].of = u, ![n].row = "asked"]
  /\ UNCHANGED <<device, dead, stream, push, spoilt>>

\* Mutant: the stream and the devices are told all the same
FollowsAnyway(fails) == TRUE

Follows(fails) == ~fails

\* The INSERT, which may fail: nothing follows then
InsertNotice(n, fails) ==
  /\ notice[n].row = "asked"
  /\ notice' = [notice EXCEPT ![n].row = IF fails THEN "failed" ELSE "live",
                              ![n].due = ~fails /\ notice[n].of \in stream]
  /\ push' = IF Follows(fails) THEN [push EXCEPT ![n].at = "told"] ELSE push
  /\ UNCHANGED <<device, dead, stream, spoilt>>

\* Mutant: the stream carries the notifications of the others
StreamOfOthers(n) == stream \ {notice[n].of} # {}

\* The controller filters notifications$ by user
StreamOf(n) == notice[n].of \in stream

\* ... and on its return the event of the stream; sendFcm starts
EmitNotice(n) ==
  /\ push[n].at = "told"
  /\ notice' = [notice EXCEPT ![n].streamed = StreamOf(n)]
  /\ push' = [push EXCEPT ![n].at = "read"]
  /\ UNCHANGED <<device, dead, stream, spoilt>>

-----------------------------------------------------------------------------
(* sendFcm                                                                 *)

\* The active tokens of the user; without one it ends
ReadTokens(n) ==
  LET tokens == ActiveTokens(notice[n].of) IN
  /\ push[n].at = "read"
  /\ push' = [push EXCEPT ![n].at = IF tokens = {} THEN "done" ELSE "send",
                          ![n].tokens = tokens]
  /\ UNCHANGED <<notice, device, dead, stream, spoilt>>

\* Mutant: failures that pass count as well
RefusedOrBusy(tokens, busy) == (tokens \cap dead) \cup busy

\* The answers registration-token-not-registered and invalid-registration-token
Refused(tokens, busy) == tokens \cap dead

\* Firebase answers for each token: it reached the device, the device is gone, or the
\* failure may pass
Answered(n, busy) ==
  /\ push[n].at = "send" /\ busy \subseteq push[n].tokens \ dead
  /\ push' = [push EXCEPT ![n].at = "disable", ![n].off = Refused(push[n].tokens, busy)]
  /\ UNCHANGED <<notice, device, dead, stream, spoilt>>

\* ... or it refuses the payload, invalid-argument for every token
Malformed(n) ==
  /\ push[n].at = "send"
  /\ push' = [push EXCEPT ![n].at = "disable", ![n].off = push[n].tokens]
  /\ spoilt' = spoilt \cup {<<notice[n].of, t>> : t \in push[n].tokens}
  /\ UNCHANGED <<notice, device, dead, stream>>

\* ... or there is no answer: a warning is all
NoAnswer(n) ==
  /\ push[n].at = "send"
  /\ push' = [push EXCEPT ![n].at = "done"]
  /\ UNCHANGED <<notice, device, dead, stream, spoilt>>

\* The tokens refused are switched off, by the ids read before the call
DisableTokens(n) ==
  LET u == notice[n].of IN
  /\ push[n].at = "disable"
  /\ device' = [device EXCEPT ![u] = [t \in Devices |-> IF t \in push[n].off THEN "off" ELSE @[t]]]
  /\ push' = [push EXCEPT ![n] = [NoPush EXCEPT !.at = "done"]]
  /\ UNCHANGED <<notice, dead, stream, spoilt>>

-----------------------------------------------------------------------------
(* Clients                                                                 *)

\* enregistrerDeviceToken: an upsert on (user_id, fcm_token), that switches it on.  An
\* app that registers has a token Firebase knows.
RegisterDevice(u, t) ==
  /\ t \notin dead
  /\ device' = [device EXCEPT ![u][t] = "on"]
  /\ spoilt' = IF \E n \in Bells : push[n].at = "disable" /\ notice[n].of = u /\ t \in push[n].off
               THEN spoilt ELSE spoilt \ {<<u, t>>}
  /\ UNCHANGED <<notice, dead, stream, push>>

\* The app is removed: its token is never valid again
Uninstall(t) ==
  /\ dead' = dead \cup {t}
  /\ UNCHANGED <<notice, device, stream, push, spoilt>>

OpenStream(u) ==
  /\ stream' = stream \cup {u}
  /\ UNCHANGED <<notice, device, dead, push, spoilt>>

\* A stream that closes owes nothing
CloseStream(u) ==
  /\ u \in stream
  /\ stream' = stream \ {u}
  /\ notice' = [n \in Bells |-> IF notice[n].of = u THEN [notice[n] EXCEPT !.due = FALSE]
                                   ELSE notice[n]]
  /\ UNCHANGED <<device, dead, push, spoilt>>

\* markAsRead, delete and markAllAsRead, by the user it belongs to; a row deleted
\* meanwhile makes the write fail
MarkRead(n) ==
  /\ notice[n].row = "live"
  /\ notice' = [notice EXCEPT ![n].read = TRUE]
  /\ UNCHANGED <<device, dead, stream, push, spoilt>>

MarkAllRead(u) ==
  /\ notice' = [n \in Bells |-> IF notice[n].of = u /\ notice[n].row = "live"
                                   THEN [notice[n] EXCEPT !.read = TRUE] ELSE notice[n]]
  /\ UNCHANGED <<device, dead, stream, push, spoilt>>

DeleteNotice(n) ==
  /\ notice[n].row = "live"
  /\ notice' = [notice EXCEPT ![n].row = "deleted"]
  /\ UNCHANGED <<device, dead, stream, push, spoilt>>

NoticesInit ==
  /\ notice = [n \in Bells |-> NoNotice]
  /\ device = [u \in Readers |-> [t \in Devices |-> "none"]]
  /\ dead = {} /\ stream = {} /\ spoilt = {}
  /\ push = [n \in Bells |-> NoPush]

NoticesNext ==
  \/ \E n \in Bells :
       \/ \E u \in Readers : AskNotice(n, u)
       \/ \E fails \in BOOLEAN : InsertNotice(n, fails)
       \/ EmitNotice(n) \/ ReadTokens(n) \/ Malformed(n) \/ NoAnswer(n) \/ DisableTokens(n)
       \/ \E busy \in SUBSET Devices : Answered(n, busy)
       \/ MarkRead(n) \/ DeleteNotice(n)
  \/ \E u \in Readers :
       \/ \E t \in Devices : RegisterDevice(u, t)
       \/ OpenStream(u) \/ CloseStream(u) \/ MarkAllRead(u)
  \/ \E t \in Devices : Uninstall(t)

NoticesSpec == NoticesInit /\ [][NoticesNext]_noticesVars

-----------------------------------------------------------------------------
(* Properties                                                              *)

\* Types; only a notification that was stored reaches a stream or a device
NoticesTypeOK ==
  /\ \A n \in Bells :
       /\ notice[n].of \in Readers \cup {NoOne}
       /\ notice[n].row \in {"none", "asked", "failed", "live", "deleted"}
       /\ notice[n].row \in {"none", "asked", "failed"} =>
            ~notice[n].streamed /\ push[n] = NoPush
       /\ push[n].at \in {"none", "told", "read", "send", "disable", "done"}
  /\ device \in [Readers -> [Devices -> {"none", "on", "off"}]]

\* A token that Firebase still knows stays active, unless a payload was refused: what
\* is switched off are the tokens the answer named, whatever was registered meanwhile
OffIsDead ==
  \A u \in Readers, t \in Devices :
    device[u][t] = "off" => t \in dead \/ <<u, t>> \in spoilt

\* A user whose stream was open from the INSERT on has the event
StreamHasIt ==
  \A n \in Bells : notice[n].due /\ push[n].at \notin {"none", "told"} => notice[n].streamed

\* An open stream misses no event, and only tokens Firebase gave up are switched off
NoticesSafety == NoticesTypeOK /\ OffIsDead /\ StreamHasIt

=============================================================================
