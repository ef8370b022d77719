------------------------------ MODULE Gateway ------------------------------
(***************************************************************************)
(* The WebSocket gateway of the messaging: who is online, who is in the    *)
(* room of a conversation, and who hears a message.  Sockets, rooms and    *)
(* onlineUsers are the memory of one process.  A conversation is its       *)
(* participants, which do not change (Messaging).                          *)
(***************************************************************************)
EXTENDS Naturals, FiniteSets

CONSTANTS
  Talks,    \* conversations, each the set of its participants
  Sockets,  \* connections of the clients, each used once
  Words,    \* messages
  Frames    \* events of the clients in flight

VARIABLES
  socket,   \* per connection: its user, whether it is open, the rooms it is in, what
            \* it was sent
  online,   \* onlineUsers
  word,     \* messages: conversation, whether its event was emitted
  frame,    \* the event in each hand
  doubles,  \* history: users who have had two sockets at once, until all are closed
  there     \* history: per message, who was in the room when it committed

gatewayVars == <<socket, online, word, frame, doubles, there>>

Speakers == UNION Talks

ASSUME GatewayAssumption == "nobody" \notin Speakers

NoSocket == [of |-> "nobody", open |-> FALSE, rooms |-> {}, heard |-> {}]
NoWord == [in |-> {}, emitted |-> FALSE]
NoFrame == [do |-> "idle", by |-> "none", in |-> {}, word |-> "none"]

Open(s) == socket[s].open
SocketsOf(u) == {s \in Sockets : Open(s) /\ socket[s].of = u}
InRoom(c) == {s \in Sockets : Open(s) /\ c \in socket[s].rooms}
Said(w) == word[w] # NoWord
FrameFree(r) == frame[r].do = "idle"
FrameEnds(r) == frame' = [frame EXCEPT ![r] = NoFrame]

-----------------------------------------------------------------------------

\* handleConnection, with a valid token: its verification leaves no room for an event
Connect(s, u) ==
  /\ socket[s] = NoSocket
  /\ socket' = [socket EXCEPT ![s].of = u, ![s].open = TRUE]
  /\ online' = online \cup {u}
  /\ doubles' = IF SocketsOf(u) # {} THEN doubles \cup {u} ELSE doubles
  /\ UNCHANGED <<word, frame, there>>

\* Mutant: the user stays in the map
StaysOnline(u) == online

GoesOffline(u) == online \ {u}

\* handleDisconnect; the socket leaves its rooms
Disconnect(s) ==
  LET u == socket[s].of IN
  /\ Open(s)
  /\ socket' = [socket EXCEPT ![s].open = FALSE, ![s].rooms = {}]
  /\ online' = GoesOffline(u)
  /\ doubles' = IF SocketsOf(u) = {s} THEN doubles \ {u} ELSE doubles
  /\ UNCHANGED <<word, frame, there>>

\* Mutant: anyone may join
MayJoinAnyone(u, c) == TRUE

\* isUserInConversation
MayJoin(u, c) == u \in c

\* handleJoinConversation: the participant is looked up ...
BeginJoin(r, s, c) ==
  /\ FrameFree(r) /\ Open(s) /\ MayJoin(socket[s].of, c)
  /\ frame' = [frame EXCEPT ![r] = [NoFrame EXCEPT !.do = "join", !.by = s, !.in = c]]
  /\ UNCHANGED <<socket, online, word, doubles, there>>

\* ... then the socket joins, which does nothing once it is closed
Join(r) ==
  LET s == frame[r].by IN
  /\ frame[r].do = "join"
  /\ socket' = [socket EXCEPT ![s].rooms = IF Open(s) THEN @ \cup {frame[r].in} ELSE @]
  /\ FrameEnds(r)
  /\ UNCHANGED <<online, word, doubles, there>>

\* handleSendMessage: sendMessage finds the sender among the participants, whether he
\* has joined or not ...
BeginSpeak(r, s, c) ==
  /\ FrameFree(r) /\ Open(s) /\ socket[s].of \in c
  /\ frame' = [frame EXCEPT ![r] = [NoFrame EXCEPT !.do = "speak", !.by = s, !.in = c]]
  /\ UNCHANGED <<socket, online, word, doubles, there>>

\* ... the message commits ...
CommitWord(r, w) ==
  /\ frame[r].do = "speak" /\ ~Said(w)
  /\ word' = [word EXCEPT ![w].in = frame[r].in]
  /\ there' = [there EXCEPT ![w] = InRoom(frame[r].in)]
  /\ frame' = [frame EXCEPT ![r].do = "emit", ![r].word = w]
  /\ UNCHANGED <<socket, online, doubles>>

\* Mutant: the socket of the sender is left out
RoomButSender(c, s) == InRoom(c) \ {s}

\* server.to(conversationId)
Room(c, s) == InRoom(c)

\* ... and is emitted to the room
Emit(r) ==
  /\ frame[r].do = "emit"
  /\ socket' = [s \in Sockets |->
       IF s \in Room(frame[r].in, frame[r].by)
       THEN [socket[s] EXCEPT !.heard = @ \cup {frame[r].word}] ELSE socket[s]]
  /\ word' = [word EXCEPT ![frame[r].word].emitted = TRUE]
  /\ FrameEnds(r)
  /\ UNCHANGED <<online, doubles, there>>

\* The process stops: its memory is gone
RestartGateway ==
  /\ socket' = [s \in Sockets |-> [socket[s] EXCEPT !.open = FALSE, !.rooms = {}]]
  /\ online' = {} /\ doubles' = {}
  /\ frame' = [r \in Frames |-> NoFrame]
  /\ UNCHANGED <<word, there>>

GatewayInit ==
  /\ socket = [s \in Sockets |-> NoSocket]
  /\ online = {} /\ doubles = {}
  /\ word = [w \in Words |-> NoWord]
  /\ frame = [r \in Frames |-> NoFrame]
  /\ there = [w \in Words |-> {}]

GatewayNext ==
  \/ \E s \in Sockets : Disconnect(s) \/ \E u \in Speakers : Connect(s, u)
  \/ \E r \in Frames :
       \/ \E s \in Sockets, c \in Talks : BeginJoin(r, s, c) \/ BeginSpeak(r, s, c)
       \/ \E w \in Words : CommitWord(r, w)
       \/ Join(r) \/ Emit(r)
  \/ RestartGateway

GatewaySpec == GatewayInit /\ [][GatewayNext]_gatewayVars

-----------------------------------------------------------------------------
(* Properties                                                              *)

\* Types; rooms are those of open sockets, and a message is heard by participants only,
\* joined as they were before it was sent
GatewayTypeOK ==
  /\ \A s \in Sockets : ~Open(s) => socket[s].rooms = {}
  /\ \A s \in Sockets : \A w \in socket[s].heard : socket[s].of \in word[w].in
  /\ doubles \cup online \subseteq Speakers
  /\ \A w \in Words : word[w].in \in Talks \cup {{}} /\ there[w] \subseteq Sockets
  /\ \A r \in Frames : frame[r].do \in {"idle", "join", "speak", "emit"}

\* A user who is online has a connection; one with a connection is online, unless he
\* had two of them, of which the first to close put him offline
OnlineIsConnected ==
  LET connected == {socket[s].of : s \in {t \in Sockets : Open(t)}} IN
  /\ online \subseteq connected
  /\ connected \ doubles \subseteq online

\* Whoever is in the room when a message commits, and is still connected when it has
\* been emitted, hears it, the sender included
RoomHears ==
  \A w \in Words : \A s \in there[w] :
    word[w].emitted /\ Open(s) => w \in socket[s].heard

\* Whoever is in the room hears the message, nobody else does, and online is connected
GatewaySafety == GatewayTypeOK /\ OnlineIsConnected /\ RoomHears

=============================================================================
