------------------------------- MODULE Lobby -------------------------------
(***************************************************************************)
(* The acceptor threads (main.cpp, thread_main), what a client may ask of   *)
(* them before it is in a room (dowithuser), and the map of rooms with the  *)
(* numbers generate_room_id draws for them.  A room is named by the client  *)
(* that made it; what goes on inside is in Room.                            *)
(*                                                                          *)
(* The bytes of a connection are counted as far as it takes to tell whether *)
(* dowithuser reads at the start of a frame.                                *)
(***************************************************************************)
EXTENDS Naturals, Sequences, FiniteSets

CONSTANTS
  Acceptors,        \* 4 threads in main.cpp
  Clients,          \* connections
  Numbers,          \* room numbers
  None,
  HEAD,             \* bytes of a head: 11
  MaxSent           \* bound: frames the clients send to acceptors, all together

ASSUME LobbyAssumption ==
  /\ None \notin Clients /\ None \notin Acceptors /\ None \notin Numbers
  /\ IsFiniteSet(Acceptors) /\ IsFiniteSet(Clients)
  /\ HEAD \in Nat \ {0} /\ MaxSent \in Nat

VARIABLES
  mlock,            \* the acceptor that holds mlock
  at,               \* each acceptor: what it does next
  connfd,           \* the connection it has accepted
  found,            \* the room it has found for a join
  where,            \* each client: "away", "waiting", "served", "room", "closed"
  backlog,          \* connections not accepted yet, oldest first
  sent,             \* frames sent so far (bound)
  inbox,            \* each client: the frames sent and not read yet
  gone,             \* clients that have closed
  skew,             \* bytes in front of the next frame
  owed,             \* requests of a client still to be answered
  chatted,          \* clients that have sent a text before they were in a room
  room,             \* room of each client: "none", "drawn", "on", "close", "ended"
  number,           \* its number
  g_rooms,          \* number |-> client, or None
  twins             \* numbers drawn by two acceptors at once (history)

acceptVars == <<mlock, at, connfd, found>>
clientVars == <<sent, gone, chatted>>
wireVars == <<inbox, skew, owed>>
roomVars == <<room, number, g_rooms, twins>>
vars == <<acceptVars, where, backlog, clientVars, wireVars, roomVars>>

\* CREATE_MEETING, JOIN_MEETING with a number, and a text, of which sendData
\* writes head and tail only.
Create == [type |-> "create"]
Join(n) == [type |-> "join", number |-> n]
Text == [type |-> "text"]
Frames == {Create, Text} \cup {Join(n) : n \in Numbers}

Length(f) == IF f.type = "join" THEN HEAD + 5 ELSE HEAD + 1

Init ==
  /\ mlock = None
  /\ at = [a \in Acceptors |-> "lock"]
  /\ connfd = [a \in Acceptors |-> None] /\ found = [a \in Acceptors |-> None]
  /\ where = [c \in Clients |-> "away"] /\ backlog = <<>>
  /\ sent = 0 /\ inbox = [c \in Clients |-> <<>>]
  /\ gone = {} /\ skew = [c \in Clients |-> 0] /\ owed = [c \in Clients |-> 0]
  /\ chatted = {}
  /\ room = [c \in Clients |-> "none"] /\ number = [c \in Clients |-> None]
  /\ g_rooms = [n \in Numbers |-> None] /\ twins = {}

-----------------------------------------------------------------------------
(* thread_main.                                                             *)

Lock(a) ==
  /\ at[a] = "lock" /\ mlock = None
  /\ mlock' = a
  /\ at' = [at EXCEPT ![a] = "accept"]
  /\ UNCHANGED <<connfd, found, where, backlog, clientVars, wireVars, roomVars>>

\* Accept blocks with mlock held.
AcceptConn(a) ==
  /\ at[a] = "accept" /\ backlog # <<>>
  /\ connfd' = [connfd EXCEPT ![a] = Head(backlog)]
  /\ backlog' = Tail(backlog)
  /\ where' = [where EXCEPT ![Head(backlog)] = "served"]
  /\ mlock' = None
  /\ at' = [at EXCEPT ![a] = "read"]
  /\ UNCHANGED <<found, clientVars, wireVars, roomVars>>

-----------------------------------------------------------------------------
(* dowithuser.                                                              *)

\* Readn gives less than a head and then nothing.
MutantReadClosed(a) ==
  /\ at[a] = "read"
  /\ inbox[connfd[a]] = <<>> /\ skew[connfd[a]] = 0 /\ connfd[a] \in gone
  /\ where' = [where EXCEPT ![connfd[a]] = "closed"]
  /\ at' = [at EXCEPT ![a] = "lock"]
  /\ UNCHANGED <<mlock, connfd, found, backlog, clientVars, wireVars, roomVars>>

ReadClosed(a) ==
  /\ at[a] = "read"
  /\ inbox[connfd[a]] = <<>> /\ connfd[a] \in gone
  /\ where' = [where EXCEPT ![connfd[a]] = "closed"]
  /\ at' = [at EXCEPT ![a] = "lock"]
  /\ UNCHANGED <<mlock, connfd, found, backlog, clientVars, wireVars, roomVars>>

\* The next frame is read, and what is left of it stands before the one after.
Reads(a, f, left) ==
  /\ at[a] = "read"
  /\ inbox[connfd[a]] # <<>> /\ f = Head(inbox[connfd[a]])
  /\ inbox' = [inbox EXCEPT ![connfd[a]] = Tail(@)]
  /\ skew' = [skew EXCEPT ![connfd[a]] = left]

InStep(a) == at[a] = "read" /\ skew[connfd[a]] = 0

\* "data format error": heads are read across the frames until the bytes left
\* are fewer than a head.
MutantReadAcross(a) ==
  /\ at[a] = "read" /\ skew[connfd[a]] # 0
  /\ \E f \in Frames : Reads(a, f, skew[connfd[a]] + Length(f) - HEAD)
  /\ UNCHANGED <<acceptVars, where, backlog, clientVars, owed, roomVars>>

ReadAcross(a) ==
  /\ at[a] = "read" /\ skew[connfd[a]] # 0
  /\ \E f \in Frames : Reads(a, f, (skew[connfd[a]] + Length(f)) % HEAD)
  /\ UNCHANGED <<acceptVars, where, backlog, clientVars, owed, roomVars>>

\* Of a frame of another type only the head is read.
ReadOther(a) ==
  /\ InStep(a)
  /\ Reads(a, Text, 1 % HEAD)
  /\ UNCHANGED <<acceptVars, where, backlog, clientVars, owed, roomVars>>

\* CREATE_MEETING: generate_room_id draws until the number is not in the map
\* and releases g_roomsMutex.
MutantReadCreate(a) ==
  /\ InStep(a)
  /\ Reads(a, Create, 0)
  /\ LET c == connfd[a] IN \E n \in Numbers :
       /\ number' = [number EXCEPT ![c] = n]
       /\ room' = [room EXCEPT ![c] = "drawn"]
       /\ twins' = IF \E d \in Clients : room[d] = "drawn" /\ number[d] = n
                     THEN twins \cup {n} ELSE twins
  /\ at' = [at EXCEPT ![a] = "publish"]
  /\ UNCHANGED <<mlock, connfd, found, where, backlog, clientVars, owed, g_rooms>>

ReadCreate(a) ==
  /\ InStep(a)
  /\ Reads(a, Create, 0)
  /\ LET c == connfd[a] IN \E n \in Numbers :
       /\ g_rooms[n] = None
       /\ number' = [number EXCEPT ![c] = n]
       /\ room' = [room EXCEPT ![c] = "drawn"]
       /\ twins' = IF \E d \in Clients : room[d] = "drawn" /\ number[d] = n
                     THEN twins \cup {n} ELSE twins
  /\ at' = [at EXCEPT ![a] = "publish"]
  /\ UNCHANGED <<mlock, connfd, found, where, backlog, clientVars, owed, g_rooms>>

\* g_rooms[roomId] = pool.
Publish(a) ==
  /\ at[a] = "publish"
  /\ g_rooms' = [g_rooms EXCEPT ![number[connfd[a]]] = connfd[a]]
  /\ room' = [room EXCEPT ![connfd[a]] = "on"]
  /\ at' = [at EXCEPT ![a] = "start"]
  /\ UNCHANGED <<mlock, connfd, found, where, backlog, clientVars, wireVars,
                 number, twins>>

\* 'C' is queued and the room's thread is started.
Answered(a) == owed' = [owed EXCEPT ![connfd[a]] = IF @ = 0 THEN 0 ELSE @ - 1]

Start(a) ==
  /\ at[a] = "start"
  /\ where' = [where EXCEPT ![connfd[a]] = "room"]
  /\ Answered(a)
  /\ at' = [at EXCEPT ![a] = "lock"]
  /\ UNCHANGED <<mlock, connfd, found, backlog, clientVars, inbox, skew, roomVars>>

\* JOIN_MEETING: there is no room of that number, or it is looked at next.
MutantReadJoin(a) ==
  /\ InStep(a)
  /\ \E n \in Numbers :
       /\ Reads(a, Join(n), 0)
       /\ found' = [found EXCEPT ![a] = g_rooms[n]]
       /\ at' = [at EXCEPT ![a] = IF g_rooms[n] = None THEN "read" ELSE "check"]
  /\ UNCHANGED <<mlock, connfd, where, backlog, clientVars, owed, roomVars>>

ReadJoin(a) ==
  /\ InStep(a)
  /\ \E n \in Numbers :
       /\ Reads(a, Join(n), 0)
       /\ found' = [found EXCEPT ![a] = g_rooms[n]]
       /\ IF g_rooms[n] = None
            THEN Answered(a) /\ UNCHANGED at
            ELSE at' = [at EXCEPT ![a] = "check"] /\ UNCHANGED owed
  /\ UNCHANGED <<mlock, connfd, where, backlog, clientVars, roomVars>>

\* A room that is full, or closed since it was found, refuses.
Refuse(a) ==
  /\ at[a] = "check"
  /\ Answered(a)
  /\ at' = [at EXCEPT ![a] = "read"]
  /\ UNCHANGED <<mlock, connfd, found, where, backlog, clientVars, inbox, skew,
                 roomVars>>

Admit(a) ==
  /\ at[a] = "check"
  /\ room[found[a]] = "on"
  /\ at' = [at EXCEPT ![a] = "hand"]
  /\ UNCHANGED <<mlock, connfd, found, where, backlog, clientVars, wireVars, roomVars>>

Hand(a) ==
  /\ at[a] = "hand"
  /\ where' = [where EXCEPT ![connfd[a]] = "room"]
  /\ Answered(a)
  /\ at' = [at EXCEPT ![a] = "lock"]
  /\ UNCHANGED <<mlock, connfd, found, backlog, clientVars, inbox, skew, roomVars>>

-----------------------------------------------------------------------------
(* A room's end.                                                            *)

RoomUnchanged == UNCHANGED <<acceptVars, where, backlog, clientVars, wireVars,
                             number, twins>>

RoomCloses(c) ==
  /\ room[c] = "on" /\ where[c] = "room"
  /\ room' = [room EXCEPT ![c] = "close"]
  /\ RoomUnchanged /\ UNCHANGED g_rooms

\* g_rooms.erase(roomId) erases whatever stands under the number.
RoomErases(c) ==
  /\ room[c] = "close"
  /\ room' = [room EXCEPT ![c] = "ended"]
  /\ g_rooms' = [g_rooms EXCEPT ![number[c]] = None]
  /\ RoomUnchanged

-----------------------------------------------------------------------------
(* Clients.                                                                 *)

ConnectServer(c) ==
  /\ where[c] = "away"
  /\ where' = [where EXCEPT ![c] = "waiting"]
  /\ backlog' = Append(backlog, c)
  /\ UNCHANGED <<acceptVars, clientVars, wireVars, roomVars>>

\* A text can be sent as soon as the client is connected; what a client sends
\* in a room goes to the room's thread.
SendFrame(c) ==
  /\ where[c] \in {"waiting", "served"} /\ c \notin gone
  /\ sent < MaxSent
  /\ sent' = sent + 1
  /\ \E f \in Frames :
       /\ inbox' = [inbox EXCEPT ![c] = Append(@, f)]
       /\ IF f = Text
            THEN chatted' = chatted \cup {c} /\ UNCHANGED owed
            ELSE owed' = [owed EXCEPT ![c] = @ + 1] /\ UNCHANGED chatted
  /\ UNCHANGED <<acceptVars, where, backlog, gone, skew, roomVars>>

CloseConn(c) ==
  /\ where[c] \in {"waiting", "served"} /\ c \notin gone
  /\ gone' = gone \cup {c}
  /\ UNCHANGED <<acceptVars, where, backlog, sent, chatted, wireVars, roomVars>>

-----------------------------------------------------------------------------
Acceptor(a) ==
  \/ Lock(a) \/ AcceptConn(a) \/ ReadClosed(a) \/ ReadAcross(a) \/ ReadOther(a)
  \/ ReadCreate(a) \/ Publish(a) \/ Start(a) \/ ReadJoin(a) \/ Refuse(a)
  \/ Admit(a) \/ Hand(a)
RoomThread(c) == RoomCloses(c) \/ RoomErases(c)
Client(c) == ConnectServer(c) \/ SendFrame(c) \/ CloseConn(c)

Next == \/ \E a \in Acceptors : Acceptor(a)
        \/ \E c \in Clients : RoomThread(c) \/ Client(c)

Spec == Init /\ [][Next]_vars

\* The acceptors go on; clients and rooms owe nothing.
FairSpec == Spec /\ \A a \in Acceptors : WF_vars(Acceptor(a))

-----------------------------------------------------------------------------
(* Properties.                                                              *)

\* Types of the variables.
TypeOK ==
  /\ mlock \in Acceptors \cup {None}
  /\ at \in [Acceptors -> {"lock", "accept", "read", "publish", "start", "check", "hand"}]
  /\ connfd \in [Acceptors -> Clients \cup {None}]
  /\ found \in [Acceptors -> Clients \cup {None}]
  /\ where \in [Clients -> {"away", "waiting", "served", "room", "closed"}]
  /\ backlog \in Seq(Clients)
  /\ sent \in 0..MaxSent /\ inbox \in [Clients -> Seq(Frames)]
  /\ gone \subseteq Clients /\ skew \in [Clients -> 0..(HEAD - 1)]
  /\ owed \in [Clients -> 0..MaxSent] /\ chatted \subseteq Clients
  /\ room \in [Clients -> {"none", "drawn", "on", "close", "ended"}]
  /\ number \in [Clients -> Numbers \cup {None}]
  /\ g_rooms \in [Numbers -> Clients \cup {None}] /\ twins \subseteq Numbers

\* The map and the rooms agree: what is found under a number is a room that has
\* not ended, and a room that has been published and has not ended is found
\* under its number.  Once two acceptors have drawn one number at the same
\* time, only the first half is left (userdeal.cpp 15-25, 98-104; room.cpp 187).
MapAgrees ==
  /\ \A n \in Numbers : g_rooms[n] # None => room[g_rooms[n]] \in {"on", "close"}
  /\ \A c \in Clients : room[c] \in {"on", "close"} =>
       g_rooms[number[c]] = c \/ number[c] \in twins

\* Every acceptor reads from a client that says nothing and does not close.
AllHeld == \A a \in Acceptors :
  at[a] = "read" /\ inbox[connfd[a]] = <<>> /\ connfd[a] \notin gone

\* A connection that waits is accepted, unless all acceptors are held by silent
\* clients (userdeal.cpp 37-46, 58).
EveryoneAccepted ==
  \A c \in Clients : where[c] = "waiting" ~> where[c] # "waiting" \/ AllHeld

\* A request made of an acceptor is answered or taken over by a room, unless
\* the client has sent a text before: dowithuser has then lost its step and may
\* not find it again (userdeal.cpp 55-72).
EveryoneAnswered ==
  \A c \in Clients :
    where[c] = "served" /\ owed[c] > 0 ~> owed[c] = 0 \/ where[c] = "room" \/ c \in chatted
=============================================================================
