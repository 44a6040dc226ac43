----------------------------- MODULE LobbyProof -----------------------------
(***************************************************************************)
(* The map of rooms and the rooms agree, for any number of acceptors,       *)
(* clients and room numbers.                                                *)
(***************************************************************************)
EXTENDS Lobby, TLAPS

-----------------------------------------------------------------------------
(* Types.                                                                   *)

\* Where an acceptor has a connection.
Serving == {"read", "publish", "start", "check", "hand"}

Typed ==
  /\ TypeOK
  /\ \A c \in Clients : owed[c] <= sent
  /\ \A a \in Acceptors : at[a] \in Serving => connfd[a] \in Clients

\* What is left of a frame in front of the next is less than a head.
LEMMA Left ==
  ASSUME NEW k \in Nat, NEW f \in Frames
  PROVE  (k + Length(f)) % HEAD \in 0..(HEAD - 1) /\ 1 % HEAD \in 0..(HEAD - 1)
         /\ 0 \in 0..(HEAD - 1)
<1>1. HEAD \in Nat \ {0}
  BY LobbyAssumption
<1>2. Length(f) \in Nat
  BY <1>1 DEF Length
<1> QED
  BY <1>1, <1>2

\* Reading a frame keeps the types of what has been sent.
LEMMA ReadsTyped ==
  ASSUME Typed, NEW a \in Acceptors, NEW f, NEW left \in 0..(HEAD - 1), Reads(a, f, left)
  PROVE  inbox' \in [Clients -> Seq(Frames)] /\ skew' \in [Clients -> 0..(HEAD - 1)]
<1> DEFINE c == connfd[a]
<1>1. c \in Clients /\ inbox[c] \in Seq(Frames) /\ inbox[c] # <<>>
  BY DEF Typed, TypeOK, Reads, Serving
<1>2. Tail(inbox[c]) \in Seq(Frames)
  BY <1>1
<1>3. inbox' = [inbox EXCEPT ![c] = Tail(inbox[c])] /\ skew' = [skew EXCEPT ![c] = left]
  BY DEF Reads
<1> HIDE DEF c
<1> QED
  BY <1>1, <1>2, <1>3 DEF Typed, TypeOK

\* Answering a request keeps the count of those that are owed.
LEMMA AnsweredTyped ==
  ASSUME Typed, NEW a \in Acceptors, Answered(a), sent' = sent
  PROVE  owed' \in [Clients -> 0..MaxSent] /\ \A c \in Clients : owed'[c] <= sent'
<1> DEFINE x == connfd[a]
           left == IF owed[x] = 0 THEN 0 ELSE owed[x] - 1
<1>1. MaxSent \in Nat /\ sent \in Nat
  BY LobbyAssumption DEF Typed, TypeOK
<1>2. owed \in [Clients -> 0..MaxSent] /\ \A c \in Clients : owed[c] <= sent
  BY DEF Typed, TypeOK
<1>3. owed' = [owed EXCEPT ![x] = left]
  BY DEF Answered
<1>4. x \in Clients => left \in 0..MaxSent /\ left <= sent
  BY <1>1, <1>2
<1> HIDE DEF x, left
<1>5. owed' \in [Clients -> 0..MaxSent]
  BY <1>2, <1>3, <1>4
<1>6. ASSUME NEW c \in Clients
      PROVE  owed'[c] <= sent
  <2>1. CASE c = x
    BY <1>2, <1>3, <1>4, <2>1
  <2>2. CASE c # x
    BY <1>2, <1>3, <2>2
  <2> QED
    BY <2>1, <2>2
<1> QED
  BY <1>5, <1>6

\* The parts of Typed that are about the acceptors, and the others.
Posts ==
  /\ mlock \in Acceptors \cup {None}
  /\ at \in [Acceptors -> {"lock", "accept"} \cup Serving]
  /\ connfd \in [Acceptors -> Clients \cup {None}]
  /\ found \in [Acceptors -> Clients \cup {None}]
  /\ \A a \in Acceptors : at[a] \in Serving => connfd[a] \in Clients

Wires ==
  /\ sent \in 0..MaxSent /\ inbox \in [Clients -> Seq(Frames)]
  /\ skew \in [Clients -> 0..(HEAD - 1)]
  /\ owed \in [Clients -> 0..MaxSent]
  /\ \A c \in Clients : owed[c] <= sent
  /\ gone \subseteq Clients /\ chatted \subseteq Clients

Ways ==
  /\ where \in [Clients -> {"away", "waiting", "served", "room", "closed"}]
  /\ backlog \in Seq(Clients)

Rooms ==
  /\ room \in [Clients -> {"none", "drawn", "on", "close", "ended"}]
  /\ number \in [Clients -> Numbers \cup {None}]
  /\ g_rooms \in [Numbers -> Clients \cup {None}] /\ twins \subseteq Numbers

\* Typed is these four parts, before and after a step.
LEMMA TypedParts == Typed <=> Posts /\ Wires /\ Ways /\ Rooms
BY DEF Typed, TypeOK, Posts, Wires, Ways, Rooms, Serving

\* The parts after a step make up Typed after it.
LEMMA TypedPartsPrimed == (Posts /\ Wires /\ Ways /\ Rooms)' => Typed'
BY DEF Typed, TypeOK, Posts, Wires, Ways, Rooms, Serving

\* The initial state is well typed.
LEMMA InitTyped == Init => Typed
<1>1. \A S : <<>> \in Seq(S)
  OBVIOUS
<1>2. MaxSent \in Nat /\ HEAD \in Nat \ {0}
  BY LobbyAssumption
<1> QED
  BY <1>1, <1>2 DEF Init, Typed, TypeOK, Serving

\* Every step of an acceptor keeps the types.
LEMMA AcceptorTyped ==
  ASSUME Typed, NEW a \in Acceptors, Acceptor(a)
  PROVE  Typed'
<1> USE DEF acceptVars, clientVars, wireVars, roomVars
<1>0. Posts /\ Wires /\ Ways /\ Rooms
  BY TypedParts
<1>1. CASE Lock(a)
  BY <1>0, <1>1, TypedPartsPrimed DEF Lock, Posts, Wires, Ways, Rooms, Serving
<1>2. CASE AcceptConn(a)
  <2>1. Head(backlog) \in Clients /\ Tail(backlog) \in Seq(Clients)
    BY <1>0, <1>2 DEF AcceptConn, Ways
  <2> QED
    BY <1>0, <1>2, <2>1, TypedPartsPrimed DEF AcceptConn, Posts, Wires, Ways, Rooms, Serving
<1>3. CASE ReadClosed(a)
  BY <1>0, <1>3, TypedPartsPrimed DEF ReadClosed, Posts, Wires, Ways, Rooms, Serving
<1>4. CASE ReadAcross(a)
  <2>1. PICK f \in Frames : Reads(a, f, (skew[connfd[a]] + Length(f)) % HEAD)
    BY <1>4 DEF ReadAcross
  <2>2. skew[connfd[a]] \in Nat
    BY <1>0, <2>1 DEF Reads, Posts, Wires, Serving
  <2>3. inbox' \in [Clients -> Seq(Frames)] /\ skew' \in [Clients -> 0..(HEAD - 1)]
    BY <2>1, <2>2, Left, ReadsTyped
  <2> QED
    BY <1>0, <1>4, <2>3, TypedPartsPrimed DEF ReadAcross, Posts, Wires, Ways, Rooms, Serving
<1>5. CASE ReadOther(a)
  <2>1. Text \in Frames /\ Reads(a, Text, 1 % HEAD)
    BY <1>5 DEF ReadOther, Frames
  <2>2. inbox' \in [Clients -> Seq(Frames)] /\ skew' \in [Clients -> 0..(HEAD - 1)]
    BY <2>1, Left, ReadsTyped
  <2> QED
    BY <1>0, <1>5, <2>2, TypedPartsPrimed DEF ReadOther, Posts, Wires, Ways, Rooms, Serving
<1>6. CASE ReadCreate(a)
  <2>1. Create \in Frames /\ Reads(a, Create, 0)
    BY <1>6 DEF ReadCreate, Frames
  <2>2. inbox' \in [Clients -> Seq(Frames)] /\ skew' \in [Clients -> 0..(HEAD - 1)]
    BY <2>1, Left, ReadsTyped
  <2>3. connfd[a] \in Clients
    BY <1>0, <2>1 DEF Reads, Posts, Serving
  <2>4. Rooms'
    BY <1>0, <1>6, <2>3 DEF ReadCreate, Rooms
  <2>5. Posts'
    BY <1>0, <1>6, <2>3 DEF ReadCreate, Posts, Serving
  <2> QED
    BY <1>0, <1>6, <2>2, <2>4, <2>5, TypedPartsPrimed DEF ReadCreate, Wires, Ways
<1>7. CASE Publish(a)
  <2>1. connfd[a] \in Clients
    BY <1>0, <1>7 DEF Publish, Posts, Serving
  <2> QED
    BY <1>0, <1>7, <2>1, TypedPartsPrimed DEF Publish, Posts, Wires, Ways, Rooms, Serving
<1>8. CASE Start(a)
  <2>1. owed' \in [Clients -> 0..MaxSent] /\ \A c \in Clients : owed'[c] <= sent'
    BY <1>8, AnsweredTyped DEF Start
  <2> QED
    BY <1>0, <1>8, <2>1, TypedPartsPrimed DEF Start, Posts, Wires, Ways, Rooms, Serving
<1>9. CASE ReadJoin(a)
  <2>1. PICK n \in Numbers : /\ Reads(a, Join(n), 0)
                             /\ found' = [found EXCEPT ![a] = g_rooms[n]]
                             /\ IF g_rooms[n] = None
                                  THEN Answered(a) /\ UNCHANGED at
                                  ELSE at' = [at EXCEPT ![a] = "check"] /\ UNCHANGED owed
    BY <1>9 DEF ReadJoin
  <2>2. Join(n) \in Frames
    BY DEF Frames
  <2>3. inbox' \in [Clients -> Seq(Frames)] /\ skew' \in [Clients -> 0..(HEAD - 1)]
    BY <2>1, <2>2, Left, ReadsTyped
  <2>4. connfd[a] \in Clients
    BY <1>0, <2>1 DEF Reads, Posts, Serving
  <2>5. owed' \in [Clients -> 0..MaxSent] /\ \A c \in Clients : owed'[c] <= sent'
    <3>1. sent' = sent
      BY <1>9 DEF ReadJoin
    <3>2. CASE g_rooms[n] = None
      BY <2>1, <3>1, <3>2, AnsweredTyped
    <3>3. CASE g_rooms[n] # None
      BY <1>0, <2>1, <3>1, <3>3 DEF Wires
    <3> QED
      BY <3>2, <3>3
  <2>6. Posts'
    <3>1. mlock' = mlock /\ connfd' = connfd
      BY <1>9 DEF ReadJoin
    <3>2. g_rooms[n] \in Clients \cup {None}
      BY <1>0 DEF Rooms
    <3>3. at' \in [Acceptors -> {"lock", "accept"} \cup Serving]
          /\ \A b \in Acceptors : at'[b] \in Serving => connfd[b] \in Clients
      BY <1>0, <2>1, <2>4 DEF Posts, Serving
    <3> QED
      BY <1>0, <2>1, <3>1, <3>2, <3>3 DEF Posts
  <2> QED
    BY <1>0, <1>9, <2>3, <2>5, <2>6, TypedPartsPrimed DEF ReadJoin, Wires, Ways, Rooms
<1>10. CASE Refuse(a)
  <2>1. owed' \in [Clients -> 0..MaxSent] /\ \A c \in Clients : owed'[c] <= sent'
    BY <1>10, AnsweredTyped DEF Refuse
  <2> QED
    BY <1>0, <1>10, <2>1, TypedPartsPrimed DEF Refuse, Posts, Wires, Ways, Rooms, Serving
<1>11. CASE Admit(a)
  BY <1>0, <1>11, TypedPartsPrimed DEF Admit, Posts, Wires, Ways, Rooms, Serving
<1>12. CASE Hand(a)
  <2>1. owed' \in [Clients -> 0..MaxSent] /\ \A c \in Clients : owed'[c] <= sent'
    BY <1>12, AnsweredTyped DEF Hand
  <2> QED
    BY <1>0, <1>12, <2>1, TypedPartsPrimed DEF Hand, Posts, Wires, Ways, Rooms, Serving
<1> QED
  BY <1>1, <1>2, <1>3, <1>4, <1>5, <1>6, <1>7, <1>8, <1>9, <1>10, <1>11, <1>12 DEF Acceptor

\* Every step keeps the types.
LEMMA NextTyped == Typed /\ [Next]_vars => Typed'
<1> SUFFICES ASSUME Typed, [Next]_vars PROVE Typed'
  OBVIOUS
<1> USE DEF acceptVars, clientVars, wireVars, roomVars
<1>0. Posts /\ Wires /\ Ways /\ Rooms
  BY TypedParts
<1>1. ASSUME NEW a \in Acceptors, Acceptor(a) PROVE Typed'
  BY <1>1, AcceptorTyped
<1>2. ASSUME NEW c \in Clients, RoomCloses(c) PROVE Typed'
  BY <1>0, <1>2, TypedPartsPrimed DEF RoomCloses, RoomUnchanged, Posts, Wires, Ways, Rooms
<1>3. ASSUME NEW c \in Clients, RoomErases(c) PROVE Typed'
  BY <1>0, <1>3, TypedPartsPrimed DEF RoomErases, RoomUnchanged, Posts, Wires, Ways, Rooms
<1>4. ASSUME NEW c \in Clients, ConnectServer(c) PROVE Typed'
  <2>1. Ways'
    BY <1>0, <1>4 DEF ConnectServer, Ways
  <2> QED
    BY <1>0, <1>4, <2>1, TypedPartsPrimed DEF ConnectServer, Posts, Wires, Rooms
<1>5. ASSUME NEW c \in Clients, SendFrame(c) PROVE Typed'
  <2>1. MaxSent \in Nat
    BY LobbyAssumption
  <2>2. PICK f \in Frames : /\ inbox' = [inbox EXCEPT ![c] = Append(@, f)]
                            /\ IF f = Text
                                 THEN chatted' = chatted \cup {c} /\ UNCHANGED owed
                                 ELSE owed' = [owed EXCEPT ![c] = @ + 1] /\ UNCHANGED chatted
    BY <1>5 DEF SendFrame
  <2>3. sent \in Nat /\ sent' = sent + 1 /\ sent' \in 0..MaxSent
    BY <1>0, <1>5, <2>1 DEF SendFrame, Wires
  <2>4. owed' \in [Clients -> 0..MaxSent] /\ \A d \in Clients : owed'[d] <= sent'
    <3>1. owed[c] + 1 \in 0..MaxSent /\ owed[c] + 1 <= sent'
      BY <1>0, <2>1, <2>3 DEF Wires
    <3>2. ASSUME NEW d \in Clients PROVE owed[d] \in Nat /\ owed[d] <= sent'
      BY <1>0, <2>1, <2>3 DEF Wires
    <3>3. CASE f = Text
      BY <1>0, <2>2, <3>2, <3>3 DEF Wires
    <3>4. CASE f # Text
      BY <1>0, <2>2, <3>1, <3>2, <3>4 DEF Wires
    <3> QED
      BY <3>3, <3>4
  <2>5. inbox' \in [Clients -> Seq(Frames)]
    BY <1>0, <2>2 DEF Wires
  <2>6. chatted' \subseteq Clients
    BY <1>0, <2>2 DEF Wires
  <2>7. Wires'
    BY <1>0, <1>5, <2>3, <2>4, <2>5, <2>6 DEF SendFrame, Wires
  <2> QED
    BY <1>0, <1>5, <2>7, TypedPartsPrimed DEF SendFrame, Posts, Ways, Rooms
<1>6. ASSUME NEW c \in Clients, CloseConn(c) PROVE Typed'
  BY <1>0, <1>6, TypedPartsPrimed DEF CloseConn, Posts, Wires, Ways, Rooms
<1>7. CASE UNCHANGED vars
  BY <1>0, <1>7, TypedPartsPrimed DEF vars, Posts, Wires, Ways, Rooms
<1> QED
  BY <1>1, <1>2, <1>3, <1>4, <1>5, <1>6, <1>7 DEF Next, RoomThread, Client

\* The variables have their types: no connection is owed more answers than
\* there were requests, and the bytes left over are fewer than a head
\* (userdeal.cpp 50-211).
THEOREM Types == Spec => []TypeOK
<1>1. Init => Typed
  BY InitTyped
<1>2. Typed /\ [Next]_vars => Typed'
  BY NextTyped
<1>3. Typed => TypeOK
  BY DEF Typed
<1> QED
  BY <1>1, <1>2, <1>3, PTL DEF Spec

-----------------------------------------------------------------------------
(* Where the connections are.                                               *)

\* A connection is served by one acceptor at a time, and those that wait are
\* all different.
Served == \A a \in Acceptors : at[a] \in Serving => where[connfd[a]] = "served"
Apart == \A a, b \in Acceptors :
  a # b /\ at[a] \in Serving /\ at[b] \in Serving => connfd[a] # connfd[b]
Queued ==
  /\ \A i \in 1..Len(backlog) : where[backlog[i]] = "waiting"
  /\ \A i, j \in 1..Len(backlog) : i # j => backlog[i] # backlog[j]

\* A client has a room once its request has been read, and not before.
Making ==
  /\ \A a \in Acceptors : at[a] = "publish" => room[connfd[a]] = "drawn"
  /\ \A a \in Acceptors : at[a] \in {"read", "check", "hand"} => room[connfd[a]] = "none"
  /\ \A c \in Clients : where[c] \in {"away", "waiting"} => room[c] = "none"
  /\ \A c \in Clients : room[c] # "none" => number[c] \in Numbers

Placed == Served /\ Apart /\ Queued /\ Making

\* Steps that leave the queue of connections and every room alone, and at most
\* let one acceptor go on.
LEMMA SameConnection ==
  ASSUME Typed, Placed, NEW a \in Acceptors, at[a] \in Serving,
         NEW t, t \in {"read", "check", "hand"}, room[connfd[a]] = "none",
         at' \in {at, [at EXCEPT ![a] = t]},
         UNCHANGED <<connfd, where, backlog, room, number>>
  PROVE  Placed'
<1>1. at \in [Acceptors -> {"lock", "accept"} \cup Serving]
  BY TypedParts DEF Posts
<1>2. \A b \in Acceptors : b # a => at'[b] = at[b]
  BY <1>1
<1>3. at'[a] \in {at[a], t} /\ t \in Serving
  BY <1>1 DEF Serving
<1>4. Served'
  BY <1>2, <1>3 DEF Served, Placed
<1>5. Apart'
  BY <1>2, <1>3 DEF Apart, Placed
<1>6. Queued'
  BY DEF Queued, Placed
<1>7. Making'
  BY <1>2, <1>3 DEF Making, Placed
<1> QED
  BY <1>4, <1>5, <1>6, <1>7 DEF Placed

\* An acceptor that is done with its connection.
LEMMA Released ==
  ASSUME Typed, Placed, NEW a \in Acceptors, at[a] \in Serving,
         at' = [at EXCEPT ![a] = "lock"], NEW w, w \in {"room", "closed"},
         where' = [where EXCEPT ![connfd[a]] = w],
         UNCHANGED <<connfd, backlog, room, number>>
  PROVE  Placed'
<1>1. /\ at \in [Acceptors -> {"lock", "accept"} \cup Serving]
      /\ connfd[a] \in Clients /\ where[connfd[a]] = "served"
      /\ where \in [Clients -> {"away", "waiting", "served", "room", "closed"}]
      /\ \A b \in Acceptors : at[b] \in Serving => connfd[b] \in Clients
      /\ backlog \in Seq(Clients)
  BY TypedParts DEF Posts, Ways, Placed, Served
<1>2. \A b \in Acceptors : b # a => at'[b] = at[b]
  BY <1>1
<1>3. at'[a] = "lock"
  BY <1>1
<1>4. \A c \in Clients : where'[c] = IF c = connfd[a] THEN w ELSE where[c]
  BY <1>1
<1>5. Served'
  BY <1>1, <1>2, <1>3, <1>4 DEF Served, Apart, Placed, Serving
<1>6. Apart'
  BY <1>2, <1>3 DEF Apart, Placed, Serving
<1>7. Queued'
  <2>1. \A i \in 1..Len(backlog) : backlog[i] \in Clients /\ where[backlog[i]] = "waiting"
    BY <1>1 DEF Queued, Placed
  <2> QED
    BY <1>1, <1>4, <2>1 DEF Queued, Placed
<1>8. Making'
  BY <1>1, <1>2, <1>3, <1>4 DEF Making, Placed
<1> QED
  BY <1>5, <1>6, <1>7, <1>8 DEF Placed

\* The initial state.
LEMMA InitPlaced == Init => Placed
BY DEF Init, Placed, Served, Apart, Queued, Making, Serving

\* Every step of an acceptor.
LEMMA AcceptorPlaced ==
  ASSUME Typed, Placed, NEW a \in Acceptors, Acceptor(a)
  PROVE  Placed'
<1> USE DEF acceptVars, clientVars, wireVars, roomVars
<1>0. /\ Posts /\ Wires /\ Ways /\ Rooms
      /\ Served /\ Apart /\ Queued /\ Making
  BY TypedParts DEF Placed
<1>1. CASE Lock(a)
  BY <1>0, <1>1 DEF Lock, Posts, Placed, Served, Apart, Queued, Making, Serving
<1>2. CASE AcceptConn(a)
  <2> DEFINE x == Head(backlog)
  <2>1. /\ backlog # <<>> /\ backlog \in Seq(Clients) /\ at[a] = "accept"
        /\ at' = [at EXCEPT ![a] = "read"] /\ connfd' = [connfd EXCEPT ![a] = x]
        /\ backlog' = Tail(backlog) /\ where' = [where EXCEPT ![x] = "served"]
        /\ room' = room /\ number' = number
    BY <1>0, <1>2 DEF AcceptConn, Ways
  <2>2. x \in Clients /\ x = backlog[1] /\ Len(backlog) \in Nat /\ Len(backlog) >= 1
    BY <2>1
  <2>3. where[x] = "waiting" /\ room[x] = "none"
    BY <1>0, <2>2 DEF Queued, Making
  <2>4. \A b \in Acceptors : at[b] \in Serving => connfd[b] # x
    BY <1>0, <2>3 DEF Served
  <2>5. Len(backlog') = Len(backlog) - 1 /\ \A i \in 1..Len(backlog') : backlog'[i] = backlog[i + 1]
    BY <2>1
  <2> HIDE DEF x
  <2>6. /\ at'[a] = "read" /\ connfd'[a] = x
        /\ \A b \in Acceptors : b # a => at'[b] = at[b] /\ connfd'[b] = connfd[b]
        /\ \A c \in Clients : where'[c] = IF c = x THEN "served" ELSE where[c]
    BY <1>0, <2>1, <2>2 DEF Posts, Ways
  <2>7. Served'
    BY <1>0, <2>2, <2>6 DEF Served, Posts
  <2>8. Apart'
    BY <1>0, <2>4, <2>6 DEF Apart
  <2>9. Queued'
    <3>1. \A i \in 1..Len(backlog') : i + 1 \in 1..Len(backlog) /\ i + 1 # 1
      BY <2>2, <2>5
    <3>2. ASSUME NEW i \in 1..Len(backlog') PROVE where'[backlog'[i]] = "waiting"
      <4>1. backlog[i + 1] # x /\ backlog[i + 1] \in Clients /\ where[backlog[i + 1]] = "waiting"
        <5>1. i + 1 \in 1..Len(backlog) /\ i + 1 # 1 /\ 1 \in 1..Len(backlog)
          BY <2>2, <3>1
        <5>2. backlog[i + 1] \in Clients
          BY <2>1, <5>1
        <5> QED
          BY <1>0, <2>2, <5>1, <5>2 DEF Queued
      <4> QED
        BY <2>5, <2>6, <4>1
    <3>3. ASSUME NEW i \in 1..Len(backlog'), NEW j \in 1..Len(backlog'), i # j
          PROVE  backlog'[i] # backlog'[j]
      <4>1. i + 1 # j + 1
        BY <3>3
      <4> QED
        BY <1>0, <2>5, <3>1, <4>1 DEF Queued
    <3> QED
      BY <3>2, <3>3 DEF Queued
  <2>10. Making'
    BY <1>0, <2>1, <2>3, <2>6 DEF Making
  <2> QED
    BY <2>7, <2>8, <2>9, <2>10 DEF Placed
<1>3. CASE ReadClosed(a)
  BY <1>3, Released DEF ReadClosed, Serving
<1>4. CASE ReadAcross(a)
  <2>1. at[a] = "read"
    BY <1>4 DEF ReadAcross
  <2> QED
    BY <1>0, <1>4, <2>1, SameConnection DEF ReadAcross, Making, Serving
<1>5. CASE ReadOther(a)
  <2>1. at[a] = "read"
    BY <1>5 DEF ReadOther, InStep
  <2> QED
    BY <1>0, <1>5, <2>1, SameConnection DEF ReadOther, Making, Serving
<1>6. CASE ReadCreate(a)
  <2> DEFINE c == connfd[a]
  <2>1. at[a] = "read" /\ c \in Clients /\ room[c] = "none" /\ where[c] = "served"
    BY <1>0, <1>6 DEF ReadCreate, InStep, Posts, Served, Making, Serving
  <2>2. PICK n \in Numbers : number' = [number EXCEPT ![c] = n] /\ room' = [room EXCEPT ![c] = "drawn"]
    BY <1>6 DEF ReadCreate
  <2>3. at' = [at EXCEPT ![a] = "publish"] /\ UNCHANGED <<connfd, where, backlog>>
    BY <1>6 DEF ReadCreate
  <2>4. at'[a] = "publish" /\ \A b \in Acceptors : b # a => at'[b] = at[b]
    BY <1>0, <2>3 DEF Posts
  <2>5. \A b \in Acceptors : b # a /\ at[b] \in Serving => connfd[b] # c
    BY <1>0, <2>1 DEF Apart, Serving
  <2> HIDE DEF c
  <2>6. room'[c] = "drawn" /\ number'[c] = n
        /\ \A d \in Clients : d # c => room'[d] = room[d] /\ number'[d] = number[d]
    BY <1>0, <2>1, <2>2 DEF Rooms
  <2>7. Served' /\ Apart'
    BY <1>0, <2>1, <2>3, <2>4 DEF Served, Apart, Serving
  <2>8. Queued'
    BY <1>0, <2>3 DEF Queued
  <2>9. \A b \in Acceptors : at'[b] = "publish" => room'[connfd'[b]] = "drawn"
    <3>1. connfd' = connfd /\ connfd[a] = c
      BY <2>3 DEF c
    <3>2. \A b \in Acceptors : at[b] \in Serving => connfd[b] \in Clients
      BY <1>0 DEF Posts
    <3> QED
      BY <1>0, <2>4, <2>5, <2>6, <3>1, <3>2 DEF Making, Serving
  <2>10. \A b \in Acceptors : at'[b] \in {"read", "check", "hand"} => room'[connfd'[b]] = "none"
    <3>1. connfd' = connfd
      BY <2>3
    <3>2. \A b \in Acceptors : at[b] \in Serving => connfd[b] \in Clients
      BY <1>0 DEF Posts
    <3> QED
      BY <1>0, <2>4, <2>5, <2>6, <3>1, <3>2 DEF Making, Serving
  <2>11. \A d \in Clients : where'[d] \in {"away", "waiting"} => room'[d] = "none"
    BY <1>0, <2>1, <2>3, <2>6 DEF Making
  <2>12. \A d \in Clients : room'[d] # "none" => number'[d] \in Numbers
    BY <1>0, <2>6 DEF Making
  <2> QED
    BY <2>7, <2>8, <2>9, <2>10, <2>11, <2>12 DEF Placed, Making
<1>7. CASE Publish(a)
  <2> DEFINE c == connfd[a]
  <2>1. at[a] = "publish" /\ c \in Clients /\ room[c] = "drawn" /\ where[c] = "served"
    BY <1>0, <1>7 DEF Publish, Posts, Served, Making, Serving
  <2>2. room' = [room EXCEPT ![c] = "on"] /\ at' = [at EXCEPT ![a] = "start"]
        /\ UNCHANGED <<connfd, where, backlog, number>>
    BY <1>7 DEF Publish
  <2>3. at'[a] = "start" /\ \A b \in Acceptors : b # a => at'[b] = at[b]
    BY <1>0, <2>2 DEF Posts
  <2>4. \A b \in Acceptors : b # a /\ at[b] \in Serving => connfd[b] # c
    BY <1>0, <2>1 DEF Apart, Serving
  <2>5. room'[c] = "on" /\ \A d \in Clients : d # c => room'[d] = room[d]
    BY <1>0, <2>1, <2>2 DEF Rooms
  <2>6. \A b \in Acceptors : at[b] \in Serving => connfd[b] \in Clients
    BY <1>0 DEF Posts
  <2> HIDE DEF c
  <2>7. Served' /\ Apart'
    BY <1>0, <2>1, <2>2, <2>3 DEF Served, Apart, Serving
  <2>8. Queued'
    BY <1>0, <2>2 DEF Queued
  <2>9. Making'
    BY <1>0, <2>1, <2>2, <2>3, <2>4, <2>5, <2>6 DEF Making, Serving
  <2> QED
    BY <2>7, <2>8, <2>9 DEF Placed
<1>8. CASE Start(a)
  BY <1>8, Released DEF Start, Serving
<1>9. CASE ReadJoin(a)
  <2>1. at[a] = "read" /\ at' \in {at, [at EXCEPT ![a] = "check"]}
    BY <1>9 DEF ReadJoin, InStep
  <2> QED
    BY <1>0, <1>9, <2>1, SameConnection DEF ReadJoin, Making, Serving
<1>10. CASE Refuse(a)
  BY <1>0, <1>10, SameConnection DEF Refuse, Making, Serving
<1>11. CASE Admit(a)
  BY <1>0, <1>11, SameConnection DEF Admit, Making, Serving
<1>12. CASE Hand(a)
  BY <1>12, Released DEF Hand, Serving
<1> QED
  BY <1>1, <1>2, <1>3, <1>4, <1>5, <1>6, <1>7, <1>8, <1>9, <1>10, <1>11, <1>12 DEF Acceptor

\* Every step.
LEMMA NextPlaced == Typed /\ Placed /\ [Next]_vars => Placed'
<1> SUFFICES ASSUME Typed, Placed, [Next]_vars PROVE Placed'
  OBVIOUS
<1> USE DEF acceptVars, clientVars, wireVars, roomVars
<1>0. /\ Posts /\ Wires /\ Ways /\ Rooms
      /\ Served /\ Apart /\ Queued /\ Making
  BY TypedParts DEF Placed
<1>1. ASSUME NEW a \in Acceptors, Acceptor(a) PROVE Placed'
  BY <1>1, AcceptorPlaced
<1>2. ASSUME NEW c \in Clients, NEW from, NEW to, room[c] = from, from \in {"on", "close"},
             to # "none", room' = [room EXCEPT ![c] = to], RoomUnchanged
      PROVE  Placed'
  <2>1. \A d \in Clients : d # c => room'[d] = room[d]
    BY <1>0, <1>2 DEF Rooms
  <2>2. room'[c] = to
    BY <1>0, <1>2 DEF Rooms
  <2>3. \A b \in Acceptors : at[b] \in Serving => connfd[b] \in Clients
    BY <1>0 DEF Posts
  <2>4. Making'
    BY <1>0, <1>2, <2>1, <2>2, <2>3 DEF Making, RoomUnchanged, Serving
  <2>5. Served' /\ Apart' /\ Queued'
    BY <1>0, <1>2 DEF Served, Apart, Queued, RoomUnchanged
  <2> QED
    BY <2>4, <2>5 DEF Placed
<1>3. ASSUME NEW c \in Clients, RoomThread(c) PROVE Placed'
  BY <1>2, <1>3 DEF RoomThread, RoomCloses, RoomErases
<1>4. ASSUME NEW c \in Clients, ConnectServer(c) PROVE Placed'
  <2>1. where[c] = "away" /\ where' = [where EXCEPT ![c] = "waiting"]
        /\ backlog' = Append(backlog, c) /\ backlog \in Seq(Clients)
        /\ UNCHANGED <<at, connfd, room, number>>
    BY <1>0, <1>4 DEF ConnectServer, Ways
  <2>2. where'[c] = "waiting" /\ \A d \in Clients : d # c => where'[d] = where[d]
    BY <1>0, <2>1 DEF Ways
  <2>3. Len(backlog') = Len(backlog) + 1 /\ backlog'[Len(backlog) + 1] = c
        /\ \A i \in 1..Len(backlog) : backlog'[i] = backlog[i] /\ backlog[i] \in Clients
        /\ Len(backlog) \in Nat
    BY <2>1
  <2>4. \A i \in 1..Len(backlog) : backlog[i] # c
    BY <1>0, <2>1 DEF Queued
  <2>5. Queued'
    BY <1>0, <2>2, <2>3, <2>4 DEF Queued
  <2>6. Served' /\ Apart'
    BY <1>0, <2>1, <2>2 DEF Served, Apart, Posts
  <2>7. Making'
    BY <1>0, <2>1, <2>2 DEF Making
  <2> QED
    BY <2>5, <2>6, <2>7 DEF Placed
<1>5. ASSUME NEW c \in Clients, SendFrame(c) \/ CloseConn(c) PROVE Placed'
  BY <1>0, <1>5 DEF SendFrame, CloseConn, Placed, Served, Apart, Queued, Making
<1>6. CASE UNCHANGED vars
  BY <1>0, <1>6 DEF vars, Placed, Served, Apart, Queued, Making
<1> QED
  BY <1>1, <1>3, <1>4, <1>5, <1>6 DEF Next, Client

-----------------------------------------------------------------------------
(* The map.                                                                 *)

Live(c) == room[c] \in {"drawn", "on", "close"}

\* An entry is the room of that number, and two rooms have one number only if
\* it was drawn for both at once.
Entries == \A n \in Numbers : g_rooms[n] # None =>
  room[g_rooms[n]] \in {"on", "close"} /\ number[g_rooms[n]] = n
Listed == \A c \in Clients : room[c] \in {"on", "close"} =>
  g_rooms[number[c]] = c \/ number[c] \in twins
Unique == \A c, d \in Clients :
  c # d /\ Live(c) /\ Live(d) /\ number[c] = number[d] => number[c] \in twins

Mapped == Entries /\ Listed /\ Unique

\* Steps that leave rooms and map alone.
LEMMA SameMap ==
  ASSUME Mapped, UNCHANGED roomVars
  PROVE  Mapped'
BY DEF roomVars, Mapped, Entries, Listed, Unique, Live

\* A number is drawn that is not in the map.
LEMMA CreateMapped ==
  ASSUME Typed, Placed, Mapped, NEW a \in Acceptors, ReadCreate(a)
  PROVE  Mapped'
<1> DEFINE c == connfd[a]
<1>1. c \in Clients /\ room[c] = "none"
  BY TypedParts DEF ReadCreate, InStep, Posts, Placed, Making, Serving
<1>2. PICK n \in Numbers :
        /\ g_rooms[n] = None
        /\ number' = [number EXCEPT ![c] = n] /\ room' = [room EXCEPT ![c] = "drawn"]
        /\ twins' = IF \E d \in Clients : room[d] = "drawn" /\ number[d] = n
                      THEN twins \cup {n} ELSE twins
  BY DEF ReadCreate
<1>3. g_rooms' = g_rooms
  BY DEF ReadCreate
<1> HIDE DEF c
<1>4. Rooms
  BY TypedParts
<1>5. room'[c] = "drawn" /\ number'[c] = n
      /\ \A d \in Clients : d # c => room'[d] = room[d] /\ number'[d] = number[d]
  BY <1>1, <1>2, <1>4 DEF Rooms
<1>6. \A m \in Numbers : g_rooms[m] # None => g_rooms[m] # c /\ g_rooms[m] \in Clients
  BY <1>1, <1>4 DEF Mapped, Entries, Rooms
<1>7. Entries'
  BY <1>3, <1>5, <1>6 DEF Mapped, Entries
<1>8. \A m \in twins : m \in twins'
  BY <1>2
<1>9. Listed'
  BY <1>3, <1>5, <1>8 DEF Mapped, Listed
<1>10. ASSUME NEW d \in Clients, d # c, Live(d), number[d] = n PROVE n \in twins'
  <2>1. CASE room[d] = "drawn"
    BY <1>2, <1>10, <2>1
  <2>2. CASE room[d] \in {"on", "close"}
    <3>1. d # None
      BY <1>10, LobbyAssumption
    <3> QED
      BY <1>2, <1>8, <1>10, <2>2, <3>1 DEF Mapped, Listed
  <2> QED
    BY <1>10, <2>1, <2>2 DEF Live
<1>11. Unique'
  <2> SUFFICES ASSUME NEW d \in Clients, NEW e \in Clients, d # e,
                      Live(d)', Live(e)', number'[d] = number'[e]
               PROVE  number'[d] \in twins'
    BY DEF Unique
  <2>1. CASE d = c
    BY <1>5, <1>10, <2>1 DEF Live
  <2>2. CASE e = c
    BY <1>5, <1>10, <2>2 DEF Live
  <2>3. CASE d # c /\ e # c
    BY <1>5, <1>8, <2>3 DEF Mapped, Unique, Live
  <2> QED
    BY <2>1, <2>2, <2>3
<1> QED
  BY <1>7, <1>9, <1>11 DEF Mapped

\* The room is entered under its number.
LEMMA PublishMapped ==
  ASSUME Typed, Placed, Mapped, NEW a \in Acceptors, Publish(a)
  PROVE  Mapped'
<1> DEFINE c == connfd[a]
<1>1. c \in Clients /\ room[c] = "drawn" /\ number[c] \in Numbers
  BY TypedParts DEF Publish, Posts, Placed, Making, Serving
<1>2. /\ g_rooms' = [g_rooms EXCEPT ![number[c]] = c] /\ room' = [room EXCEPT ![c] = "on"]
      /\ number' = number /\ twins' = twins
  BY DEF Publish
<1> HIDE DEF c
<1>3. Rooms
  BY TypedParts
<1>4. room'[c] = "on" /\ \A d \in Clients : d # c => room'[d] = room[d]
  BY <1>1, <1>2, <1>3 DEF Rooms
<1>5. g_rooms'[number[c]] = c
      /\ \A m \in Numbers : m # number[c] => g_rooms'[m] = g_rooms[m]
  BY <1>1, <1>2, <1>3 DEF Rooms
<1>6. \A m \in Numbers : g_rooms[m] # None => g_rooms[m] # c /\ g_rooms[m] \in Clients
  BY <1>1, <1>3 DEF Mapped, Entries, Rooms
<1>7. Entries'
  BY <1>2, <1>4, <1>5, <1>6 DEF Mapped, Entries
<1>8. Listed'
  <2> SUFFICES ASSUME NEW d \in Clients, room'[d] \in {"on", "close"}
               PROVE  g_rooms'[number[d]] = d \/ number[d] \in twins
    BY <1>2 DEF Listed
  <2>1. CASE d = c
    BY <1>5, <2>1
  <2>2. CASE d # c
    <3>1. room[d] \in {"on", "close"}
      BY <1>4, <2>2
    <3>2. number[d] \in Numbers
      BY <3>1 DEF Placed, Making
    <3>3. CASE number[d] = number[c]
      BY <1>1, <2>2, <3>1, <3>3 DEF Mapped, Unique, Live
    <3>4. CASE number[d] # number[c]
      BY <1>5, <3>1, <3>2, <3>4 DEF Mapped, Listed
    <3> QED
      BY <3>3, <3>4
  <2> QED
    BY <2>1, <2>2
<1>9. Unique'
  BY <1>1, <1>2, <1>4 DEF Mapped, Unique, Live
<1> QED
  BY <1>7, <1>8, <1>9 DEF Mapped

\* The room's thread ends and erases what stands under its number.
LEMMA EraseMapped ==
  ASSUME Typed, Placed, Mapped, NEW c \in Clients, RoomErases(c)
  PROVE  Mapped'
<1>1. /\ room[c] = "close" /\ number[c] \in Numbers
      /\ room' = [room EXCEPT ![c] = "ended"]
      /\ g_rooms' = [g_rooms EXCEPT ![number[c]] = None]
      /\ number' = number /\ twins' = twins
  BY DEF RoomErases, RoomUnchanged, Placed, Making
<1>2. Rooms
  BY TypedParts
<1>3. room'[c] = "ended" /\ \A d \in Clients : d # c => room'[d] = room[d]
  BY <1>1, <1>2 DEF Rooms
<1>4. g_rooms'[number[c]] = None
      /\ \A m \in Numbers : m # number[c] => g_rooms'[m] = g_rooms[m]
  BY <1>1, <1>2 DEF Rooms
<1>5. Entries'
  <2> SUFFICES ASSUME NEW m \in Numbers, g_rooms'[m] # None
               PROVE  room'[g_rooms'[m]] \in {"on", "close"} /\ number[g_rooms'[m]] = m
    BY <1>1 DEF Entries
  <2>1. m # number[c] /\ g_rooms'[m] = g_rooms[m]
    BY <1>4
  <2>2. g_rooms[m] \in Clients /\ room[g_rooms[m]] \in {"on", "close"} /\ number[g_rooms[m]] = m
    BY <1>2, <2>1 DEF Mapped, Entries, Rooms
  <2> QED
    BY <1>3, <2>1, <2>2
<1>6. Listed'
  <2> SUFFICES ASSUME NEW d \in Clients, room'[d] \in {"on", "close"}
               PROVE  g_rooms'[number[d]] = d \/ number[d] \in twins
    BY <1>1 DEF Listed
  <2>1. d # c /\ room[d] \in {"on", "close"} /\ number[d] \in Numbers
    BY <1>3 DEF Placed, Making
  <2>2. CASE number[d] = number[c]
    BY <1>1, <2>1, <2>2 DEF Mapped, Unique, Live
  <2>3. CASE number[d] # number[c]
    BY <1>4, <2>1, <2>3 DEF Mapped, Listed
  <2> QED
    BY <2>2, <2>3
<1>7. Unique'
  BY <1>1, <1>3 DEF Mapped, Unique, Live
<1> QED
  BY <1>5, <1>6, <1>7 DEF Mapped

\* The owner leaves.
LEMMA CloseMapped ==
  ASSUME Typed, Mapped, NEW c \in Clients, RoomCloses(c)
  PROVE  Mapped'
<1>1. /\ room[c] = "on" /\ room' = [room EXCEPT ![c] = "close"]
      /\ g_rooms' = g_rooms /\ number' = number /\ twins' = twins
  BY DEF RoomCloses, RoomUnchanged
<1>2. Rooms
  BY TypedParts
<1>3. room'[c] = "close" /\ \A d \in Clients : d # c => room'[d] = room[d]
  BY <1>1, <1>2 DEF Rooms
<1>4. \A m \in Numbers : g_rooms[m] # None => g_rooms[m] \in Clients
  BY <1>2 DEF Rooms
<1> QED
  BY <1>1, <1>3, <1>4 DEF Mapped, Entries, Listed, Unique, Live

\* Every step.
LEMMA NextMapped == Typed /\ Placed /\ Mapped /\ [Next]_vars => Mapped'
<1> SUFFICES ASSUME Typed, Placed, Mapped, [Next]_vars PROVE Mapped'
  OBVIOUS
<1>1. ASSUME NEW a \in Acceptors, Acceptor(a) PROVE Mapped'
  <2>1. CASE ReadCreate(a)
    BY <2>1, CreateMapped
  <2>2. CASE Publish(a)
    BY <2>2, PublishMapped
  <2>3. CASE ~ReadCreate(a) /\ ~Publish(a)
    <3>1. UNCHANGED roomVars
      BY <1>1, <2>3 DEF Acceptor, Lock, AcceptConn, ReadClosed, ReadAcross, ReadOther,
           Start, ReadJoin, Refuse, Admit, Hand
    <3> QED
      BY <3>1, SameMap
  <2> QED
    BY <2>1, <2>2, <2>3
<1>2. ASSUME NEW c \in Clients, RoomThread(c) PROVE Mapped'
  BY <1>2, CloseMapped, EraseMapped DEF RoomThread
<1>3. ASSUME NEW c \in Clients, Client(c) PROVE Mapped'
  <2>1. UNCHANGED roomVars
    BY <1>3 DEF Client, ConnectServer, SendFrame, CloseConn
  <2> QED
    BY <2>1, SameMap
<1>4. CASE UNCHANGED vars
  BY <1>4, SameMap DEF vars
<1> QED
  BY <1>1, <1>2, <1>3, <1>4 DEF Next

\* For any number of acceptors and clients: what a join finds under a number
\* is a room that has not ended, and a room that has not ended is found under
\* its number, unless two acceptors have drawn that number at once
\* (userdeal.cpp 15-25, 98-104; room.cpp 187).
THEOREM MapAndRooms == Spec => []MapAgrees
<1>1. Init => Mapped
  BY DEF Init, Mapped, Entries, Listed, Unique, Live
<1>2. Init => Typed /\ Placed
  BY InitTyped, InitPlaced
<1>3. Typed /\ Placed /\ Mapped /\ [Next]_vars => (Typed /\ Placed /\ Mapped)'
  BY NextTyped, NextPlaced, NextMapped
<1>4. Mapped => MapAgrees
  BY DEF Mapped, Entries, Listed, MapAgrees
<1> QED
  BY <1>1, <1>2, <1>3, <1>4, PTL DEF Spec

\* On its way from the queue of connections to a room, a connection is with
\* one acceptor at a time (userdeal.cpp 36-47).
THEOREM OneAcceptor == Spec => []Apart
<1>1. Init => Typed /\ Placed
  BY InitTyped, InitPlaced
<1>2. Typed /\ Placed /\ [Next]_vars => (Typed /\ Placed)'
  BY NextTyped, NextPlaced
<1>3. Placed => Apart
  BY DEF Placed
<1> QED
  BY <1>1, <1>2, <1>3, PTL DEF Spec
=============================================================================
