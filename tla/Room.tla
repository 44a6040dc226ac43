-------------------------------- MODULE Room --------------------------------
(***************************************************************************)
(* One meeting room of the server: its Pool (msg.h), the room thread, the   *)
(* accept thread and the send threads (room.cpp), and the part of the       *)
(* acceptor threads that touches the room (userdeal.cpp).  The clients are  *)
(* the environment: they send frames, whole or not, and close at any time.  *)
(*                                                                          *)
(* A handle (SOCKET) is named by its connection and not used again once     *)
(* closed.  Each critical section is one step.  The room thread, the accept *)
(* thread and the send threads keep a program counter named after the       *)
(* statement they are about to run.                                         *)
(***************************************************************************)
EXTENDS SendQueue, Integers

CONSTANTS
  Conns,            \* connections that come to the room
  Creator,          \* the one whose CREATE_MEETING makes the room
  IpOf,             \* what getpeerip() gives for each connection
  Ips,              \* addresses, NoIp among them
  NoIp,             \* the address 0, given when getpeername() fails
  NoConn,           \* no connection: INVALID_SOCKET, or owner = 0
  SendThreads,      \* the threads running send_func
  RoomThread, AcceptThread,
  IdsSecret,        \* clients know the room number from its creator only
  ROOMLIMIT,        \* 1024, the limit on num and the size of an fd_set
  Kinds,            \* heads a client may send to the room
  MaxFrames         \* bound: frames the clients send to the room in all

ASSUME RoomAssumption ==
  /\ IsFiniteSet(Conns) /\ Creator \in Conns /\ NoConn \notin Conns
  /\ NoIp \in Ips /\ IpOf \in [Conns -> Ips]
  /\ IsFiniteSet(SendThreads)
  /\ SENDTHREADSIZE = Cardinality(SendThreads)
  /\ RoomThread # AcceptThread
  /\ {RoomThread, AcceptThread} \cap SendThreads = {}
  /\ ROOMLIMIT \in Nat \ {0} /\ MaxFrames \in Nat
  /\ IdsSecret \in BOOLEAN
  /\ Kinds \subseteq {"MEDIA", "CAMERA", "OTHER", "GARBAGE", "STUB"}

VARIABLES
  \* Pool
  fdset, owner, num, fdToIp, activeFds, status, clientQueue, shutdown,
  \* room_thread_main: rset, the rest of currentFds, and the frame in hand
  roomPc, rset, todo, fd, msg,
  \* accept_fd
  acceptPc, newFd, newMsg,
  \* send_func of each thread
  sendPc, sendMsg, targets,
  \* dowithuser of each connection, the last answer it was sent, and whether
  \* g_rooms holds the room
  lobby, answer, listed,
  \* the server's open handles; clients that have closed; bytes not yet read
  open, gone, inbox,
  \* frames sent by the clients (bound), clients with half a frame sent
  sent, owes

poolVars == <<fdset, owner, num, fdToIp, activeFds, status>>
roomVars == <<roomPc, rset, todo, fd, msg, shutdown>>
acceptVars == <<acceptPc, newFd, newMsg>>
sendVars == <<sendPc, sendMsg, targets>>
lobbyVars == <<lobby, answer, listed>>
clientVars == <<gone, inbox, sent, owes>>

vars == <<queueVars, poolVars, roomVars, acceptVars, sendVars, lobbyVars,
          clientVars, clientQueue, open>>

-----------------------------------------------------------------------------
(* Data.                                                                    *)

\* A NetMsg; ips is its ip field, or the list PARTNER_JOIN2 carries.
Message(type, target, ips) == [type |-> type, target |-> target, ips |-> ips]

MsgTypes == {"CREATE_MEETING_RESPONSE", "PARTNER_JOIN", "PARTNER_JOIN2",
             "PARTNER_EXIT", "MEDIA", "CAMERA", "OTHER"}

Messages ==
  {m \in [type : MsgTypes, target : Conns \cup {NoConn}, ips : SUBSET Ips] :
     m.type = "CREATE_MEETING_RESPONSE" => m.target \in Conns}

\* The type 0xFFFF is no frame's.
ASSUME PillAssumption == Pill \notin Messages

NoMsg == Message("MEDIA", NoConn, {})

ClientConns ==
  {cc \in [cmd : {"C", "J", "X"}, sockfd : Conns \cup {NoConn}] :
     cc.cmd = "X" <=> cc.sockfd = NoConn}

\* fdToIp[s] of std::map: an absent key reads as 0 ...
IpAt(s) == IF s \in DOMAIN fdToIp THEN fdToIp[s] ELSE NoIp
\* ... and is in the map afterwards.
Looked(S) == [s \in DOMAIN fdToIp \cup S |-> IpAt(s)]

\* FD_SET drops a handle when the set is full.
FdSet(c) ==
  IF Cardinality(fdset) < ROOMLIMIT THEN fdset \cup {c} ELSE fdset

Init ==
  /\ QueueInit
  /\ fdset = {} /\ owner = NoConn /\ num = 0 /\ fdToIp = [s \in {} |-> NoIp]
  /\ activeFds = {} /\ status = "ON" /\ clientQueue = <<>> /\ shutdown = FALSE
  /\ roomPc = "off" /\ rset = {} /\ todo = {} /\ fd = NoConn /\ msg = NoMsg
  /\ acceptPc = "off" /\ newFd = NoConn /\ newMsg = NoMsg
  /\ sendPc = [t \in SendThreads |-> "off"]
  /\ sendMsg = [t \in SendThreads |-> NoMsg]
  /\ targets = [t \in SendThreads |-> {}]
  /\ lobby = [c \in Conns |-> IF c = Creator THEN "publish" ELSE "lobby"]
  /\ answer = [c \in Conns |-> "none"]
  /\ listed = FALSE
  /\ open = Conns /\ gone = {} /\ inbox = [c \in Conns |-> <<>>]
  /\ sent = 0 /\ owes = {}

-----------------------------------------------------------------------------
(* Acceptor threads: dowithuser from the point where a whole CREATE_MEETING *)
(* or JOIN_MEETING frame has been read.                                     *)

\* g_rooms[roomId] = pool.  The room can be found before 'C' is queued.
CreatePublish ==
  /\ lobby[Creator] = "publish"
  /\ listed' = TRUE
  /\ lobby' = [lobby EXCEPT ![Creator] = "hand"]
  /\ UNCHANGED <<queueVars, poolVars, roomVars, acceptVars, sendVars, answer,
                 clientVars, clientQueue, open>>

CreateHand ==
  /\ lobby[Creator] = "hand"
  /\ clientQueue' = Append(clientQueue, [cmd |-> "C", sockfd |-> Creator])
  /\ lobby' = [lobby EXCEPT ![Creator] = "start"]
  /\ UNCHANGED <<queueVars, poolVars, roomVars, acceptVars, sendVars, answer,
                 listed, clientVars, open>>

\* Mutant: the accept thread is not started.
MutantCreateStart ==
  /\ lobby[Creator] = "start"
  /\ lobby' = [lobby EXCEPT ![Creator] = "left"]
  /\ roomPc' = "top"
  /\ sendPc' = [t \in SendThreads |-> "pop"]
  /\ UNCHANGED <<queueVars, poolVars, rset, todo, fd, msg, shutdown,
                 acceptVars, sendMsg, targets, answer, listed, clientVars,
                 clientQueue, open>>

\* The room thread starts the accept thread and the send threads and enters
\* its loop; the acceptor goes back to Accept.
CreateStart ==
  /\ lobby[Creator] = "start"
  /\ lobby' = [lobby EXCEPT ![Creator] = "left"]
  /\ roomPc' = "top"
  /\ acceptPc' = "wait"
  /\ sendPc' = [t \in SendThreads |-> "pop"]
  /\ UNCHANGED <<queueVars, poolVars, rset, todo, fd, msg, shutdown,
                 newFd, newMsg, sendMsg, targets, answer, listed, clientVars,
                 clientQueue, open>>

\* g_rooms.find(roomno).
JoinLookup(c) ==
  /\ lobby[c] = "lobby"
  /\ c \notin gone
  /\ IdsSecret => answer[Creator] = "room"
  /\ IF listed
       THEN lobby' = [lobby EXCEPT ![c] = "found"] /\ UNCHANGED answer
       ELSE answer' = [answer EXCEPT ![c] = "unknown"] /\ UNCHANGED lobby
  /\ UNCHANGED <<queueVars, poolVars, roomVars, acceptVars, sendVars, listed,
                 clientVars, clientQueue, open>>

\* The test of status and num under pool->lock, with the refusal it writes.
JoinCheck(c) ==
  /\ lobby[c] = "found"
  /\ IF status = "CLOSE" \/ num >= ROOMLIMIT
       THEN /\ lobby' = [lobby EXCEPT ![c] = "lobby"]
            /\ answer' = [answer EXCEPT ![c] = "full"]
       ELSE /\ lobby' = [lobby EXCEPT ![c] = "ok"]
            /\ UNCHANGED answer
  /\ UNCHANGED <<queueVars, poolVars, roomVars, acceptVars, sendVars, listed,
                 clientVars, clientQueue, open>>

JoinHand(c) ==
  /\ lobby[c] = "ok"
  /\ clientQueue' = Append(clientQueue, [cmd |-> "J", sockfd |-> c])
  /\ lobby' = [lobby EXCEPT ![c] = "respond"]
  /\ UNCHANGED <<queueVars, poolVars, roomVars, acceptVars, sendVars, answer,
                 listed, clientVars, open>>

\* writetofd after the hand-over; the room may have closed the handle.
JoinRespond(c) ==
  /\ lobby[c] = "respond"
  /\ lobby' = [lobby EXCEPT ![c] = "left"]
  /\ answer' = IF c \in open THEN [answer EXCEPT ![c] = "room"] ELSE answer
  /\ UNCHANGED <<queueVars, poolVars, roomVars, acceptVars, sendVars, listed,
                 clientVars, clientQueue, open>>

\* Readn finds that a client still in the lobby has closed.
LobbyClose(c) ==
  /\ lobby[c] = "lobby"
  /\ c \in gone
  /\ open' = open \ {c}
  /\ lobby' = [lobby EXCEPT ![c] = "left"]
  /\ UNCHANGED <<queueVars, poolVars, roomVars, acceptVars, sendVars, answer,
                 listed, clientVars, clientQueue>>

-----------------------------------------------------------------------------
(* The send queue as the room's threads use it: push_msg and pop_msg with   *)
(* their notification.                                                      *)

PushMsg(t, m) == (Enqueue(t, m) /\ NotifyOne) \/ PushDropped(t)
PopMsg(t) == (Dequeue(t) /\ NotifyOne) \/ PopNothing(t)

-----------------------------------------------------------------------------
(* room_thread_main.                                                        *)

\* Top of the loop: leave it, or copy fdset; an empty one means sleep.
RoomTop ==
  /\ roomPc = "top"
  /\ \/ shutdown /\ roomPc' = "pushX" /\ UNCHANGED rset
     \/ ~shutdown /\ fdset # {} /\ roomPc' = "select" /\ rset' = fdset
  /\ UNCHANGED <<queueVars, poolVars, todo, fd, msg, shutdown, acceptVars,
                 sendVars, lobbyVars, clientVars, clientQueue, open>>

\* Readn would find a byte or the end of the stream.
Readable(c) == inbox[c] # <<>> \/ c \in gone

\* Select with a zero timeout.  A closed handle in rset makes it end the whole
\* server (err_quit); SelectSafe says that there is none.
RoomSelect ==
  /\ roomPc = "select"
  /\ rset' = {c \in rset : Readable(c)}
  /\ roomPc' = IF rset' = {} THEN "top" ELSE "snapshot"
  /\ UNCHANGED <<queueVars, poolVars, todo, fd, msg, shutdown, acceptVars,
                 sendVars, lobbyVars, clientVars, clientQueue, open>>

\* currentFds, less those the loop skips because select did not mark them.
RoomSnapshot ==
  /\ roomPc = "snapshot"
  /\ todo' = activeFds \cap rset
  /\ roomPc' = "pass"
  /\ UNCHANGED <<queueVars, poolVars, rset, fd, msg, shutdown, acceptVars,
                 sendVars, lobbyVars, clientVars, clientQueue, open>>

RoomPassEnd ==
  /\ roomPc = "pass"
  /\ todo = {}
  /\ roomPc' = "top"
  /\ rset' = {}
  /\ UNCHANGED <<queueVars, poolVars, todo, fd, msg, shutdown,
                 acceptVars, sendVars, lobbyVars, clientVars, clientQueue, open>>

\* Readn takes bytes from c: part of a head, one that is no head, or a head.
TakeHead(c) ==
  /\ c \in open /\ inbox[c] # <<>>
  /\ inbox' = [inbox EXCEPT ![c] = Tail(@)]
  /\ fd' = c
  /\ UNCHANGED todo
  /\ LET head == Head(inbox[c])
     IN \/ /\ head = "STUB"
           /\ roomPc' = "head"
           /\ UNCHANGED <<msg, fdToIp>>
        \/ /\ head = "GARBAGE"
           /\ roomPc' = "fdclose"
           /\ UNCHANGED <<msg, fdToIp>>
        \/ /\ head = "MEDIA"
           /\ roomPc' = "body"
           /\ msg' = Message(head, c, {IpAt(c)})
           /\ fdToIp' = Looked({c})
        \/ /\ head \in {"CAMERA", "OTHER"}
           /\ roomPc' = "body"
           /\ msg' = Message(head, c, {IpOf[c]})
           /\ UNCHANGED fdToIp

HeadUnchanged ==
  UNCHANGED <<queueVars, fdset, owner, num, activeFds, status, rset, shutdown,
              acceptVars, sendVars, lobbyVars, gone, sent, owes, clientQueue,
              open>>

\* Readn(fd, head, 11) on the next handle: closed, at the end of the stream, or
\* with bytes.  The order of currentFds is left open.
RoomHead(c) ==
  /\ roomPc = "pass"
  /\ c \in todo
  /\ \/ /\ c \notin open \/ (inbox[c] = <<>> /\ c \in gone)
        /\ roomPc' = "fdclose" /\ fd' = c
        /\ UNCHANGED <<inbox, todo, msg, fdToIp>>
     \/ TakeHead(c)
  /\ HeadUnchanged

\* The end of the loop body, where fd and msg go out of scope.
NextHandle ==
  /\ roomPc' = "pass"
  /\ todo' = todo \ {fd}
  /\ fd' = NoConn
  /\ msg' = NoMsg

\* Readn goes on after part of a head: the room thread stays here until more
\* has come or the client has closed, which is left to the next pass.
RoomHeadRest ==
  /\ roomPc = "head"
  /\ \/ /\ inbox[fd] = <<>> /\ fd \in gone
        /\ NextHandle
        /\ UNCHANGED <<inbox, fdToIp>>
     \/ TakeHead(fd)
  /\ HeadUnchanged

\* The rest of the frame: the room thread stays here until it has come or the
\* client has closed.  A frame counts as whole when the byte after it is '#';
\* where that byte never came it is what the uninitialized tail held, and for
\* MEDIA the tail is an int with three bytes that are never written, so that
\* even a whole frame may be taken for a broken one.  Unknown types are read
\* and refused.
RoomBody ==
  /\ roomPc = "body"
  /\ Readable(fd)
  /\ inbox' = [inbox EXCEPT ![fd] = IF @ = <<>> THEN @ ELSE Tail(@)]
  /\ LET rest == IF inbox[fd] = <<>> THEN "NONE" ELSE Head(inbox[fd])
     IN \/ msg.type # "OTHER" /\ rest # "BADREST" /\ roomPc' = "push"
        \/ msg.type # "CAMERA" /\ roomPc' = "fdclose"
        \/ msg.type = "CAMERA" /\ rest # "REST" /\ roomPc' = "fdclose"
  /\ UNCHANGED <<queueVars, poolVars, rset, todo, fd, msg, shutdown,
                 acceptVars, sendVars, lobbyVars, gone, sent, owes, clientQueue,
                 open>>

\* push_msg of the frame or of the PARTNER_EXIT in hand; then the next handle.
RoomPush ==
  /\ roomPc = "push"
  /\ \/ PushMsg(RoomThread, msg) /\ NextHandle
     \/ PushWait(RoomThread) /\ UNCHANGED <<roomPc, todo, fd, msg>>
  /\ UNCHANGED <<poolVars, rset, shutdown, acceptVars, sendVars,
                 lobbyVars, clientVars, clientQueue, open>>

\* Mutant: clear_room, but shutdown is not set.
MutantRoomClear ==
  /\ roomPc = "fdclose"
  /\ owner = fd
  /\ shutdown' = shutdown
  /\ status' = "CLOSE"
  /\ open' = open \ activeFds
  /\ activeFds' = {} /\ fdToIp' = [s \in {} |-> NoIp] /\ num' = 0
  /\ owner' = NoConn /\ fdset' = {}
  /\ Clear
  /\ NextHandle
  /\ UNCHANGED <<rset, acceptVars, sendVars, lobbyVars,
                 clientVars, clientQueue>>

\* fdclose of the owner: shutdown and clear_room.  The pass goes on with the
\* handles it has left, all of them closed now.
RoomClear ==
  /\ roomPc = "fdclose"
  /\ owner = fd
  /\ shutdown' = TRUE
  /\ status' = "CLOSE"
  /\ open' = open \ activeFds
  /\ activeFds' = {} /\ fdToIp' = [s \in {} |-> NoIp] /\ num' = 0
  /\ owner' = NoConn /\ fdset' = {}
  /\ Clear
  /\ NextHandle
  /\ UNCHANGED <<rset, acceptVars, sendVars, lobbyVars,
                 clientVars, clientQueue>>

\* Mutant: no FD_CLR.
MutantRoomForget ==
  /\ roomPc = "fdclose"
  /\ owner # fd
  /\ msg' = Message("PARTNER_EXIT", NoConn, {IpAt(fd)})
  /\ fdToIp' = [s \in DOMAIN fdToIp \ {fd} |-> fdToIp[s]]
  /\ UNCHANGED fdset
  /\ num' = num - 1
  /\ activeFds' = activeFds \ {fd}
  /\ roomPc' = "close"
  /\ UNCHANGED <<queueVars, owner, status, rset, todo, fd, shutdown,
                 acceptVars, sendVars, lobbyVars, clientVars, clientQueue, open>>

\* fdclose of any other handle: first forget it under pool->lock ...
RoomForget ==
  /\ roomPc = "fdclose"
  /\ owner # fd
  /\ msg' = Message("PARTNER_EXIT", NoConn, {IpAt(fd)})
  /\ fdToIp' = [s \in DOMAIN fdToIp \ {fd} |-> fdToIp[s]]
  /\ fdset' = fdset \ {fd}
  /\ num' = num - 1
  /\ activeFds' = activeFds \ {fd}
  /\ roomPc' = "close"
  /\ UNCHANGED <<queueVars, owner, status, rset, todo, fd, shutdown,
                 acceptVars, sendVars, lobbyVars, clientVars, clientQueue, open>>

\* Mutant: no Close.
MutantRoomClose ==
  /\ roomPc = "close"
  /\ open' = open
  /\ roomPc' = "push"
  /\ UNCHANGED <<queueVars, poolVars, rset, todo, fd, msg, shutdown,
                 acceptVars, sendVars, lobbyVars, clientVars, clientQueue>>

\* ... then close it and push PARTNER_EXIT.
RoomClose ==
  /\ roomPc = "close"
  /\ open' = open \ {fd}
  /\ roomPc' = "push"
  /\ UNCHANGED <<queueVars, poolVars, rset, todo, fd, msg, shutdown,
                 acceptVars, sendVars, lobbyVars, clientVars, clientQueue>>

\* After the loop: tell the accept thread to stop,
RoomPushX ==
  /\ roomPc = "pushX"
  /\ clientQueue' = Append(clientQueue, [cmd |-> "X", sockfd |-> NoConn])
  /\ roomPc' = "joinAccept"
  /\ UNCHANGED <<queueVars, poolVars, rset, todo, fd, msg, shutdown,
                 acceptVars, sendVars, lobbyVars, clientVars, open>>

\* wait for its end and only then shut the send queue down,
RoomJoinAccept ==
  /\ roomPc = "joinAccept"
  /\ acceptPc = "done"
  /\ Shutdown
  /\ roomPc' = "joinSend"
  /\ UNCHANGED <<poolVars, rset, todo, fd, msg, shutdown, acceptVars,
                 sendVars, lobbyVars, clientVars, clientQueue, open>>

\* wait for the send threads and take the room off the map.
RoomErase ==
  /\ roomPc = "joinSend"
  /\ \A t \in SendThreads : sendPc[t] = "done"
  /\ listed' = FALSE
  /\ roomPc' = "done"
  /\ UNCHANGED <<queueVars, poolVars, rset, todo, fd, msg, shutdown,
                 acceptVars, sendVars, lobby, answer, clientVars, clientQueue,
                 open>>

-----------------------------------------------------------------------------
(* accept_fd.                                                               *)

\* Mutant: front() without pop().
MutantAcceptTake ==
  /\ acceptPc = "wait"
  /\ clientQueue # <<>>
  /\ clientQueue' = clientQueue
  /\ LET cc == Head(clientQueue)
     IN /\ newFd' = cc.sockfd
        /\ acceptPc' = CASE cc.cmd = "X" -> "done"
                         [] cc.cmd = "C" -> "create"
                         [] cc.cmd = "J" -> "join"
  /\ UNCHANGED <<queueVars, poolVars, roomVars, newMsg, sendVars, lobbyVars,
                 clientVars, open>>

AcceptTake ==
  /\ acceptPc = "wait"
  /\ clientQueue # <<>>
  /\ clientQueue' = Tail(clientQueue)
  /\ LET cc == Head(clientQueue)
     IN /\ newFd' = cc.sockfd
        /\ acceptPc' = CASE cc.cmd = "X" -> "done"
                         [] cc.cmd = "C" -> "create"
                         [] cc.cmd = "J" -> "join"
  /\ UNCHANGED <<queueVars, poolVars, roomVars, newMsg, sendVars, lobbyVars,
                 clientVars, open>>

\* Mutant: num is not incremented.
MutantRegister(c) ==
  /\ fdset' = FdSet(c)
  /\ num' = num
  /\ activeFds' = activeFds \cup {c}
  /\ fdToIp' = [s \in DOMAIN fdToIp \cup {c} |-> IF s = c THEN IpOf[c] ELSE fdToIp[s]]

\* 'C' and 'J' register the handle in the same way.
Register(c) ==
  /\ fdset' = FdSet(c)
  /\ num' = num + 1
  /\ activeFds' = activeFds \cup {c}
  /\ fdToIp' = [s \in DOMAIN fdToIp \cup {c} |-> IF s = c THEN IpOf[c] ELSE fdToIp[s]]

AcceptCreate ==
  /\ acceptPc = "create"
  /\ Register(newFd)
  /\ owner' = newFd
  /\ status' = "ON"
  /\ newMsg' = Message("CREATE_MEETING_RESPONSE", newFd, {})
  /\ acceptPc' = "push"
  /\ UNCHANGED <<queueVars, roomVars, newFd, sendVars, lobbyVars, clientVars,
                 clientQueue, open>>

\* Mutant: status is not looked at again.
MutantAcceptJoin ==
  /\ acceptPc = "join"
  /\ Register(newFd)
  /\ newMsg' = Message("PARTNER_JOIN", newFd, {IpOf[newFd]})
  /\ acceptPc' = "push"
  /\ UNCHANGED <<queueVars, roomVars, owner, status, newFd, sendVars, lobbyVars,
                 clientVars, clientQueue, open>>

AcceptJoin ==
  /\ acceptPc = "join"
  /\ status # "CLOSE"
  /\ Register(newFd)
  /\ newMsg' = Message("PARTNER_JOIN", newFd, {IpOf[newFd]})
  /\ acceptPc' = "push"
  /\ UNCHANGED <<queueVars, roomVars, owner, status, newFd, sendVars, lobbyVars,
                 clientVars, clientQueue, open>>

\* The room has closed since JoinCheck.
AcceptRefuse ==
  /\ acceptPc = "join"
  /\ status = "CLOSE"
  /\ open' = open \ {newFd}
  /\ acceptPc' = "wait"
  /\ newFd' = NoConn
  /\ UNCHANGED <<queueVars, poolVars, roomVars, newMsg, sendVars,
                 lobbyVars, clientVars, clientQueue>>

AcceptPush ==
  /\ acceptPc = "push"
  /\ \/ /\ PushMsg(AcceptThread, newMsg)
        /\ newMsg' = NoMsg
        /\ IF newMsg.type = "PARTNER_JOIN"
             THEN acceptPc' = "ips" /\ UNCHANGED newFd
             ELSE acceptPc' = "wait" /\ newFd' = NoConn
     \/ PushWait(AcceptThread) /\ UNCHANGED acceptVars
  /\ UNCHANGED <<poolVars, roomVars, sendVars, lobbyVars, clientVars,
                 clientQueue, open>>

\* The addresses of the others, for PARTNER_JOIN2.
AcceptIps ==
  /\ acceptPc = "ips"
  /\ LET others == activeFds \ {newFd}
     IN /\ newMsg' = Message("PARTNER_JOIN2", newFd, {IpAt(s) : s \in others})
        /\ fdToIp' = Looked(others)
  /\ acceptPc' = "push"
  /\ UNCHANGED <<queueVars, fdset, owner, num, activeFds, status, roomVars,
                 newFd, sendVars, lobbyVars, clientVars, clientQueue, open>>

-----------------------------------------------------------------------------
(* send_func.                                                               *)

SendPop(t) ==
  /\ sendPc[t] = "pop"
  /\ \/ /\ PopMsg(t)
        /\ IF Empty \/ Head(send_queue) = Pill
             THEN /\ sendPc' = [sendPc EXCEPT ![t] = "done"]
                  /\ UNCHANGED sendMsg
             ELSE /\ sendPc' = [sendPc EXCEPT ![t] = "resolve"]
                  /\ sendMsg' = [sendMsg EXCEPT ![t] = Head(send_queue)]
     \/ PopWait(t) /\ UNCHANGED <<sendPc, sendMsg>>
  /\ UNCHANGED <<poolVars, roomVars, acceptVars, targets, lobbyVars, clientVars,
                 clientQueue, open>>

\* Mutant: PARTNER_JOIN2 is sent to its target, member or not.
MutantRecipients(m) ==
  CASE m.type = "CREATE_MEETING_RESPONSE" -> {m.target}
    [] m.type = "PARTNER_JOIN2" -> {m.target} \cup {NoConn}
    [] OTHER -> activeFds \ {m.target}

\* The recipients, under pool->lock.
Recipients(m) ==
  CASE m.type = "CREATE_MEETING_RESPONSE" -> {m.target}
    [] m.type = "PARTNER_JOIN2" -> activeFds \cap {m.target}
    [] OTHER -> activeFds \ {m.target}

\* One more recipient done, or none at all: back to pop_msg after the last.
Remaining(t, rest) ==
  /\ targets' = [targets EXCEPT ![t] = rest]
  /\ IF rest = {}
       THEN /\ sendPc' = [sendPc EXCEPT ![t] = "pop"]
            /\ sendMsg' = [sendMsg EXCEPT ![t] = NoMsg]
       ELSE /\ sendPc' = [sendPc EXCEPT ![t] = "write"]
            /\ UNCHANGED sendMsg

SendResolve(t) ==
  /\ sendPc[t] = "resolve"
  /\ Remaining(t, Recipients(sendMsg[t]))
  /\ UNCHANGED <<queueVars, poolVars, roomVars, acceptVars, lobbyVars, clientVars,
                 clientQueue, open>>

\* writen to one recipient with no lock held; on a closed handle it fails and
\* the loop goes on.  Clients are taken to read what they are sent.
SendWrite(t, c) ==
  /\ sendPc[t] = "write"
  /\ c \in targets[t]
  /\ Remaining(t, targets[t] \ {c})
  /\ answer' = IF sendMsg[t].type = "CREATE_MEETING_RESPONSE" /\ c \in open
                 THEN [answer EXCEPT ![c] = "room"] ELSE answer
  /\ UNCHANGED <<queueVars, poolVars, roomVars, acceptVars, lobby, listed,
                 clientVars, clientQueue, open>>

-----------------------------------------------------------------------------
(* Clients: each sends frames once it has been told that it is in the room, *)
(* a head, at once or in parts, and then the rest, and may close or fall     *)
(* silent at any point.                                                     *)

\* It has sent part of a head last.
HalfSaid(c) ==
  \/ inbox[c] # <<>> /\ inbox[c][Len(inbox[c])] = "STUB"
  \/ roomPc = "head" /\ fd = c

\* Bounds: a head comes in two parts at most, one head at a time; the first
\* part does not count as sent.
ClientHead(c, k) ==
  /\ answer[c] = "room"
  /\ c \in open \ (gone \cup owes)
  /\ sent < MaxFrames
  /\ k = "STUB" => \A x \in Conns : ~HalfSaid(x)
  /\ sent' = IF k = "STUB" THEN sent ELSE sent + 1
  /\ inbox' = [inbox EXCEPT ![c] = Append(@, k)]
  /\ owes' = IF k \in {"MEDIA", "CAMERA", "OTHER"} THEN owes \cup {c} ELSE owes
  /\ UNCHANGED <<queueVars, poolVars, roomVars, acceptVars, sendVars, lobbyVars,
                 gone, clientQueue, open>>

ClientRest(c, rest) ==
  /\ c \in owes \ gone
  /\ inbox' = [inbox EXCEPT ![c] = Append(@, rest)]
  /\ owes' = owes \ {c}
  /\ UNCHANGED <<queueVars, poolVars, roomVars, acceptVars, sendVars, lobbyVars,
                 gone, sent, clientQueue, open>>

ClientClose(c) ==
  /\ c \notin gone
  /\ gone' = gone \cup {c}
  /\ UNCHANGED <<queueVars, poolVars, roomVars, acceptVars, sendVars, lobbyVars,
                 inbox, sent, owes, clientQueue, open>>

-----------------------------------------------------------------------------
Create == CreatePublish \/ CreateHand \/ CreateStart

Join(c) == JoinLookup(c) \/ JoinCheck(c) \/ JoinHand(c) \/ JoinRespond(c)

Room ==
  \/ RoomTop \/ RoomSelect \/ RoomSnapshot \/ RoomPassEnd
  \/ \E c \in Conns : RoomHead(c)
  \/ RoomHeadRest \/ RoomBody \/ RoomPush
  \/ RoomClear \/ RoomForget \/ RoomClose
  \/ RoomPushX \/ RoomJoinAccept \/ RoomErase

Accept ==
  \/ AcceptTake \/ AcceptCreate \/ AcceptJoin \/ AcceptRefuse
  \/ AcceptPush \/ AcceptIps

Write(t) == \E c \in Conns : SendWrite(t, c)

Send(t) == SendPop(t) \/ SendResolve(t) \/ Write(t)

Client(c) ==
  \/ \E k \in Kinds : ClientHead(c, k)
  \/ \E rest \in {"REST", "BADREST"} : ClientRest(c, rest)
  \/ ClientClose(c)

Next ==
  \/ Create
  \/ \E c \in Conns : Join(c) \/ LobbyClose(c)
  \/ Room
  \/ Accept
  \/ \E t \in SendThreads : Send(t)
  \/ \E c \in Conns : Client(c)

Spec == Init /\ [][Next]_vars

\* Each thread of the server that can take a step takes one.  Clients owe
\* nothing: neither the rest of a frame, nor a join, nor a close.
Fairness ==
  /\ WF_vars(Create)
  /\ \A c \in Conns :
       /\ WF_vars(JoinCheck(c) \/ JoinHand(c) \/ JoinRespond(c))
       /\ WF_vars(LobbyClose(c))
  /\ WF_vars(Room)
  /\ WF_vars(Accept)
  /\ \A t \in SendThreads : WF_vars(Send(t))

FairSpec == Spec /\ Fairness

-----------------------------------------------------------------------------
(* Properties.                                                              *)

RoomPcs == {"off", "top", "select", "snapshot", "pass", "head", "body",
            "fdclose", "close", "push", "pushX", "joinAccept", "joinSend", "done"}
AcceptPcs == {"off", "wait", "create", "join", "push", "ips", "done"}
SendPcs == {"off", "pop", "resolve", "write", "done"}
LobbyPcs == {"publish", "hand", "start", "lobby", "found", "ok", "respond", "left"}
Parts == Kinds \cup {"REST", "BADREST"}

QueueType ==
  /\ send_queue \in Seq(Messages \cup {Pill})
  /\ shutdown_flag \in BOOLEAN
  /\ waiting \subseteq {RoomThread, AcceptThread} \cup SendThreads

PoolType ==
  /\ fdset \subseteq Conns /\ activeFds \subseteq Conns
  /\ owner \in Conns \cup {NoConn}
  /\ num \in Int
  /\ DOMAIN fdToIp \subseteq Conns /\ fdToIp \in [DOMAIN fdToIp -> Ips]
  /\ status \in {"ON", "CLOSE"}

RoomType ==
  /\ roomPc \in RoomPcs
  /\ rset \subseteq Conns /\ todo \subseteq Conns
  /\ fd \in Conns \cup {NoConn}
  /\ msg \in Messages
  /\ shutdown \in BOOLEAN

AcceptType ==
  /\ acceptPc \in AcceptPcs
  /\ newFd \in Conns \cup {NoConn}
  /\ newMsg \in Messages

SendType ==
  /\ sendPc \in [SendThreads -> SendPcs]
  /\ sendMsg \in [SendThreads -> Messages]
  /\ targets \in [SendThreads -> SUBSET Conns]

LobbyType ==
  /\ lobby \in [Conns -> LobbyPcs]
  /\ answer \in [Conns -> {"none", "room", "full", "unknown"}]
  /\ listed \in BOOLEAN

ClientType ==
  /\ gone \subseteq Conns /\ owes \subseteq Conns
  /\ inbox \in [Conns -> Seq(Parts)]
  /\ sent \in 0..MaxFrames

\* Types of the variables.
TypeOK ==
  /\ QueueType /\ PoolType /\ RoomType /\ AcceptType
  /\ SendType /\ LobbyType /\ ClientType
  /\ clientQueue \in Seq(ClientConns)
  /\ open \subseteq Conns

\* The handles the room thread waits on are open whenever it calls Select: a
\* closed one would end the server process and every other room with it
\* (room.cpp 33-48, net.cpp 21-26).
SelectSafe == roomPc = "select" => rset \subseteq open

\* Until the owner leaves, num, activeFds, fdToIp and fdset speak of the same
\* members, and each of them is open; the one exception is a member that found
\* the fd_set full (room.cpp 205-217, 251-258, 271-282).
Bookkeeping ==
  ~shutdown =>
    /\ num = Cardinality(activeFds)
    /\ DOMAIN fdToIp = activeFds
    /\ fdset \subseteq activeFds
    /\ Cardinality(fdset) <= ROOMLIMIT
    /\ activeFds \subseteq open

\* Once the owner has left, the room takes nobody in and holds nobody, though
\* joins that passed the test of status are still on their way (room.cpp
\* 195-199, 271-276; msg.h 141-155; userdeal.cpp 166-189).
ClosedStaysEmpty ==
  shutdown =>
    /\ status = "CLOSE"
    /\ owner = NoConn
    /\ activeFds = {} /\ fdset = {} /\ fdToIp = [s \in {} |-> NoIp]
    /\ num <= 0
    /\ Creator \notin open

\* Outside the pass that cleared the room, the room thread reads from and
\* closes open handles only (room.cpp 57-67, 197-198, 224).
StaleOnlyAfterClear ==
  ~shutdown =>
    /\ roomPc = "pass" => todo \subseteq open
    /\ roomPc \in {"head", "body", "fdclose", "close"} => fd \in open

InLobby(c) == lobby[c] \in {"publish", "hand", "lobby", "found", "ok"}
InQueue(c) == \E i \in 1..Len(clientQueue) : clientQueue[i].sockfd = c
QueuedOnce ==
  \A i, j \in 1..Len(clientQueue) :
    clientQueue[i].sockfd = clientQueue[j].sockfd
      /\ clientQueue[i].sockfd \in Conns => i = j
InHands(c) == acceptPc \in {"create", "join"} /\ newFd = c

NotInTwoPlaces ==
  /\ QueuedOnce
  /\ \A c \in Conns : InQueue(c) =>
       ~InHands(c) /\ ~InLobby(c) /\ c \notin activeFds /\ c \in open
  /\ \A c \in Conns : InHands(c) =>
       ~InLobby(c) /\ c \notin activeFds /\ c \in open
  /\ \A c \in Conns : InLobby(c) => c \notin activeFds /\ c \in open

\* Not where a thread may still register it.
Past(c) == ~InLobby(c) /\ ~InQueue(c) /\ ~InHands(c)

\* The room thread is about to close it.
InClosing(c) == roomPc = "close" /\ fd = c

\* An open connection is in one place: the lobby, the queue to the accept
\* thread, the accept thread's hands, the members, or the room thread's hands
\* on its way out.  No thread closes or registers a connection that another
\* one still holds, and none is forgotten with its handle open
\* (userdeal.cpp 106-112, 182-188; room.cpp 197-239, 240-282).
OnePlace ==
  /\ NotInTwoPlaces
  /\ \A c \in open : Past(c) => c \in activeFds \/ InClosing(c)

\* The room thread waits for the rest of a head or of a frame, with nobody else
\* served.
Stalled == roomPc \in {"head", "body"} /\ ~Readable(fd)

\* What one condition variable with notify_one needs to serve both sides:
\* 10000 places and five send threads in the program.
Roomy == MAXSIZE > Cardinality(SendThreads)

\* Until the owner leaves, the threads of a room never wait for one another at
\* the send queue: no send thread retires; for every frame queued one of them
\* is awake, or all are; and the room and accept threads sleep only while all
\* send threads are awake and the queue is full, but for the place the other
\* of the two was woken for (msg.h 51-82; room.cpp 107-125, 225, 264-319, 332).
NeverJams ==
  ~shutdown =>
    /\ \A t \in SendThreads : sendPc[t] # "done"
    /\ waiting \cap SendThreads # {} =>
         Len(send_queue) <= Cardinality(SendThreads \ waiting)
    /\ waiting \ SendThreads # {} =>
         waiting \cap SendThreads = {} /\ Len(send_queue) + 1 >= MAXSIZE
    /\ {RoomThread, AcceptThread} \subseteq waiting => Full

\* Unless a member keeps the room thread waiting for ever for the rest of a
\* head or of a frame, a member that is gone is closed in the end, whatever the
\* others do, as long as the limit has not kept it out of fdset (room.cpp
\* 28-68, 95-147).
GoneMemberIsClosed ==
  \/ <>[]Stalled
  \/ \A c \in Conns : (c \in fdset /\ c \in gone) ~> c \notin open

\* A connection handed to a room becomes a member of it or the room closes
\* (userdeal.cpp 182-188, room.cpp 240-282).
HandedIsRegistered ==
  \A c \in Conns : InQueue(c) ~> c \in activeFds \/ shutdown

\* A room whose owner has left comes to its end (room.cpp 167-190).
ClosedRoomEnds == shutdown ~> roomPc = "done"

\* When the room is done it leaves no connection open behind it.
NoneLeftBehind ==
  roomPc = "done" => \A c \in Conns : lobby[c] = "left" => c \notin open

\* The meeting is over once the owner has left.
Gathering == INSTANCE Meeting WITH
  People <- Conns,
  Host <- Creator,
  outside <- {c \in Conns : ~Past(c)},
  present <- activeFds,
  over <- shutdown

\* The threads of a room hold a meeting: joiners come in through the queue at
\* most once, an exit is one step, and the owner's exit ends it for all at
\* once (userdeal.cpp 97-112, 166-189; room.cpp 192-229, 240-282).
ImplementsMeeting == Gathering!Spec

-----------------------------------------------------------------------------
(* The inductive invariant behind the safety properties.                    *)

\* Not a member, and not to be one any more.
Out(c) == Past(c) /\ c \notin activeFds

\* What the room thread holds has been a member.
HeldArePast ==
  /\ \A c \in todo : Past(c)
  /\ roomPc \in {"head", "body", "fdclose", "close"} => fd \in Conns /\ Past(fd)

OnlyCreatorCreates ==
  \A i \in 1..Len(clientQueue) :
    clientQueue[i].cmd = "C" <=> clientQueue[i].sockfd = Creator

\* The creator comes with 'C' and everybody else with 'J'; until it has been
\* registered there is no owner, and the room cannot close.
CreatorComes ==
  /\ lobby[Creator] \in {"publish", "hand", "start", "left"}
  /\ OnlyCreatorCreates
  /\ acceptPc = "create" => newFd = Creator
  /\ acceptPc = "join" => newFd \in Conns \ {Creator}
  /\ ~Past(Creator) => owner = NoConn /\ ~shutdown
  /\ owner # NoConn => owner = Creator /\ Creator \in activeFds

\* The creator owns the room that it is a member of.
HostOwns == Creator \in activeFds => owner = Creator

\* Until the creator's acceptor has started the room's threads, none runs.
BeforeStart ==
  lobby[Creator] # "left" =>
    /\ roomPc = "off" /\ acceptPc = "off" /\ activeFds = {}
    /\ \A t \in SendThreads : sendPc[t] = "off"

\* The queue holds frames only, and the room thread is in its loop, as long as
\* the owner is there.
QueueServes ==
  /\ ~shutdown_flag /\ send_queue \in Seq(Messages)
  /\ roomPc \notin {"pushX", "joinAccept", "joinSend", "done"}

\* The room thread's copies while the room is not closed.
CopiesAreMembers ==
  /\ roomPc \in {"select", "snapshot", "head", "body"} => ~shutdown
  /\ roomPc = "select" => rset \subseteq activeFds
  /\ ~shutdown =>
       /\ roomPc = "pass" => todo \subseteq activeFds
       /\ roomPc \in {"head", "body", "fdclose"} =>
            fd \in todo /\ todo \subseteq activeFds
       /\ roomPc \in {"close", "push"} => todo \ {fd} \subseteq activeFds
       /\ roomPc = "close" => fd \in open /\ fd \notin activeFds
  /\ shutdown => todo \cap open = {}

\* Every step keeps Core, in a state of the types.
Core ==
  /\ Bookkeeping
  /\ ClosedStaysEmpty
  /\ NotInTwoPlaces
  /\ HeldArePast
  /\ CreatorComes
  /\ CopiesAreMembers
=============================================================================
