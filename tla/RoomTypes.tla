----------------------------- MODULE RoomTypes -----------------------------
(***************************************************************************)
(* The type invariant of Room, proved for any set of connections, any       *)
(* limit, any size of the send queue and any number of send threads.        *)
(***************************************************************************)
EXTENDS Room, SequenceTheorems, FiniteSetTheorems, TLAPS

\* The accept thread registers or closes connections only.
TypeInv == TypeOK /\ (acceptPc \in {"create", "join"} => newFd \in Conns)

-----------------------------------------------------------------------------
(* Lemmas.                                                                  *)

\* Message builds a message.
LEMMA MessageType ==
  /\ \A type \in MsgTypes \ {"CREATE_MEETING_RESPONSE"} :
       \A target \in Conns \cup {NoConn} : \A ips \in SUBSET Ips :
         Message(type, target, ips) \in Messages
  /\ \A c \in Conns : Message("CREATE_MEETING_RESPONSE", c, {}) \in Messages
  /\ NoMsg \in Messages
BY DEF Message, Messages, MsgTypes, NoMsg

RoomThreads == {RoomThread, AcceptThread} \cup SendThreads

\* A push of a message keeps the types of the queue.
LEMMA PushType ==
  ASSUME QueueType, NEW t \in RoomThreads, NEW m \in Messages,
         PushMsg(t, m) \/ PushWait(t)
  PROVE  QueueType'
<1> USE DEF RoomThreads
<1>1. CASE Enqueue(t, m) /\ NotifyOne
  BY <1>1, AppendProperties DEF QueueType, Enqueue, NotifyOne
<1>2. CASE PushDropped(t)
  BY <1>2 DEF QueueType, PushDropped, queueVars
<1>3. CASE PushWait(t)
  BY <1>3 DEF QueueType, PushWait, Sleep
<1> QED
  BY <1>1, <1>2, <1>3 DEF PushMsg

\* So does a pop.
LEMMA PopType ==
  ASSUME QueueType, NEW t \in RoomThreads, PopMsg(t) \/ PopWait(t)
  PROVE  QueueType'
<1> USE DEF RoomThreads
<1>1. CASE Dequeue(t) /\ NotifyOne
  BY <1>1, HeadTailProperties DEF QueueType, Dequeue, NotifyOne, Empty
<1>2. CASE PopNothing(t)
  BY <1>2 DEF QueueType, PopNothing, queueVars
<1>3. CASE PopWait(t)
  BY <1>3 DEF QueueType, PopWait, Sleep
<1> QED
  BY <1>1, <1>2, <1>3 DEF PopMsg

\* So does shutdown().
LEMMA ShutdownType == ASSUME QueueType, Shutdown PROVE QueueType'
<1>1. [i \in 1..SENDTHREADSIZE |-> Pill] \in Seq(Messages \cup {Pill})
  BY SizeAssumption
<1>2. send_queue' \in Seq(Messages \cup {Pill})
  BY <1>1, ConcatProperties DEF Shutdown, QueueType
<1> QED
  BY <1>2 DEF Shutdown, QueueType

\* So does clear().
LEMMA ClearType == ASSUME QueueType, Clear PROVE QueueType'
BY EmptySeq DEF Clear, QueueType

\* The types depend on these groups of variables, each for itself.
LEMMA Kept ==
  /\ QueueType /\ UNCHANGED queueVars => QueueType'
  /\ PoolType /\ UNCHANGED poolVars => PoolType'
  /\ RoomType /\ UNCHANGED roomVars => RoomType'
  /\ AcceptType /\ UNCHANGED acceptVars => AcceptType'
  /\ SendType /\ UNCHANGED sendVars => SendType'
  /\ LobbyType /\ UNCHANGED lobbyVars => LobbyType'
  /\ ClientType /\ UNCHANGED clientVars => ClientType'
<1>1. QueueType /\ UNCHANGED queueVars => QueueType'
  BY DEF QueueType, queueVars
<1>2. PoolType /\ UNCHANGED poolVars => PoolType'
  BY DEF PoolType, poolVars
<1>3. RoomType /\ UNCHANGED roomVars => RoomType'
  BY DEF RoomType, roomVars
<1>4. AcceptType /\ UNCHANGED acceptVars => AcceptType'
  BY DEF AcceptType, acceptVars
<1>5. SendType /\ UNCHANGED sendVars => SendType'
  BY DEF SendType, sendVars
<1>6. LobbyType /\ UNCHANGED lobbyVars => LobbyType'
  BY DEF LobbyType, lobbyVars
<1>7. ClientType /\ UNCHANGED clientVars => ClientType'
  BY DEF ClientType, clientVars
<1> QED
  BY <1>1, <1>2, <1>3, <1>4, <1>5, <1>6, <1>7, Zenon

\* What map::operator[] leaves in fdToIp.
LEMMA LookedType ==
  ASSUME PoolType, NEW S \in SUBSET Conns
  PROVE  /\ DOMAIN Looked(S) \subseteq Conns
         /\ Looked(S) \in [DOMAIN Looked(S) -> Ips]
         /\ \A s \in Conns : IpAt(s) \in Ips
BY RoomAssumption DEF PoolType, Looked, IpAt

\* A registered connection keeps the types of the Pool.
LEMMA RegisterType ==
  ASSUME PoolType, NEW c \in Conns, Register(c)
  PROVE  /\ fdset' \subseteq Conns /\ activeFds' \subseteq Conns /\ num' \in Int
         /\ DOMAIN fdToIp' \subseteq Conns /\ fdToIp' \in [DOMAIN fdToIp' -> Ips]
<1>1. fdset' \subseteq Conns /\ activeFds' \subseteq Conns /\ num' \in Int
  BY DEF PoolType, Register, FdSet
<1>2. DOMAIN fdToIp' \subseteq Conns /\ fdToIp' \in [DOMAIN fdToIp' -> Ips]
  BY RoomAssumption DEF PoolType, Register
<1> QED
  BY <1>1, <1>2

\* The first state has the types.
LEMMA TypeInit == Init => TypeInv
<1> SUFFICES ASSUME Init PROVE TypeInv
  OBVIOUS
<1> USE RoomAssumption
<1>1. <<>> \in Seq(Messages \cup {Pill}) /\ <<>> \in Seq(ClientConns) /\ <<>> \in Seq(Parts)
  BY EmptySeq
<1>2. QueueType /\ clientQueue \in Seq(ClientConns)
  BY <1>1 DEF Init, QueueInit, QueueType
<1>3. PoolType
  BY DEF Init, PoolType
<1>4. RoomType
  BY MessageType DEF Init, RoomType, RoomPcs
<1>5. AcceptType /\ acceptPc = "off"
  BY MessageType DEF Init, AcceptType, AcceptPcs
<1>6. SendType
  BY MessageType DEF Init, SendType, SendPcs
<1>7. LobbyType
  BY DEF Init, LobbyType, LobbyPcs
<1>8. ClientType /\ open \subseteq Conns
  <2>1. inbox \in [Conns -> Seq(Parts)]
    BY <1>1 DEF Init
  <2>2. gone = {} /\ owes = {} /\ open = Conns /\ sent = 0
    BY DEF Init
  <2> HIDE DEF Init
  <2> QED
    BY <2>1, <2>2 DEF ClientType
<1> HIDE DEF Init
<1> QED
  BY <1>2, <1>3, <1>4, <1>5, <1>6, <1>7, <1>8 DEF TypeInv, TypeOK

-----------------------------------------------------------------------------
(* The acceptor threads and the clients.                                    *)

\* The acceptors keep the types.
LEMMA LobbyStepType ==
  ASSUME TypeInv,
         Create \/ \E c \in Conns : Join(c) \/ LobbyClose(c)
  PROVE  TypeInv'
<1> USE DEF TypeInv, TypeOK
<1> ClientConns # {} /\ [cmd |-> "C", sockfd |-> Creator] \in ClientConns
  BY RoomAssumption DEF ClientConns
<1>1. CASE CreatePublish
  <2>1. LobbyType'
    BY <1>1 DEF CreatePublish, LobbyType, LobbyPcs
  <2> QED
    BY <1>1, <2>1, Kept DEF CreatePublish, acceptVars
<1>2. CASE CreateHand
  <2>1. LobbyType'
    BY <1>2 DEF CreateHand, LobbyType, LobbyPcs
  <2>2. clientQueue' \in Seq(ClientConns)
    BY <1>2, AppendProperties DEF CreateHand
  <2> QED
    BY <1>2, <2>1, <2>2, Kept DEF CreateHand, acceptVars
<1>3. CASE CreateStart
  <2>1. LobbyType'
    BY <1>3 DEF CreateStart, LobbyType, LobbyPcs
  <2>2. RoomType' /\ SendType' /\ AcceptType' /\ acceptPc' = "wait"
    BY <1>3 DEF CreateStart, RoomType, RoomPcs, SendType, SendPcs, AcceptType, AcceptPcs
  <2> QED
    BY <1>3, <2>1, <2>2, Kept DEF CreateStart
<1>4. ASSUME NEW c \in Conns, JoinLookup(c) PROVE TypeInv'
  <2>1. LobbyType'
    BY <1>4 DEF JoinLookup, LobbyType, LobbyPcs
  <2> QED
    BY <1>4, <2>1, Kept DEF JoinLookup, acceptVars
<1>5. ASSUME NEW c \in Conns, JoinCheck(c) PROVE TypeInv'
  <2>1. LobbyType'
    BY <1>5 DEF JoinCheck, LobbyType, LobbyPcs
  <2> QED
    BY <1>5, <2>1, Kept DEF JoinCheck, acceptVars
<1>6. ASSUME NEW c \in Conns, JoinHand(c) PROVE TypeInv'
  <2>1. LobbyType'
    BY <1>6 DEF JoinHand, LobbyType, LobbyPcs
  <2>2. [cmd |-> "J", sockfd |-> c] \in ClientConns
    BY RoomAssumption DEF ClientConns
  <2>3. clientQueue' \in Seq(ClientConns)
    BY <1>6, <2>2, AppendProperties DEF JoinHand
  <2> QED
    BY <1>6, <2>1, <2>3, Kept DEF JoinHand, acceptVars
<1>7. ASSUME NEW c \in Conns, JoinRespond(c) PROVE TypeInv'
  <2>1. LobbyType'
    BY <1>7 DEF JoinRespond, LobbyType, LobbyPcs
  <2> QED
    BY <1>7, <2>1, Kept DEF JoinRespond, acceptVars
<1>8. ASSUME NEW c \in Conns, LobbyClose(c) PROVE TypeInv'
  <2>1. LobbyType' /\ open' \subseteq Conns
    BY <1>8 DEF LobbyClose, LobbyType, LobbyPcs
  <2> QED
    BY <1>8, <2>1, Kept DEF LobbyClose, acceptVars
<1> QED
  BY <1>1, <1>2, <1>3, <1>4, <1>5, <1>6, <1>7, <1>8 DEF Create, Join

\* The clients keep the types.
LEMMA ClientStepType ==
  ASSUME TypeInv, NEW c \in Conns, Client(c)
  PROVE  TypeInv'
<1> USE DEF TypeInv, TypeOK
<1>1. ASSUME NEW k \in Kinds, ClientHead(c, k) PROVE TypeInv'
  <2>1. inbox' \in [Conns -> Seq(Parts)]
    BY <1>1, AppendProperties DEF ClientHead, ClientType, Parts
  <2>2. sent' \in 0..MaxFrames
    BY <1>1, RoomAssumption DEF ClientHead, ClientType
  <2>3. ClientType'
    BY <1>1, <2>1, <2>2 DEF ClientHead, ClientType
  <2> QED
    BY <1>1, <2>3, Kept DEF ClientHead, acceptVars
<1>2. ASSUME NEW rest \in {"REST", "BADREST"}, ClientRest(c, rest) PROVE TypeInv'
  <2>1. inbox' \in [Conns -> Seq(Parts)]
    BY <1>2, AppendProperties DEF ClientRest, ClientType, Parts
  <2>2. ClientType'
    BY <1>2, <2>1 DEF ClientRest, ClientType
  <2> QED
    BY <1>2, <2>2, Kept DEF ClientRest, acceptVars
<1>3. CASE ClientClose(c)
  <2>1. ClientType'
    BY <1>3 DEF ClientClose, ClientType
  <2> QED
    BY <1>3, <2>1, Kept DEF ClientClose, acceptVars
<1> QED
  BY <1>1, <1>2, <1>3 DEF Client

-----------------------------------------------------------------------------
(* The accept thread and the send threads.                                  *)

\* The accept thread keeps the types.
LEMMA AcceptStepType == ASSUME TypeInv, Accept PROVE TypeInv'
<1> USE DEF TypeInv, TypeOK
<1>1. CASE AcceptTake
  <2>1. Head(clientQueue) \in ClientConns /\ clientQueue' \in Seq(ClientConns)
    BY <1>1, HeadTailProperties DEF AcceptTake
  <2>2. /\ AcceptType'
        /\ acceptPc' \in {"create", "join"} => newFd' \in Conns
    BY <1>1, <2>1 DEF AcceptTake, AcceptType, AcceptPcs, ClientConns
  <2> QED
    BY <1>1, <2>1, <2>2, Kept DEF AcceptTake
<1>2. CASE AcceptCreate
  <2>1. newFd \in Conns
    BY <1>2 DEF AcceptCreate
  <2>2. PoolType'
    BY <1>2, <2>1, RegisterType DEF AcceptCreate, PoolType
  <2>3. AcceptType' /\ acceptPc' = "push"
    BY <1>2, <2>1, MessageType DEF AcceptCreate, AcceptType, AcceptPcs
  <2> QED
    BY <1>2, <2>2, <2>3, Kept DEF AcceptCreate
<1>3. CASE AcceptJoin
  <2>1. newFd \in Conns
    BY <1>3 DEF AcceptJoin
  <2>2. PoolType'
    BY <1>3, <2>1, RegisterType DEF AcceptJoin, PoolType
  <2>3. Message("PARTNER_JOIN", newFd, {IpOf[newFd]}) \in Messages
    BY <2>1, MessageType, RoomAssumption DEF MsgTypes
  <2>4. AcceptType' /\ acceptPc' = "push"
    BY <1>3, <2>3 DEF AcceptJoin, AcceptType, AcceptPcs
  <2> QED
    BY <1>3, <2>2, <2>4, Kept DEF AcceptJoin
<1>4. CASE AcceptRefuse
  <2>1. AcceptType' /\ acceptPc' = "wait" /\ open' \subseteq Conns
    BY <1>4 DEF AcceptRefuse, AcceptType, AcceptPcs
  <2> QED
    BY <1>4, <2>1, Kept DEF AcceptRefuse
<1>5. CASE AcceptPush
  <2>1. AcceptThread \in RoomThreads /\ newMsg \in Messages
    BY DEF RoomThreads, AcceptType
  <2>2. PushMsg(AcceptThread, newMsg) \/ PushWait(AcceptThread)
    BY <1>5 DEF AcceptPush
  <2>3. QueueType'
    BY <2>1, <2>2, PushType
  <2>4. AcceptType' /\ acceptPc' \notin {"create", "join"}
    BY <1>5, MessageType DEF AcceptPush, AcceptType, AcceptPcs, acceptVars
  <2> QED
    BY <1>5, <2>3, <2>4, Kept DEF AcceptPush
<1>6. CASE AcceptIps
  <2> DEFINE others == activeFds \ {newFd}
  <2>1. others \in SUBSET Conns
    BY DEF PoolType
  <2>2. PoolType'
    BY <1>6, <2>1, LookedType DEF AcceptIps, PoolType
  <2>3. {IpAt(s) : s \in others} \in SUBSET Ips
    BY <2>1, LookedType
  <2>4. Message("PARTNER_JOIN2", newFd, {IpAt(s) : s \in others}) \in Messages
    BY <2>3, MessageType DEF AcceptType, MsgTypes
  <2>5. AcceptType' /\ acceptPc' = "push"
    BY <1>6, <2>4 DEF AcceptIps, AcceptType, AcceptPcs
  <2> QED
    BY <1>6, <2>2, <2>5, Kept DEF AcceptIps
<1> QED
  BY <1>1, <1>2, <1>3, <1>4, <1>5, <1>6 DEF Accept

\* A send thread goes on to the rest of its handles, or has none left.
LEMMA RemainingType ==
  ASSUME SendType, NEW t \in SendThreads, NEW rest \in SUBSET Conns,
         Remaining(t, rest)
  PROVE  SendType'
BY MessageType DEF SendType, SendPcs, Remaining

\* The send threads keep the types.
LEMMA SendStepType ==
  ASSUME TypeInv, NEW t \in SendThreads, Send(t)
  PROVE  TypeInv'
<1> USE DEF TypeInv, TypeOK
<1>1. CASE SendPop(t)
  <2>1. PopMsg(t) \/ PopWait(t)
    BY <1>1 DEF SendPop
  <2>2. QueueType'
    BY <2>1, PopType DEF RoomThreads
  <2>3. SendType'
    <3>1. send_queue # <<>> => Head(send_queue) \in Messages \cup {Pill}
      BY HeadTailProperties DEF QueueType
    <3> QED
      BY <1>1, <3>1 DEF SendPop, SendType, SendPcs, Empty
  <2> QED
    BY <1>1, <2>2, <2>3, Kept DEF SendPop, acceptVars
<1>2. CASE SendResolve(t)
  <2>1. Recipients(sendMsg[t]) \in SUBSET Conns
    BY DEF Recipients, SendType, PoolType, Messages
  <2>2. SendType'
    BY <1>2, <2>1, RemainingType DEF SendResolve
  <2> QED
    BY <1>2, <2>2, Kept DEF SendResolve, acceptVars
<1>3. ASSUME NEW c \in Conns, SendWrite(t, c) PROVE TypeInv'
  <2>1. targets[t] \ {c} \in SUBSET Conns
    BY DEF SendType
  <2>2. SendType'
    BY <1>3, <2>1, RemainingType DEF SendWrite
  <2>3. LobbyType'
    BY <1>3 DEF SendWrite, LobbyType
  <2> QED
    BY <1>3, <2>2, <2>3, Kept DEF SendWrite, acceptVars
<1> QED
  BY <1>1, <1>2, <1>3 DEF Send, Write

-----------------------------------------------------------------------------
(* The room thread.                                                         *)

\* Bytes of a head keep the types, whatever they are.
LEMMA TakeHeadType ==
  ASSUME TypeOK, NEW c \in Conns, TakeHead(c), HeadUnchanged
  PROVE  ClientType' /\ PoolType' /\ RoomType'
<1> USE DEF TypeOK
<1>1. ClientType'
  <2>1. Tail(inbox[c]) \in Seq(Parts)
    BY HeadTailProperties DEF ClientType, TakeHead
  <2>2. inbox' \in [Conns -> Seq(Parts)]
    BY <2>1 DEF ClientType, TakeHead
  <2>3. UNCHANGED <<gone, sent, owes>>
    BY DEF HeadUnchanged
  <2> QED
    BY <2>2, <2>3 DEF ClientType
<1>2. PoolType'
  BY LookedType DEF TakeHead, HeadUnchanged, PoolType
<1>3. /\ Message("MEDIA", c, {IpAt(c)}) \in Messages
      /\ Message("CAMERA", c, {IpOf[c]}) \in Messages
      /\ Message("OTHER", c, {IpOf[c]}) \in Messages
  BY LookedType, MessageType, RoomAssumption DEF MsgTypes
<1>4. RoomType'
  BY <1>3 DEF TakeHead, HeadUnchanged, RoomType, RoomPcs
<1> QED
  BY <1>1, <1>2, <1>4

\* The room thread keeps the types.
LEMMA RoomStepType == ASSUME TypeInv, Room PROVE TypeInv'
<1> USE DEF TypeInv, TypeOK
<1>1. CASE RoomTop
  <2>1. RoomType'
    BY <1>1 DEF RoomTop, RoomType, RoomPcs, PoolType
  <2> QED
    BY <1>1, <2>1, Kept DEF RoomTop, acceptVars
<1>2. CASE RoomSelect
  <2>1. RoomType'
    BY <1>2 DEF RoomSelect, RoomType, RoomPcs
  <2> QED
    BY <1>2, <2>1, Kept DEF RoomSelect, acceptVars
<1>3. CASE RoomSnapshot
  <2>1. RoomType'
    BY <1>3 DEF RoomSnapshot, RoomType, RoomPcs
  <2> QED
    BY <1>3, <2>1, Kept DEF RoomSnapshot, acceptVars
<1>4. CASE RoomPassEnd
  <2>1. RoomType'
    BY <1>4 DEF RoomPassEnd, RoomType, RoomPcs
  <2> QED
    BY <1>4, <2>1, Kept DEF RoomPassEnd, acceptVars
<1>5. ASSUME NEW c \in Conns, RoomHead(c) PROVE TypeInv'
  <2>1. CASE TakeHead(c)
    BY <1>5, <2>1, TakeHeadType, Kept DEF RoomHead, HeadUnchanged, acceptVars
  <2>2. CASE ~TakeHead(c)
    <3>1. RoomType'
      BY <1>5, <2>2 DEF RoomHead, HeadUnchanged, RoomType, RoomPcs
    <3>2. UNCHANGED clientVars /\ UNCHANGED poolVars
      BY <1>5, <2>2 DEF RoomHead, HeadUnchanged, clientVars, poolVars
    <3> QED
      BY <1>5, <3>1, <3>2, Kept DEF RoomHead, HeadUnchanged, acceptVars
  <2> QED
    BY <2>1, <2>2
<1>14. CASE RoomHeadRest
  <2>1. CASE TakeHead(fd)
    <3>1. fd \in Conns
      BY <2>1 DEF TakeHead
    <3> QED
      BY <1>14, <2>1, <3>1, TakeHeadType, Kept DEF RoomHeadRest, HeadUnchanged, acceptVars
  <2>2. CASE ~TakeHead(fd)
    <3>1. RoomType'
      BY <1>14, <2>2, MessageType DEF RoomHeadRest, NextHandle, HeadUnchanged, RoomType, RoomPcs
    <3>2. UNCHANGED clientVars /\ UNCHANGED poolVars
      BY <1>14, <2>2 DEF RoomHeadRest, HeadUnchanged, clientVars, poolVars
    <3> QED
      BY <1>14, <3>1, <3>2, Kept DEF RoomHeadRest, HeadUnchanged, acceptVars
  <2> QED
    BY <2>1, <2>2
<1>6. CASE RoomBody
  <2>1. inbox' \in [Conns -> Seq(Parts)]
    BY <1>6, HeadTailProperties DEF RoomBody, ClientType
  <2>2. ClientType'
    BY <1>6, <2>1 DEF RoomBody, ClientType
  <2>3. RoomType'
    BY <1>6 DEF RoomBody, RoomType, RoomPcs
  <2> QED
    BY <1>6, <2>2, <2>3, Kept DEF RoomBody, acceptVars
<1>7. CASE RoomPush
  <2>1. RoomThread \in RoomThreads /\ msg \in Messages
    BY DEF RoomThreads, RoomType
  <2>2. PushMsg(RoomThread, msg) \/ PushWait(RoomThread)
    BY <1>7 DEF RoomPush
  <2>3. QueueType'
    BY <2>1, <2>2, PushType
  <2>4. RoomType'
    BY <1>7, MessageType DEF RoomPush, NextHandle, RoomType, RoomPcs
  <2> QED
    BY <1>7, <2>3, <2>4, Kept DEF RoomPush, acceptVars
<1>8. CASE RoomClear
  <2>1. PoolType'
    BY <1>8, RoomAssumption DEF RoomClear, PoolType
  <2>2. RoomType' /\ open' \subseteq Conns
    BY <1>8, MessageType DEF RoomClear, NextHandle, RoomType, RoomPcs
  <2>3. QueueType'
    BY <1>8, ClearType DEF RoomClear
  <2> QED
    BY <1>8, <2>1, <2>2, <2>3, Kept DEF RoomClear, acceptVars
<1>9. CASE RoomForget
  <2>1. PoolType'
    BY <1>9 DEF RoomForget, PoolType
  <2>2. IpAt(fd) \in Ips
    BY RoomAssumption DEF IpAt, PoolType
  <2>3. Message("PARTNER_EXIT", NoConn, {IpAt(fd)}) \in Messages
    BY <2>2, MessageType DEF MsgTypes
  <2>4. RoomType'
    BY <1>9, <2>3 DEF RoomForget, RoomType, RoomPcs
  <2> QED
    BY <1>9, <2>1, <2>4, Kept DEF RoomForget, acceptVars
<1>10. CASE RoomClose
  <2>1. RoomType' /\ open' \subseteq Conns
    BY <1>10 DEF RoomClose, RoomType, RoomPcs
  <2> QED
    BY <1>10, <2>1, Kept DEF RoomClose, acceptVars
<1>11. CASE RoomPushX
  <2>1. RoomType'
    BY <1>11 DEF RoomPushX, RoomType, RoomPcs
  <2>2. [cmd |-> "X", sockfd |-> NoConn] \in ClientConns
    BY DEF ClientConns
  <2>3. clientQueue' \in Seq(ClientConns)
    BY <1>11, <2>2, AppendProperties DEF RoomPushX
  <2> QED
    BY <1>11, <2>1, <2>3, Kept DEF RoomPushX, acceptVars
<1>12. CASE RoomJoinAccept
  <2>1. RoomType'
    BY <1>12 DEF RoomJoinAccept, RoomType, RoomPcs
  <2>2. QueueType'
    BY <1>12, ShutdownType DEF RoomJoinAccept
  <2> QED
    BY <1>12, <2>1, <2>2, Kept DEF RoomJoinAccept, acceptVars
<1>13. CASE RoomErase
  <2>1. RoomType'
    BY <1>13 DEF RoomErase, RoomType, RoomPcs
  <2>2. LobbyType'
    BY <1>13 DEF RoomErase, LobbyType
  <2> QED
    BY <1>13, <2>1, <2>2, Kept DEF RoomErase, acceptVars
<1> QED
  BY <1>1, <1>2, <1>3, <1>4, <1>5, <1>6, <1>7, <1>8, <1>9, <1>10, <1>11, <1>12,
     <1>13, <1>14 DEF Room

\* Every step keeps the types.
LEMMA TypeStep == ASSUME TypeInv, [Next]_vars PROVE TypeInv'
<1>1. CASE UNCHANGED vars
  <2>1. /\ UNCHANGED queueVars /\ UNCHANGED poolVars /\ UNCHANGED roomVars
        /\ UNCHANGED acceptVars /\ UNCHANGED sendVars /\ UNCHANGED lobbyVars
        /\ UNCHANGED clientVars /\ UNCHANGED <<clientQueue, open>>
    BY <1>1 DEF vars
  <2> QED
    BY <2>1, Kept DEF TypeInv, TypeOK, acceptVars
<1> QED
  BY <1>1, LobbyStepType, RoomStepType, AcceptStepType, SendStepType,
     ClientStepType DEF Next

-----------------------------------------------------------------------------
(* The types of a room's variables, for every instance: in particular a     *)
(* recipient of a frame, a member and a handle in the room thread's hands   *)
(* are always connections (room.cpp 13-433).                                *)
THEOREM Typing == Spec => []TypeInv
<1>1. Init => TypeInv
  BY TypeInit
<1>2. TypeInv /\ [Next]_vars => TypeInv'
  BY TypeStep
<1> QED
  BY <1>1, <1>2, PTL DEF Spec

\* A room's variables keep their types (msg.h 109-155, room.cpp 13-433).
THEOREM Types == Spec => []TypeOK
<1>1. TypeInv => TypeOK
  BY DEF TypeInv
<1> QED
  BY <1>1, Typing, PTL
=============================================================================
