----------------------------- MODULE RosterProof -----------------------------
(***************************************************************************)
(* In a settled room nobody misses anybody, for any number of connections   *)
(* and of send threads that overtake one another.  A frame that shows one   *)
(* member to another is always somewhere between the accept thread and the  *)
(* client until it has been handled, and what takes a name away again is    *)
(* about somebody who is out for good.                                      *)
(***************************************************************************)
EXTENDS Roster, RoomProof

\* A room with its owner, in a state that Meets describes.
Live ==
  TypeInv /\ Core /\ BeforeStart /\ RosterType /\ ~shutdown /\ Meets

-----------------------------------------------------------------------------
(* What a step of Roster is to Room.                                        *)

\* A step with partner is a step without it.
LEMMA RosterSteps == ASSUME [RosterNext]_rosterVars PROVE [Next]_vars
<1>1. ASSUME NEW t \in SendThreads, NEW c \in Conns, Deliver(t, c) PROVE Next
  BY <1>1 DEF Deliver, Next, Send, Write
<1>2. ASSUME NEW c \in Conns, Admit(c) PROVE Next
  BY <1>2 DEF Admit, Next, Join
<1>3. CASE UNCHANGED rosterVars
  BY <1>3 DEF rosterVars
<1>4. CASE \/ Create \/ Room \/ Accept
           \/ \E c \in Conns : JoinLookup(c) \/ JoinCheck(c) \/ JoinHand(c) \/ LobbyClose(c)
           \/ \E t \in SendThreads : SendPop(t) \/ SendResolve(t)
           \/ \E c \in Conns : Client(c)
  BY <1>4 DEF Next, Join, Send
<1> QED
  BY <1>1, <1>2, <1>3, <1>4 DEF RosterNext

\* A room with its rosters is a room.
LEMMA RosterIsRoom == RosterSpec => [](TypeInv /\ Core /\ BeforeStart)
<1>1. RosterSpec => Spec
  <2>1. RosterInit => Init
    BY DEF RosterInit
  <2> QED
    BY <2>1, RosterSteps, PTL DEF RosterSpec, Spec
<1> QED
  BY <1>1, Typing, Inductive, StartsLast, PTL

\* Clients show addresses, whatever comes.
LEMMA RosterTypes == RosterSpec => []RosterType
<1>1. RosterInit => RosterType
  BY DEF RosterInit, RosterType
<1>2. TypeInv /\ RosterType /\ [RosterNext]_rosterVars => RosterType'
  <2> SUFFICES ASSUME TypeInv, RosterType, [RosterNext]_rosterVars PROVE RosterType'
    OBVIOUS
  <2>1. ASSUME NEW t \in SendThreads, NEW c \in Conns, Deliver(t, c) PROVE RosterType'
    <3>1. sendMsg[t].ips \subseteq Ips /\ IpOf[c] \in Ips
      BY RoomAssumption DEF TypeInv, TypeOK, SendType, Messages
    <3>2. Shown(partner[c], sendMsg[t], IpOf[c]) \subseteq Ips
      BY <3>1 DEF RosterType, Shown
    <3> QED
      BY <2>1, <3>2 DEF Deliver, RosterType
  <2>2. ASSUME NEW c \in Conns, Admit(c) PROVE RosterType'
    BY <2>2, RoomAssumption DEF Admit, RosterType
  <2>3. CASE UNCHANGED partner
    BY <2>3 DEF RosterType
  <2> QED
    BY <2>1, <2>2, <2>3 DEF RosterNext, rosterVars
<1> QED
  BY <1>1, <1>2, RosterIsRoom, PTL DEF RosterSpec

\* What a live room knows of itself.
LEMMA LiveFacts ==
  ASSUME Live
  PROVE  /\ AllTruthful /\ QueueServes /\ AddressesKnown
         /\ BeforeStart /\ CreatorFirst /\ SelfShown /\ OthersShown
         /\ DOMAIN fdToIp = activeFds /\ activeFds \subseteq open
         /\ activeFds \subseteq Conns /\ msg \in Messages /\ newMsg \in Messages
         /\ Len(send_queue) \in Nat
BY LenProperties DEF Live, Meets, Core, Bookkeeping, TypeInv, TypeOK, PoolType, RoomType,
     AcceptType, QueueServes

\* Who is out stays out, and so does a namesake.
LEMMA NamesakeStays ==
  ASSUME Live, [Next]_vars
  PROVE  /\ \A c \in Conns : NamesakeIsOut(c) => NamesakeIsOut(c)'
         /\ Past(Creator) => Past(Creator)'
BY OutStays, RoomAssumption DEF Live, NamesakeIsOut

\* NoMsg stands for no frame, and shows nobody.
LEMMA NoMsgShows ==
  /\ NoMsg.type = "MEDIA" /\ NoMsg \in Messages
  /\ \A c, d : ~Shows(NoMsg, c, d)
BY MessageType DEF NoMsg, Message, Shows

\* Only an acceptor and the send threads answer a client.
LEMMA AnswerMoves ==
  ASSUME [Next]_vars
  PROVE  \/ UNCHANGED answer
         \/ \E c \in Conns : JoinLookup(c) \/ JoinCheck(c) \/ JoinRespond(c)
         \/ \E t \in SendThreads, c \in Conns : SendWrite(t, c)
<1> USE DEF lobbyVars
<1>1. CASE Create
  BY <1>1 DEF Create, CreatePublish, CreateHand, CreateStart
<1>2. CASE \E c \in Conns : Join(c) \/ LobbyClose(c)
  BY <1>2 DEF Join, JoinHand, LobbyClose
<1>3. CASE Room
  BY <1>3 DEF Room, RoomTop, RoomSelect, RoomSnapshot, RoomPassEnd, RoomHead, RoomHeadRest, HeadUnchanged, RoomBody,
     RoomPush, RoomClear, RoomForget, RoomClose, RoomPushX, RoomJoinAccept, RoomErase
<1>4. CASE Accept
  BY <1>4 DEF Accept, AcceptTake, AcceptCreate, AcceptJoin, AcceptRefuse, AcceptPush,
     AcceptIps
<1>5. CASE \E t \in SendThreads : Send(t)
  BY <1>5 DEF Send, SendPop, SendResolve, Write
<1>6. CASE \E c \in Conns : Client(c)
  BY <1>6 DEF Client, ClientHead, ClientRest, ClientClose
<1>7. CASE UNCHANGED vars
  BY <1>7 DEF vars
<1> QED
  BY <1>1, <1>2, <1>3, <1>4, <1>5, <1>6, <1>7 DEF Next

-----------------------------------------------------------------------------
(* The creator comes first.                                                 *)

\* Until the creator is registered no step lets anybody else in.
LEMMA CreatorFirstStep ==
  ASSUME Live, [Next]_vars
  PROVE  CreatorFirst'
<1> USE LiveFacts, RoomAssumption
<1> SUFFICES ASSUME IdsSecret, ~Past(Creator)'
             PROVE  /\ answer'[Creator] # "room" /\ activeFds' = {}
                    /\ \A c \in Conns \ {Creator} :
                         lobby'[c] \in {"lobby", "left"} /\ ~InQueue(c)' /\ ~InHands(c)'
  BY DEF CreatorFirst
<1>1. /\ ~Past(Creator) /\ answer[Creator] # "room" /\ activeFds = {}
      /\ \A c \in Conns \ {Creator} :
           lobby[c] \in {"lobby", "left"} /\ ~InQueue(c) /\ ~InHands(c)
  BY NamesakeStays DEF CreatorFirst
<1>2. /\ lobby[Creator] \in {"publish", "hand", "start", "left"}
      /\ lobby \in [Conns -> LobbyPcs]
      /\ answer \in [Conns -> {"none", "room", "full", "unknown"}]
  BY DEF Live, Core, CreatorComes, TypeInv, TypeOK, LobbyType
<1>3. \A t \in SendThreads : sendMsg[t].type # "CREATE_MEETING_RESPONSE"
  BY <1>1 DEF AllTruthful, Truthful
<1>4. activeFds' = {}
  <2>1. Core' /\ TypeInv /\ Core
    BY CoreStep DEF Live
  <2>2. \A c \in Conns : c \in activeFds' => c = Creator
    BY <1>1, <2>1, Onward
  <2>3. Creator \notin activeFds'
    BY <2>1 DEF Core, NotInTwoPlaces, Past
  <2>4. activeFds' \subseteq Conns
    BY TypeStep DEF Live, TypeInv, TypeOK, PoolType
  <2> QED
    BY <2>2, <2>3, <2>4
<1>5. answer'[Creator] # "room"
  <2>1. CASE UNCHANGED answer
    BY <1>1, <2>1
  <2>2. ASSUME NEW c \in Conns, JoinLookup(c) \/ JoinCheck(c) \/ JoinRespond(c) PROVE c # Creator
    BY <1>2, <2>2 DEF JoinLookup, JoinCheck, JoinRespond
  <2>3. ASSUME NEW c \in Conns, JoinLookup(c) \/ JoinCheck(c) \/ JoinRespond(c)
        PROVE  answer'[Creator] = answer[Creator]
    BY <1>2, <2>2, <2>3 DEF JoinLookup, JoinCheck, JoinRespond
  <2>4. ASSUME NEW t \in SendThreads, NEW c \in Conns, SendWrite(t, c)
        PROVE  UNCHANGED answer
    BY <1>3, <2>4 DEF SendWrite
  <2>5. \/ UNCHANGED answer
        \/ \E c \in Conns : JoinLookup(c) \/ JoinCheck(c) \/ JoinRespond(c)
        \/ \E t \in SendThreads, c \in Conns : SendWrite(t, c)
    BY AnswerMoves
  <2> QED
    BY <1>1, <2>3, <2>4, <2>5
<1>6. ASSUME NEW c \in Conns \ {Creator}
      PROVE  lobby'[c] \in {"lobby", "left"} /\ ~InQueue(c)' /\ ~InHands(c)'
  <2>0. lobby[c] \in {"lobby", "left"} /\ ~InQueue(c) /\ ~InHands(c)
    BY <1>1
  <2>1. ~InQueue(c)' /\ ~InHands(c)'
    BY <2>0, Onward DEF Live
  <2>2. CASE UNCHANGED lobby
    BY <2>0, <2>1, <2>2
  <2>3. CASE Create
    <3>1. PICK pc \in LobbyPcs : lobby' = [lobby EXCEPT ![Creator] = pc]
      BY <2>3 DEF Create, CreatePublish, CreateHand, CreateStart, LobbyPcs
    <3> QED
      BY <1>2, <2>0, <2>1, <3>1
  <2>4. ASSUME NEW d \in Conns, Join(d) \/ LobbyClose(d)
        PROVE  lobby'[c] \in {"lobby", "left"}
    <3>1. CASE JoinLookup(d) /\ ~UNCHANGED lobby
      BY <1>1, <3>1 DEF JoinLookup
    <3>2. CASE JoinCheck(d) \/ JoinHand(d) \/ JoinRespond(d) \/ LobbyClose(d)
      BY <1>2, <2>0, <3>2 DEF JoinCheck, JoinHand, JoinRespond, LobbyClose
    <3> QED
      BY <2>0, <2>4, <3>1, <3>2 DEF Join
  <2> QED
    BY <2>1, <2>2, <2>3, <2>4, LobbyMoves
<1> QED
  BY <1>4, <1>5, <1>6

-----------------------------------------------------------------------------
(* What a step leaves alone.                                                *)

\* Frames that were truthful are.
LEMMA StoreKept ==
  ASSUME Live, [Next]_vars, UNCHANGED <<send_queue, shutdown_flag, sendMsg>>,
         UNCHANGED msg \/ Truthful(msg)', UNCHANGED newMsg \/ Truthful(newMsg)',
         roomPc' \notin {"pushX", "joinAccept", "joinSend", "done"}
  PROVE  AllTruthful' /\ QueueServes'
BY LiveFacts, NamesakeStays DEF AllTruthful, QueueServes, Truthful

\* Who has heard of itself has.
LEMMA SelfKept ==
  ASSUME Live, [Next]_vars, UNCHANGED partner,
         \A c \in Conns : answer'[c] = "room" => answer[c] = "room"
  PROVE  SelfShown'
BY LiveFacts, NamesakeStays DEF SelfShown

\* A pair is still served, or newly so.
LEMMA OthersKept ==
  ASSUME Live, [Next]_vars,
         \A c, d \in activeFds' : c # d /\ Introduced(c, d) /\ ~NamesakeIsOut(d)' =>
            \/ UnderWay(c, d)'
            \/ /\ c \in activeFds /\ d \in activeFds
               /\ IpOf[d] \in partner[c] => IpOf[d] \in partner'[c]
               /\ UnderWay(c, d) => IpOf[d] \in partner'[c] \/ UnderWay(c, d)'
  PROVE  OthersShown'
<1> SUFFICES ASSUME NEW c \in activeFds', NEW d \in activeFds', c # d,
                    Introduced(c, d), ~NamesakeIsOut(d)'
             PROVE  IpOf[d] \in partner'[c] \/ UnderWay(c, d)'
  BY DEF OthersShown, Introduced
<1>1. CASE UnderWay(c, d)'
  BY <1>1
<1>2. CASE /\ c \in activeFds /\ d \in activeFds
           /\ IpOf[d] \in partner[c] => IpOf[d] \in partner'[c]
           /\ UnderWay(c, d) => IpOf[d] \in partner'[c] \/ UnderWay(c, d)'
  <2>1. ~NamesakeIsOut(d)
    BY <1>2, LiveFacts, NamesakeStays
  <2>2. IpOf[d] \in partner[c] \/ UnderWay(c, d)
    BY <1>2, <2>1, LiveFacts DEF OthersShown
  <2> QED
    BY <1>2, <2>2
<1> QED
  BY <1>1, <1>2

\* All of Meets but who comes first.
Carried == AllTruthful /\ QueueServes /\ AddressesKnown /\ SelfShown /\ OthersShown

\* A step that leaves the frames, the members and the clients alone.
LEMMA QuietStep ==
  ASSUME Live, [Next]_vars,
         UNCHANGED <<send_queue, shutdown_flag, sendMsg, targets, newMsg>>,
         UNCHANGED <<activeFds, partner>>,
         UNCHANGED msg \/ Truthful(msg)', UNCHANGED fdToIp \/ AddressesKnown',
         roomPc' \notin {"pushX", "joinAccept", "joinSend", "done"},
         \A c \in Conns : answer'[c] = "room" => answer[c] = "room",
         \/ activeFds = {}
         \/ /\ UNCHANGED sendPc
            /\ UNCHANGED <<acceptPc, newFd>> \/ acceptPc \notin {"push", "ips"}
  PROVE  Carried'
<1>1. AllTruthful' /\ QueueServes' /\ SelfShown'
  BY StoreKept, SelfKept
<1>2. AddressesKnown'
  BY LiveFacts DEF AddressesKnown
<1>3. OthersShown'
  <2>1. CASE activeFds = {}
    BY <2>1 DEF OthersShown
  <2>2. ASSUME activeFds # {}, NEW c \in Conns, NEW d \in Conns, UnderWay(c, d)
        PROVE  UnderWay(c, d)'
    BY <2>2 DEF UnderWay, Announced, Queued, Sending, Shows
  <2> QED
    BY <2>1, <2>2, LiveFacts, OthersKept
<1> QED
  BY <1>1, <1>2, <1>3 DEF Carried

-----------------------------------------------------------------------------
(* The acceptors and the clients.                                           *)

\* What happens in the lobby and at the clients.
LEMMA LobbyQuiet ==
  ASSUME Live, [Next]_vars, UNCHANGED partner,
         \/ Create
         \/ \E c \in Conns : JoinLookup(c) \/ JoinCheck(c) \/ JoinHand(c) \/ LobbyClose(c)
         \/ \E c \in Conns : Client(c)
         \/ UNCHANGED vars
  PROVE  Carried'
<1> USE LiveFacts DEF queueVars, poolVars, roomVars, acceptVars, sendVars, lobbyVars
<1>1. /\ roomPc \notin {"pushX", "joinAccept", "joinSend", "done"}
      /\ answer \in [Conns -> {"none", "room", "full", "unknown"}]
  BY DEF QueueServes, Live, TypeInv, TypeOK, LobbyType
<1>2. CASE CreatePublish \/ CreateHand
  BY <1>1, <1>2, QuietStep DEF CreatePublish, CreateHand
<1>3. CASE CreateStart
  <2>1. activeFds = {}
    BY <1>3 DEF CreateStart, BeforeStart
  <2> QED
    BY <1>3, <2>1, QuietStep DEF CreateStart
<1>4. ASSUME NEW c \in Conns, JoinLookup(c) \/ JoinCheck(c) \/ JoinHand(c) \/ LobbyClose(c)
      PROVE  Carried'
  <2>1. \A d \in Conns : answer'[d] = "room" => answer[d] = "room"
    BY <1>1, <1>4 DEF JoinLookup, JoinCheck, JoinHand, LobbyClose
  <2> QED
    BY <1>1, <1>4, <2>1, QuietStep DEF JoinLookup, JoinCheck, JoinHand, LobbyClose
<1>5. CASE \E c \in Conns : Client(c)
  BY <1>1, <1>5, QuietStep DEF Client, ClientHead, ClientRest, ClientClose
<1>6. CASE UNCHANGED vars
  BY <1>1, <1>6, QuietStep DEF vars
<1> QED
  BY <1>2, <1>3, <1>4, <1>5, <1>6 DEF Create

\* Who is let in shows itself.
LEMMA AdmitStep ==
  ASSUME Live, [Next]_vars, NEW c \in Conns, Admit(c)
  PROVE  Carried'
<1> USE LiveFacts DEF queueVars, poolVars, roomVars, acceptVars, sendVars
<1>1. /\ roomPc \notin {"pushX", "joinAccept", "joinSend", "done"}
      /\ answer \in [Conns -> {"none", "room", "full", "unknown"}]
  BY DEF QueueServes, Live, TypeInv, TypeOK, LobbyType
<1>2. /\ UNCHANGED <<send_queue, shutdown_flag, sendMsg, targets, newMsg, activeFds>>
      /\ UNCHANGED <<msg, fdToIp, roomPc, sendPc, acceptPc, newFd>>
  BY <1>1 DEF Admit, JoinRespond
<1>3. /\ answer' = IF c \in open THEN [answer EXCEPT ![c] = "room"] ELSE answer
      /\ partner' = IF c \in open THEN [partner EXCEPT ![c] = @ \cup {IpOf[c]}]
                                  ELSE partner
  BY DEF Admit, JoinRespond
<1>4. AllTruthful' /\ QueueServes'
  BY <1>1, <1>2, StoreKept
<1>5. SelfShown'
  <2> SUFFICES ASSUME NEW d \in Conns, answer'[d] = "room", ~NamesakeIsOut(d)'
               PROVE  IpOf[d] \in partner'[d]
    BY DEF SelfShown
  <2>1. CASE d = c /\ c \in open
    BY <1>3, <2>1 DEF Live, RosterType
  <2>2. CASE ~(d = c /\ c \in open)
    <3>1. answer[d] = "room" /\ ~NamesakeIsOut(d)
      BY <1>1, <1>3, <2>2, NamesakeStays
    <3> QED
      BY <1>3, <2>2, <3>1 DEF SelfShown
  <2> QED
    BY <2>1, <2>2
<1>6. OthersShown'
  <2>1. \A d, e \in Conns : IpOf[e] \in partner[d] => IpOf[e] \in partner'[d]
    BY <1>3 DEF Live, RosterType
  <2>2. ASSUME NEW d \in Conns, NEW e \in Conns, UnderWay(d, e)
        PROVE  UnderWay(d, e)'
    BY <1>2, <2>2 DEF UnderWay, Announced, Queued, Sending, Shows
  <2> QED
    BY <1>2, <2>1, <2>2, OthersKept
<1> QED
  BY <1>2, <1>4, <1>5, <1>6 DEF Carried, AddressesKnown

-----------------------------------------------------------------------------
(* The room thread.                                                         *)

\* A frame joins the queue.
LEMMA Pushed ==
  ASSUME Live, NEW t, NEW m \in Messages, PushMsg(t, m)
  PROVE  /\ send_queue' \in Seq(Messages) /\ shutdown_flag' = shutdown_flag
         /\ Len(send_queue') = Len(send_queue) + 1 /\ Len(send_queue) \in Nat
         /\ \A i \in 1..Len(send_queue) : send_queue'[i] = send_queue[i]
         /\ send_queue'[Len(send_queue')] = m
<1>1. send_queue' = Append(send_queue, m) /\ UNCHANGED shutdown_flag
  BY LiveFacts DEF PushMsg, PushDropped, Enqueue, QueueServes
<1> QED
  BY <1>1, LiveFacts, AppendProperties DEF QueueServes

\* The loop of the room thread, up to a push.
LEMMA RoomQuiet ==
  ASSUME Live, [Next]_vars, UNCHANGED partner, ~shutdown',
         \/ RoomTop \/ RoomSelect \/ RoomSnapshot \/ RoomPassEnd
         \/ \E c \in Conns : RoomHead(c)
         \/ RoomHeadRest \/ RoomBody \/ RoomClose
  PROVE  Carried'
<1> USE LiveFacts DEF queueVars, poolVars, acceptVars, sendVars, lobbyVars
<1>1. roomPc \notin {"pushX", "joinAccept", "joinSend", "done"}
  BY DEF QueueServes
<1>2. CASE RoomTop \/ RoomSelect \/ RoomSnapshot \/ RoomPassEnd
  BY <1>1, <1>2, QuietStep DEF RoomTop, RoomSelect, RoomSnapshot, RoomPassEnd
<1>3. ASSUME (\E c \in Conns : RoomHead(c)) \/ RoomHeadRest PROVE Carried'
  <2>1. UNCHANGED msg \/ Truthful(msg)'
    <3>1. \/ UNCHANGED msg
          \/ msg'.type \in {"MEDIA", "CAMERA", "OTHER"}
      <4>1. ASSUME NEW c, TakeHead(c)
            PROVE  UNCHANGED msg \/ msg'.type \in {"MEDIA", "CAMERA", "OTHER"}
        BY <4>1 DEF TakeHead, Message
      <4>2. NoMsg.type = "MEDIA"
        BY NoMsgShows
      <4> QED
        BY <1>3, <4>1, <4>2 DEF RoomHead, RoomHeadRest, NextHandle
    <3> QED
      BY <3>1 DEF Truthful
  <2>2. UNCHANGED fdToIp \/ AddressesKnown'
    BY <1>3 DEF RoomHead, RoomHeadRest, TakeHead, HeadUnchanged, Looked, IpAt, AddressesKnown
  <2>3. roomPc' \notin {"pushX", "joinAccept", "joinSend", "done"}
    BY <1>3, <1>1 DEF RoomHead, RoomHeadRest, TakeHead, NextHandle
  <2>4. /\ UNCHANGED <<send_queue, shutdown_flag, sendMsg, targets, newMsg>>
        /\ UNCHANGED <<activeFds, answer, sendPc, acceptPc, newFd>>
    BY <1>3 DEF RoomHead, RoomHeadRest, HeadUnchanged
  <2> QED
    BY <2>1, <2>2, <2>3, <2>4, QuietStep
<1>4. CASE RoomBody \/ RoomClose
  BY <1>1, <1>4, QuietStep DEF RoomBody, RoomClose
<1> QED
  BY <1>2, <1>3, <1>4

\* The frame in hand goes to the queue.
LEMMA RoomPushStep ==
  ASSUME Live, [Next]_vars, UNCHANGED partner, RoomPush
  PROVE  Carried'
<1> USE LiveFacts DEF queueVars, poolVars, acceptVars, sendVars, lobbyVars
<1>1. CASE PushWait(RoomThread) /\ UNCHANGED <<roomPc, todo, fd, msg>>
  BY <1>1, QuietStep DEF RoomPush, PushWait, Sleep, QueueServes
<1>2. CASE PushMsg(RoomThread, msg) /\ NextHandle
  <2>1. /\ roomPc' = "pass" /\ msg' = NoMsg
        /\ UNCHANGED <<fdToIp, activeFds, answer, sendMsg, sendPc, targets>>
        /\ UNCHANGED <<newMsg, acceptPc, newFd>>
    BY <1>2 DEF RoomPush, NextHandle
  <2>2. QueueServes'
    BY <1>2, <2>1, Pushed DEF QueueServes
  <2>3. AllTruthful'
    BY <1>2, <2>1, Pushed, NamesakeStays, NoMsgShows DEF AllTruthful, Truthful
  <2>4. AddressesKnown' /\ SelfShown'
    BY <2>1, SelfKept DEF AddressesKnown
  <2>5. ASSUME NEW c \in Conns, NEW d \in Conns, UnderWay(c, d) PROVE UnderWay(c, d)'
    <3>1. Queued(c, d) => Queued(c, d)'
      BY <1>2, Pushed DEF Queued, Shows
    <3> QED
      BY <2>1, <2>5, <3>1 DEF UnderWay, Announced, Sending, Shows
  <2>6. OthersShown'
    BY <2>1, <2>5, OthersKept
  <2> QED
    BY <2>2, <2>3, <2>4, <2>6 DEF Carried
<1> QED
  BY <1>1, <1>2 DEF RoomPush

\* A member is forgotten: PARTNER_EXIT is about somebody that is out.
LEMMA ForgetStep ==
  ASSUME Live, [Next]_vars, UNCHANGED partner, RoomForget
  PROVE  Carried'
<1> USE LiveFacts DEF queueVars, poolVars, acceptVars, sendVars, lobbyVars
<1>1. fd \in activeFds /\ Past(fd) /\ IpAt(fd) = IpOf[fd]
  BY MembersArePast DEF RoomForget, Live, Core, CopiesAreMembers, AddressesKnown, IpAt
<1>2. /\ activeFds' = activeFds \ {fd} /\ roomPc' = "close"
      /\ msg' = Message("PARTNER_EXIT", NoConn, {IpOf[fd]})
      /\ fdToIp' = [s \in DOMAIN fdToIp \ {fd} |-> fdToIp[s]]
      /\ UNCHANGED <<send_queue, shutdown_flag, sendMsg, targets, newMsg>>
      /\ UNCHANGED <<answer, sendPc, acceptPc, newFd, fd>>
  BY <1>1 DEF RoomForget
<1>3. PICK x \in Conns : x = fd /\ Past(x) /\ x \notin activeFds'
  BY <1>1, <1>2
<1>4. Out(x)'
  BY <1>3, OutStays DEF Out, Live
<1>5. Truthful(msg)'
  BY <1>2, <1>3, <1>4 DEF Truthful, Message, NamesakeIsOut
<1>6. AllTruthful' /\ QueueServes' /\ SelfShown'
  BY <1>2, <1>5, StoreKept, SelfKept
<1>7. AddressesKnown'
  BY <1>2 DEF AddressesKnown
<1>8. ASSUME NEW c \in Conns, NEW d \in Conns, UnderWay(c, d) PROVE UnderWay(c, d)'
  BY <1>2, <1>8 DEF UnderWay, Announced, Queued, Sending, Shows
<1>9. OthersShown'
  BY <1>2, <1>8, OthersKept
<1> QED
  BY <1>6, <1>7, <1>9 DEF Carried

-----------------------------------------------------------------------------
(* The accept thread.                                                       *)

\* What the accept thread leaves alone.
LEMMA AcceptLeaves ==
  ASSUME Live, Accept
  PROVE  /\ UNCHANGED <<roomPc, msg, sendPc, sendMsg, targets, answer>>
         /\ roomPc' \notin {"pushX", "joinAccept", "joinSend", "done"}
         /\ ~AcceptPush => UNCHANGED <<send_queue, shutdown_flag>>
BY LiveFacts DEF QueueServes, queueVars, roomVars, acceptVars, sendVars, lobbyVars, Accept,
   AcceptTake, AcceptCreate, AcceptJoin, AcceptRefuse, AcceptPush, AcceptIps

\* The next command, or a refusal.
LEMMA AcceptQuiet ==
  ASSUME Live, [Next]_vars, UNCHANGED partner, AcceptTake \/ AcceptRefuse
  PROVE  Carried'
<1>1. /\ Accept /\ ~AcceptPush /\ acceptPc \notin {"push", "ips"}
      /\ UNCHANGED <<activeFds, fdToIp, newMsg>>
  BY DEF Accept, AcceptTake, AcceptRefuse, AcceptPush, poolVars
<1> QED
  BY <1>1, AcceptLeaves, QuietStep

\* The creator is registered: where ids are secret, nobody is there yet.
LEMMA AcceptCreateStep ==
  ASSUME Live, [Next]_vars, UNCHANGED partner, AcceptCreate
  PROVE  Carried'
<1> USE LiveFacts
<1>1. newFd = Creator /\ InHands(Creator) /\ ~Past(Creator)
  BY DEF AcceptCreate, Live, Core, CreatorComes, InHands, Past
<1>2. /\ UNCHANGED <<roomPc, msg, sendPc, sendMsg, targets, answer>>
      /\ UNCHANGED <<send_queue, shutdown_flag>>
      /\ roomPc' \notin {"pushX", "joinAccept", "joinSend", "done"}
  BY AcceptLeaves DEF Accept, AcceptCreate, AcceptPush
<1>3. /\ activeFds' = activeFds \cup {Creator} /\ acceptPc = "create"
      /\ newMsg'.type = "CREATE_MEETING_RESPONSE"
      /\ fdToIp' = [s \in DOMAIN fdToIp \cup {Creator} |->
                      IF s = Creator THEN IpOf[Creator] ELSE fdToIp[s]]
  BY <1>1 DEF AcceptCreate, Register, Message
<1>4. Past(Creator)'
  BY <1>3, CoreStep, RoomAssumption DEF Live, Core, NotInTwoPlaces, Past
<1>5. AllTruthful' /\ QueueServes' /\ SelfShown'
  BY <1>2, <1>3, <1>4, StoreKept, SelfKept DEF Truthful
<1>6. AddressesKnown'
  BY <1>3 DEF AddressesKnown
<1>7. ASSUME NEW c \in Conns, NEW d \in Conns, UnderWay(c, d) PROVE UnderWay(c, d)'
  BY <1>2, <1>3, <1>7 DEF UnderWay, Announced, Queued, Sending, Shows
<1>8. IdsSecret => activeFds = {}
  BY <1>1 DEF CreatorFirst
<1>9. OthersShown'
  BY <1>3, <1>7, <1>8, OthersKept, RoomAssumption DEF Introduced
<1> QED
  BY <1>5, <1>6, <1>9 DEF Carried

\* A joiner is registered: PARTNER_JOIN shows it to the others, and
\* PARTNER_JOIN2 is to show the others to it.
LEMMA AcceptJoinStep ==
  ASSUME Live, [Next]_vars, UNCHANGED partner, AcceptJoin
  PROVE  Carried'
<1> USE LiveFacts
<1>1. newFd \in Conns
  BY DEF AcceptJoin, Live, Core, CreatorComes
<1>2. /\ UNCHANGED <<roomPc, msg, sendPc, sendMsg, targets, answer>>
      /\ UNCHANGED <<send_queue, shutdown_flag>>
      /\ roomPc' \notin {"pushX", "joinAccept", "joinSend", "done"}
  BY AcceptLeaves DEF Accept, AcceptJoin, AcceptPush
<1>3. /\ activeFds' = activeFds \cup {newFd}
      /\ acceptPc = "join" /\ acceptPc' = "push" /\ newFd' = newFd
      /\ newMsg' = Message("PARTNER_JOIN", newFd, {IpOf[newFd]})
      /\ fdToIp' = [s \in DOMAIN fdToIp \cup {newFd} |->
                      IF s = newFd THEN IpOf[newFd] ELSE fdToIp[s]]
  BY DEF AcceptJoin, Register
<1>4. AllTruthful' /\ QueueServes' /\ SelfShown'
  BY <1>2, <1>3, StoreKept, SelfKept DEF Truthful, Message
<1>5. AddressesKnown'
  BY <1>3 DEF AddressesKnown
<1>6. ASSUME NEW c \in Conns, NEW d \in Conns, UnderWay(c, d) PROVE UnderWay(c, d)'
  BY <1>2, <1>3, <1>6 DEF UnderWay, Announced, Queued, Sending, Shows
<1>7. ASSUME NEW c \in Conns, NEW d \in Conns, c # d, c = newFd \/ d = newFd
      PROVE  UnderWay(c, d)'
  BY <1>3, <1>7 DEF UnderWay, Announced, Shows, Message
<1>8. OthersShown'
  BY <1>1, <1>3, <1>6, <1>7, OthersKept
<1> QED
  BY <1>4, <1>5, <1>8 DEF Carried

\* PARTNER_JOIN goes to the queue and the list is next, or the list does.
LEMMA AcceptPushStep ==
  ASSUME Live, [Next]_vars, UNCHANGED partner, AcceptPush
  PROVE  Carried'
<1> USE LiveFacts
<1>1. /\ UNCHANGED <<roomPc, msg, sendPc, sendMsg, targets, answer>>
      /\ UNCHANGED <<activeFds, fdToIp>> /\ acceptPc = "push"
      /\ roomPc' \notin {"pushX", "joinAccept", "joinSend", "done"}
  BY AcceptLeaves DEF Accept, AcceptPush, poolVars
<1>2. CASE PushWait(AcceptThread) /\ UNCHANGED acceptVars
  BY <1>1, <1>2, QuietStep DEF PushWait, Sleep, acceptVars
<1>3. CASE /\ PushMsg(AcceptThread, newMsg)
           /\ newMsg' = NoMsg
           /\ newMsg.type = "PARTNER_JOIN" => acceptPc' = "ips" /\ newFd' = newFd
  <2>1. QueueServes'
    BY <1>1, <1>3, Pushed DEF QueueServes
  <2>2. AllTruthful'
    BY <1>1, <1>3, Pushed, NamesakeStays, NoMsgShows DEF AllTruthful, Truthful
  <2>3. AddressesKnown' /\ SelfShown'
    BY <1>1, SelfKept DEF AddressesKnown
  <2>4. ASSUME NEW c \in Conns, NEW d \in Conns, UnderWay(c, d) PROVE UnderWay(c, d)'
    <3>1. Queued(c, d) => Queued(c, d)'
      BY <1>3, Pushed DEF Queued, Shows
    <3>2. Sending(c, d) => Sending(c, d)'
      BY <1>1 DEF Sending, Shows
    <3>3. Shows(newMsg, c, d) => Queued(c, d)'
      BY <1>3, Pushed DEF Queued, Shows
    <3>4. Announced(c, d) => Announced(c, d)' \/ Queued(c, d)'
      BY <1>1, <1>3, <3>3 DEF Announced
    <3> QED
      BY <2>4, <3>1, <3>2, <3>4 DEF UnderWay
  <2>5. OthersShown'
    BY <1>1, <2>4, OthersKept
  <2> QED
    BY <2>1, <2>2, <2>3, <2>5 DEF Carried
<1> QED
  BY <1>2, <1>3 DEF AcceptPush

\* The list holds every other member.
LEMMA AcceptIpsStep ==
  ASSUME Live, [Next]_vars, UNCHANGED partner, AcceptIps
  PROVE  Carried'
<1> USE LiveFacts
<1> DEFINE others == activeFds \ {newFd}
<1>1. /\ UNCHANGED <<roomPc, msg, sendPc, sendMsg, targets, answer>>
      /\ UNCHANGED <<send_queue, shutdown_flag, activeFds, newFd>>
      /\ roomPc' \notin {"pushX", "joinAccept", "joinSend", "done"}
      /\ acceptPc = "ips" /\ acceptPc' = "push"
      /\ newMsg' = Message("PARTNER_JOIN2", newFd, {IpAt(s) : s \in others})
      /\ fdToIp' = Looked(others)
  BY AcceptLeaves DEF Accept, AcceptIps, AcceptPush
<1>2. \A s \in activeFds : IpAt(s) = IpOf[s]
  BY DEF IpAt, AddressesKnown
<1>3. AllTruthful' /\ QueueServes' /\ SelfShown'
  BY <1>1, StoreKept, SelfKept DEF Truthful, Message
<1>4. AddressesKnown'
  BY <1>1, <1>2 DEF AddressesKnown, Looked
<1>5. ASSUME NEW c \in activeFds, NEW d \in activeFds, c # d, UnderWay(c, d)
      PROVE  UnderWay(c, d)'
  <2>1. CASE Queued(c, d) \/ Sending(c, d)
    BY <1>1, <2>1 DEF UnderWay, Queued, Sending, Shows
  <2>2. CASE Announced(c, d)
    <3>1. newFd = c
      BY <1>1, <2>2 DEF Announced
    <3>2. IpOf[d] \in newMsg'.ips /\ newMsg'.type = "PARTNER_JOIN2" /\ newMsg'.target = c
      BY <1>1, <1>2, <1>5, <3>1 DEF Message
    <3> QED
      BY <1>1, <3>2 DEF UnderWay, Announced, Shows
  <2> QED
    BY <1>5, <2>1, <2>2 DEF UnderWay
<1>6. OthersShown'
  BY <1>1, <1>5, OthersKept
<1> QED
  BY <1>3, <1>4, <1>6 DEF Carried

-----------------------------------------------------------------------------
(* The send threads.                                                        *)

\* A send thread takes a frame over from the queue.
LEMMA PopStep ==
  ASSUME Live, [Next]_vars, UNCHANGED partner, NEW t \in SendThreads, SendPop(t)
  PROVE  Carried'
<1> USE LiveFacts
<1>1. /\ UNCHANGED <<roomPc, msg, newMsg, acceptPc, newFd, targets, answer>>
      /\ UNCHANGED <<activeFds, fdToIp>> /\ sendPc[t] = "pop"
  BY DEF SendPop, poolVars, roomVars, acceptVars, lobbyVars
<1>2. /\ roomPc \notin {"pushX", "joinAccept", "joinSend", "done"} /\ ~shutdown_flag
      /\ send_queue \in Seq(Messages)
      /\ sendPc \in [SendThreads -> SendPcs] /\ sendMsg \in [SendThreads -> Messages]
  BY DEF QueueServes, Live, TypeInv, TypeOK, SendType
<1>3. CASE PopWait(t) /\ UNCHANGED <<sendPc, sendMsg>>
  BY <1>1, <1>2, <1>3, QuietStep DEF PopWait, Sleep
<1>4. CASE PopMsg(t) /\ ~(PopWait(t) /\ UNCHANGED <<sendPc, sendMsg>>)
  <2>1. /\ send_queue # <<>> /\ send_queue' = Tail(send_queue)
        /\ UNCHANGED shutdown_flag
    BY <1>2, <1>4 DEF PopMsg, PopNothing, Dequeue, Empty
  <2>2. /\ Head(send_queue) = send_queue[1] /\ send_queue[1] \in Messages
        /\ 1 \in 1..Len(send_queue) /\ Len(send_queue') = Len(send_queue) - 1
        /\ send_queue' \in Seq(Messages)
        /\ \A i \in 1..Len(send_queue') : send_queue'[i] = send_queue[i + 1]
    BY <1>2, <2>1, HeadTailProperties
  <2>3. /\ sendPc' = [sendPc EXCEPT ![t] = "resolve"]
        /\ sendMsg' = [sendMsg EXCEPT ![t] = send_queue[1]]
    BY <1>4, <2>1, <2>2, PillAssumption DEF SendPop, Empty
  <2>4. \A i \in 1..Len(send_queue') : i + 1 \in 1..Len(send_queue)
    BY <2>2
  <2>5. QueueServes'
    BY <1>1, <1>2, <2>1, <2>2 DEF QueueServes
  <2>6. AllTruthful'
    BY <1>1, <1>2, <2>2, <2>3, <2>4, NamesakeStays DEF AllTruthful, Truthful
  <2>7. AddressesKnown' /\ SelfShown'
    BY <1>1, SelfKept DEF AddressesKnown
  <2>8. ASSUME NEW c \in Conns, NEW d \in Conns, UnderWay(c, d) PROVE UnderWay(c, d)'
    <3>1. CASE Announced(c, d)
      BY <1>1, <3>1 DEF UnderWay, Announced, Shows
    <3>2. CASE Sending(c, d)
      BY <1>1, <1>2, <2>3, <3>2 DEF UnderWay, Sending, Shows
    <3>3. ASSUME NEW i \in 1..Len(send_queue), Shows(send_queue[i], c, d)
          PROVE  UnderWay(c, d)'
      <4>1. CASE i = 1
        BY <1>2, <2>3, <3>3, <4>1 DEF UnderWay, Sending, Shows
      <4>2. CASE i # 1
        <5>1. i - 1 \in 1..Len(send_queue') /\ send_queue'[i - 1] = send_queue[i]
          BY <2>2, <4>2
        <5> QED
          BY <3>3, <5>1 DEF UnderWay, Queued, Shows
      <4> QED
        BY <4>1, <4>2
    <3> QED
      BY <2>8, <3>1, <3>2, <3>3 DEF UnderWay, Queued
  <2>9. OthersShown'
    BY <1>1, <2>8, OthersKept
  <2> QED
    BY <2>5, <2>6, <2>7, <2>9 DEF Carried
<1> QED
  BY <1>3, <1>4 DEF SendPop

\* The recipients are chosen: who is to see the frame is among them.
LEMMA ResolveStep ==
  ASSUME Live, [Next]_vars, UNCHANGED partner, NEW t \in SendThreads, SendResolve(t)
  PROVE  Carried'
<1> USE LiveFacts
<1> DEFINE rest == Recipients(sendMsg[t])
<1>1. /\ UNCHANGED <<roomPc, msg, newMsg, acceptPc, newFd, answer>>
      /\ UNCHANGED <<activeFds, fdToIp, send_queue, shutdown_flag>>
      /\ sendPc[t] = "resolve" /\ Remaining(t, rest)
  BY DEF SendResolve, queueVars, poolVars, roomVars, acceptVars, lobbyVars
<1>2. /\ sendPc \in [SendThreads -> SendPcs] /\ sendMsg \in [SendThreads -> Messages]
      /\ targets \in [SendThreads -> SUBSET Conns]
  BY DEF Live, TypeInv, TypeOK, SendType
<1>3. QueueServes'
  BY <1>1 DEF QueueServes
<1>4. \A u \in SendThreads : sendMsg'[u] \in {sendMsg[u], NoMsg}
  BY <1>1, <1>2 DEF Remaining
<1>5. AllTruthful'
  BY <1>1, <1>4, NamesakeStays, NoMsgShows DEF AllTruthful, Truthful
<1>6. AddressesKnown' /\ SelfShown'
  BY <1>1, SelfKept DEF AddressesKnown
<1>7. ASSUME NEW c \in activeFds, NEW d \in activeFds, UnderWay(c, d)
      PROVE  UnderWay(c, d)'
  <2>1. CASE Announced(c, d) \/ Queued(c, d)
    BY <1>1, <2>1 DEF UnderWay, Announced, Queued, Shows
  <2>2. ASSUME NEW u \in SendThreads, Shows(sendMsg[u], c, d),
               sendPc[u] = "resolve" \/ (sendPc[u] = "write" /\ c \in targets[u])
        PROVE  UnderWay(c, d)'
    <3>1. CASE u = t
      <4>1. c \in rest
        BY <2>2, <3>1 DEF Recipients, Shows
      <4>2. sendPc'[t] = "write" /\ targets'[t] = rest /\ sendMsg'[t] = sendMsg[t]
        BY <1>1, <1>2, <4>1 DEF Remaining
      <4> QED
        BY <2>2, <3>1, <4>1, <4>2 DEF UnderWay, Sending, Shows
    <3>2. CASE u # t
      <4>1. /\ sendPc'[u] = sendPc[u] /\ targets'[u] = targets[u]
            /\ sendMsg'[u] = sendMsg[u]
        BY <1>1, <1>2, <3>2 DEF Remaining
      <4> QED
        BY <2>2, <4>1 DEF UnderWay, Sending, Shows
    <3> QED
      BY <3>1, <3>2
  <2>3. CASE Sending(c, d)
    <3>1. PICK u \in SendThreads :
             /\ Shows(sendMsg[u], c, d)
             /\ sendPc[u] = "resolve" \/ (sendPc[u] = "write" /\ c \in targets[u])
      BY <2>3 DEF Sending
    <3> QED
      BY <2>2, <3>1
  <2> QED
    BY <1>7, <2>1, <2>3 DEF UnderWay
<1>8. OthersShown'
  BY <1>1, <1>7, OthersKept
<1> QED
  BY <1>3, <1>5, <1>6, <1>8 DEF Carried

\* A frame is written to a client, which takes it in.
LEMMA DeliverStep ==
  ASSUME Live, [Next]_vars, NEW t \in SendThreads, NEW e \in Conns, Deliver(t, e)
  PROVE  Carried'
<1> USE LiveFacts
<1> DEFINE rest == targets[t] \ {e}
           m == sendMsg[t]
<1>1. /\ UNCHANGED <<roomPc, msg, newMsg, acceptPc, newFd>>
      /\ UNCHANGED <<activeFds, fdToIp, send_queue, shutdown_flag>>
      /\ sendPc[t] = "write" /\ Remaining(t, rest)
      /\ answer' = IF m.type = "CREATE_MEETING_RESPONSE" /\ e \in open
                     THEN [answer EXCEPT ![e] = "room"] ELSE answer
      /\ partner' = IF e \in open
                      THEN [partner EXCEPT ![e] = Shown(@, m, IpOf[e])] ELSE partner
  BY DEF Deliver, SendWrite, queueVars, poolVars, roomVars, acceptVars
<1>2. /\ sendPc \in [SendThreads -> SendPcs] /\ sendMsg \in [SendThreads -> Messages]
      /\ targets \in [SendThreads -> SUBSET Conns]
      /\ answer \in [Conns -> {"none", "room", "full", "unknown"}]
      /\ partner \in [Conns -> SUBSET Ips]
  BY DEF Live, RosterType, TypeInv, TypeOK, SendType, LobbyType
<1>3. QueueServes'
  BY <1>1 DEF QueueServes
<1>4. \A u \in SendThreads : sendMsg'[u] \in {sendMsg[u], NoMsg}
  BY <1>1, <1>2 DEF Remaining
<1>5. AllTruthful'
  BY <1>1, <1>4, NamesakeStays, NoMsgShows DEF AllTruthful, Truthful
<1>6. ASSUME NEW c \in Conns, NEW d \in Conns, ~NamesakeIsOut(d)',
             IpOf[d] \in partner[c]
      PROVE  IpOf[d] \in partner'[c]
  <2>1. m.type = "PARTNER_EXIT" => IpOf[d] \notin m.ips
    BY <1>6, NamesakeStays DEF AllTruthful, Truthful
  <2>2. c = e => IpOf[d] \in Shown(partner[c], m, IpOf[e])
    BY <1>6, <2>1 DEF Shown
  <2> QED
    BY <1>1, <1>2, <1>6, <2>2
<1>7. SelfShown'
  <2> SUFFICES ASSUME NEW c \in Conns, answer'[c] = "room", ~NamesakeIsOut(c)'
               PROVE  IpOf[c] \in partner'[c]
    BY DEF SelfShown
  <2>1. CASE answer[c] = "room"
    BY <1>6, <2>1, NamesakeStays DEF SelfShown
  <2>2. CASE answer[c] # "room"
    <3>1. c = e /\ e \in open /\ m.type = "CREATE_MEETING_RESPONSE"
      BY <1>1, <1>2, <2>2
    <3> QED
      BY <1>1, <1>2, <3>1 DEF Shown
  <2> QED
    BY <2>1, <2>2
<1>8. ASSUME NEW c \in activeFds, NEW d \in activeFds, UnderWay(c, d)
      PROVE  IpOf[d] \in partner'[c] \/ UnderWay(c, d)'
  <2>1. CASE Announced(c, d) \/ Queued(c, d)
    BY <1>1, <2>1 DEF UnderWay, Announced, Queued, Shows
  <2>2. ASSUME NEW u \in SendThreads, Shows(sendMsg[u], c, d),
               sendPc[u] = "resolve" \/ (sendPc[u] = "write" /\ c \in targets[u])
        PROVE  IpOf[d] \in partner'[c] \/ UnderWay(c, d)'
    <3>1. CASE u = t /\ c = e
      BY <1>1, <1>2, <2>2, <3>1 DEF Shows, Shown
    <3>2. CASE u = t /\ c # e
      <4>1. c \in rest
        BY <1>1, <2>2, <3>2
      <4>2. sendPc'[t] = "write" /\ targets'[t] = rest /\ sendMsg'[t] = sendMsg[t]
        BY <1>1, <1>2, <4>1 DEF Remaining
      <4> QED
        BY <2>2, <3>2, <4>1, <4>2 DEF UnderWay, Sending, Shows
    <3>3. CASE u # t
      <4>1. /\ sendPc'[u] = sendPc[u] /\ targets'[u] = targets[u]
            /\ sendMsg'[u] = sendMsg[u]
        BY <1>1, <1>2, <3>3 DEF Remaining
      <4> QED
        BY <2>2, <4>1 DEF UnderWay, Sending, Shows
    <3> QED
      BY <3>1, <3>2, <3>3
  <2>3. CASE Sending(c, d)
    <3>1. PICK u \in SendThreads :
             /\ Shows(sendMsg[u], c, d)
             /\ sendPc[u] = "resolve" \/ (sendPc[u] = "write" /\ c \in targets[u])
      BY <2>3 DEF Sending
    <3> QED
      BY <2>2, <3>1
  <2> QED
    BY <1>8, <2>1, <2>3 DEF UnderWay
<1>9. OthersShown'
  BY <1>1, <1>6, <1>8, OthersKept
<1>10. AddressesKnown'
  BY <1>1 DEF AddressesKnown
<1> QED
  BY <1>3, <1>5, <1>7, <1>9, <1>10 DEF Carried

-----------------------------------------------------------------------------
(* Theorems.                                                                *)

\* Every step keeps Meets.
LEMMA MeetsStep ==
  ASSUME TypeInv, Core, BeforeStart, RosterType, Meets, [RosterNext]_rosterVars
  PROVE  Meets'
<1> SUFFICES ASSUME ~shutdown' PROVE Carried' /\ CreatorFirst'
  BY DEF Meets, Carried
<1>1. [Next]_vars
  BY RosterSteps
<1>2. Live
  <2>1. UNCHANGED shutdown \/ RoomClear
    BY <1>1, MembersMove DEF AcceptCreate, AcceptJoin, RoomForget, roomVars
  <2>2. ~shutdown
    BY <2>1 DEF RoomClear
  <2> QED
    BY <2>2 DEF Live
<1>3. CreatorFirst'
  BY <1>1, <1>2, CreatorFirstStep
<1>4. ASSUME NEW t \in SendThreads, NEW c \in Conns, Deliver(t, c) PROVE Carried'
  BY <1>1, <1>2, <1>4, DeliverStep
<1>5. ASSUME NEW c \in Conns, Admit(c) PROVE Carried'
  BY <1>1, <1>2, <1>5, AdmitStep
<1>6. ASSUME UNCHANGED partner,
             \/ Create
             \/ \E c \in Conns : JoinLookup(c) \/ JoinCheck(c) \/ JoinHand(c) \/ LobbyClose(c)
             \/ \E c \in Conns : Client(c)
             \/ UNCHANGED vars
      PROVE  Carried'
  BY <1>1, <1>2, <1>6, LobbyQuiet
<1>7. ASSUME UNCHANGED partner, Room PROVE Carried'
  <2>1. ~RoomClear /\ ~RoomPushX /\ ~RoomJoinAccept /\ ~RoomErase
    BY <1>2, LiveFacts DEF RoomClear, RoomPushX, RoomJoinAccept, RoomErase, QueueServes
  <2> QED
    BY <1>1, <1>2, <1>7, <2>1, RoomQuiet, RoomPushStep, ForgetStep DEF Room
<1>8. ASSUME UNCHANGED partner, Accept PROVE Carried'
  BY <1>1, <1>2, <1>8, AcceptQuiet, AcceptCreateStep, AcceptJoinStep, AcceptPushStep,
     AcceptIpsStep DEF Accept
<1>9. ASSUME UNCHANGED partner, NEW t \in SendThreads, SendPop(t) \/ SendResolve(t)
      PROVE  Carried'
  BY <1>1, <1>2, <1>9, PopStep, ResolveStep
<1>10. Carried'
  BY <1>4, <1>5, <1>6, <1>7, <1>8, <1>9 DEF RosterNext, rosterVars
<1> QED
  BY <1>3, <1>10

\* At first there is nothing to carry.
LEMMA MeetsInit == RosterInit => Meets
<1> SUFFICES ASSUME RosterInit PROVE Meets
  OBVIOUS
<1>1. Init /\ Creator \in Conns
  BY RoomAssumption DEF RosterInit
<1>2. AllTruthful /\ QueueServes /\ AddressesKnown
  BY <1>1, NoMsgShows DEF Init, QueueInit, AllTruthful, QueueServes, AddressesKnown, Truthful
<1>3. SelfShown /\ OthersShown
  BY <1>1 DEF Init, SelfShown, OthersShown
<1>4. CreatorFirst
  BY <1>1 DEF Init, CreatorFirst, InQueue, InHands
<1> QED
  BY <1>2, <1>3, <1>4 DEF Meets

\* As long as a room has its owner, every frame that is to show one member to
\* another is on its way until it has been handled (room.cpp 251-327, 384-433;
\* widget.cpp 1014-1071).
THEOREM OnTheWay == RosterSpec => []Meets
<1>1. TypeInv /\ Core /\ BeforeStart /\ RosterType /\ Meets /\ [RosterNext]_rosterVars => Meets'
  BY MeetsStep
<1> QED
  BY <1>1, MeetsInit, RosterIsRoom, RosterTypes, PTL DEF RosterSpec

\* In a settled room every member shows every member that it was introduced
\* to, whoever came and went and in whatever order the send threads wrote,
\* unless one that left had the same address (room.cpp 284-319, 385-416;
\* widget.cpp 1014-1071).
THEOREM AllShown == RosterSpec => []NobodyMissing
<1>1. TypeInv /\ Core /\ Meets => NobodyMissing
  <2> SUFFICES ASSUME TypeInv, Core, Meets, Settled,
                      NEW c \in Present, NEW d \in Present,
                      c = d \/ Introduced(c, d), ~NamesakeIsOut(d)
               PROVE  IpOf[d] \in partner[c]
    BY DEF NobodyMissing
  <2>1. c \in activeFds /\ d \in activeFds /\ answer[c] = "room"
    BY DEF Present
  <2>2. ~shutdown /\ c \in Conns
    BY <2>1 DEF Core, ClosedStaysEmpty, TypeInv, TypeOK, PoolType
  <2>3. ~UnderWay(c, d)
    BY DEF Settled, UnderWay, Announced, Queued, Sending, Empty
  <2> QED
    BY <2>1, <2>2, <2>3 DEF Meets, SelfShown, OthersShown
<1> QED
  BY <1>1, OnTheWay, RosterIsRoom, PTL
=============================================================================
