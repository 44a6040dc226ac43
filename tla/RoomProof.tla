----------------------------- MODULE RoomProof -----------------------------
(***************************************************************************)
(* The safety properties of Room for any set of connections, any limit, any *)
(* size of the send queue and any number of send threads.  None of them is  *)
(* inductive alone: what the room thread may close depends on what the      *)
(* acceptors and the accept thread still hold, and that depends on the      *)
(* creator having been registered before the room can close.  Core is their *)
(* conjunction with what ties them together.                                *)
(***************************************************************************)
EXTENDS RoomTypes

-----------------------------------------------------------------------------
(* Lemmas.                                                                  *)

\* Each conjunct of Core depends on these variables only.
LEMMA CoreKept ==
  /\ Bookkeeping /\ UNCHANGED <<fdset, num, fdToIp, activeFds, shutdown, open>>
       => Bookkeeping'
  /\ ClosedStaysEmpty /\ UNCHANGED <<poolVars, shutdown, open>> => ClosedStaysEmpty'
  /\ NotInTwoPlaces /\ UNCHANGED <<clientQueue, acceptPc, newFd, lobby, activeFds, open>>
       => NotInTwoPlaces'
  /\ HeldArePast /\ UNCHANGED <<todo, roomPc, fd, clientQueue, acceptPc, newFd, lobby>>
       => HeldArePast'
  /\ CreatorComes
       /\ UNCHANGED <<clientQueue, acceptPc, newFd, lobby, owner, shutdown, activeFds>>
       => CreatorComes'
  /\ CopiesAreMembers /\ UNCHANGED <<roomPc, rset, todo, fd, shutdown, activeFds, open>>
       => CopiesAreMembers'
<1>1. Bookkeeping /\ UNCHANGED <<fdset, num, fdToIp, activeFds, shutdown, open>>
        => Bookkeeping'
  BY DEF Bookkeeping
<1>2. ClosedStaysEmpty /\ UNCHANGED <<poolVars, shutdown, open>> => ClosedStaysEmpty'
  BY DEF ClosedStaysEmpty, poolVars
<1>3. NotInTwoPlaces /\ UNCHANGED <<clientQueue, acceptPc, newFd, lobby, activeFds, open>>
        => NotInTwoPlaces'
  BY DEF NotInTwoPlaces, QueuedOnce, InQueue, InHands, InLobby
<1>4. HeldArePast /\ UNCHANGED <<todo, roomPc, fd, clientQueue, acceptPc, newFd, lobby>>
        => HeldArePast'
  BY DEF HeldArePast, Past, InQueue, InHands, InLobby
<1>5. CreatorComes
        /\ UNCHANGED <<clientQueue, acceptPc, newFd, lobby, owner, shutdown, activeFds>>
        => CreatorComes'
  BY DEF CreatorComes, OnlyCreatorCreates, Past, InQueue, InHands, InLobby
<1>6. CopiesAreMembers /\ UNCHANGED <<roomPc, rset, todo, fd, shutdown, activeFds, open>>
        => CopiesAreMembers'
  BY DEF CopiesAreMembers
<1> QED
  BY <1>1, <1>2, <1>3, <1>4, <1>5, <1>6, Zenon

\* A connection is put at the end of clientQueue ...
LEMMA Appended ==
  ASSUME clientQueue \in Seq(ClientConns), NEW cc \in ClientConns,
         clientQueue' = Append(clientQueue, cc)
  PROVE  /\ \A c : InQueue(c)' <=> InQueue(c) \/ c = cc.sockfd
         /\ QueuedOnce /\ (cc.sockfd \in Conns => ~InQueue(cc.sockfd)) => QueuedOnce'
         /\ OnlyCreatorCreates /\ (cc.cmd = "C" <=> cc.sockfd = Creator)
              => OnlyCreatorCreates'
<1>1. /\ Len(clientQueue) \in Nat
      /\ Len(clientQueue') = Len(clientQueue) + 1
      /\ \A i \in 1..Len(clientQueue) : clientQueue'[i] = clientQueue[i]
      /\ clientQueue'[Len(clientQueue) + 1] = cc
  BY AppendProperties, LenProperties
<1>2. \A i : i \in 1..Len(clientQueue') <=>
               i \in 1..Len(clientQueue) \/ i = Len(clientQueue) + 1
  BY <1>1
<1>3. \A c : InQueue(c)' <=> InQueue(c) \/ c = cc.sockfd
  BY <1>1, <1>2 DEF InQueue
<1>4. QueuedOnce /\ (cc.sockfd \in Conns => ~InQueue(cc.sockfd)) => QueuedOnce'
  BY <1>1, <1>2 DEF InQueue, QueuedOnce
<1>5. OnlyCreatorCreates /\ (cc.cmd = "C" <=> cc.sockfd = Creator) => OnlyCreatorCreates'
  BY <1>1, <1>2 DEF OnlyCreatorCreates
<1> QED
  BY <1>3, <1>4, <1>5

\* ... and taken from its head.
LEMMA Taken ==
  ASSUME clientQueue \in Seq(ClientConns), clientQueue # <<>>,
         clientQueue' = Tail(clientQueue)
  PROVE  /\ \A c : InQueue(c) <=> InQueue(c)' \/ c = Head(clientQueue).sockfd
         /\ QueuedOnce =>
              /\ QueuedOnce'
              /\ \A c \in Conns : c = Head(clientQueue).sockfd => ~InQueue(c)'
         /\ OnlyCreatorCreates =>
              /\ OnlyCreatorCreates'
              /\ Head(clientQueue).cmd = "C" <=> Head(clientQueue).sockfd = Creator
<1>1. /\ Len(clientQueue) \in Nat \ {0}
      /\ Len(clientQueue') = Len(clientQueue) - 1
      /\ \A i \in 1..Len(clientQueue') : clientQueue'[i] = clientQueue[i + 1]
      /\ clientQueue[1] = Head(clientQueue)
  BY HeadTailProperties, LenProperties, EmptySeq
<1>2. \A i \in 1..Len(clientQueue') : i + 1 \in 1..Len(clientQueue)
  BY <1>1
<1>3. \A i \in 1..Len(clientQueue) : i = 1 \/ (i - 1 \in 1..Len(clientQueue') /\ i = (i - 1) + 1)
  BY <1>1
<1>4. 1 \in 1..Len(clientQueue)
  BY <1>1
<1>5. \A c : InQueue(c) <=> InQueue(c)' \/ c = Head(clientQueue).sockfd
  BY <1>1, <1>2, <1>3, <1>4 DEF InQueue
<1>6. QueuedOnce => QueuedOnce'
  BY <1>1, <1>2 DEF QueuedOnce
<1>7. ASSUME QueuedOnce, NEW c \in Conns, c = Head(clientQueue).sockfd, InQueue(c)'
      PROVE  FALSE
  <2>1. PICK i \in 1..Len(clientQueue') : clientQueue'[i].sockfd = c
    BY <1>7 DEF InQueue
  <2>2. clientQueue[i + 1].sockfd = clientQueue[1].sockfd /\ i + 1 # 1
    BY <1>1, <1>7, <2>1
  <2> QED
    BY <1>1, <1>2, <1>4, <1>7, <2>2 DEF QueuedOnce
<1>8. OnlyCreatorCreates => OnlyCreatorCreates'
  BY <1>1, <1>2 DEF OnlyCreatorCreates
<1>9. OnlyCreatorCreates =>
        (Head(clientQueue).cmd = "C" <=> Head(clientQueue).sockfd = Creator)
  BY <1>1, <1>4 DEF OnlyCreatorCreates
<1> QED
  BY <1>5, <1>6, <1>7, <1>8, <1>9

\* Members are past, and so is whoever the accept thread has registered.
LEMMA MembersArePast == NotInTwoPlaces => \A c \in Conns : c \in activeFds => Past(c)
BY DEF NotInTwoPlaces, Past

\* A room that nobody has made yet is in order.
LEMMA CoreInit == Init => Core
<1> SUFFICES ASSUME Init PROVE Core
  OBVIOUS
<1>1. /\ fdset = {} /\ owner = NoConn /\ num = 0 /\ fdToIp = [s \in {} |-> NoIp]
      /\ activeFds = {} /\ clientQueue = <<>> /\ shutdown = FALSE
      /\ roomPc = "off" /\ todo = {} /\ acceptPc = "off" /\ open = Conns
      /\ lobby = [c \in Conns |-> IF c = Creator THEN "publish" ELSE "lobby"]
  BY DEF Init
<1>2. Len(clientQueue) = 0
  BY <1>1, EmptySeq
<1>3. Bookkeeping
  BY <1>1, FS_EmptySet, RoomAssumption DEF Bookkeeping
<1>4. ClosedStaysEmpty
  BY <1>1 DEF ClosedStaysEmpty
<1>5. NotInTwoPlaces
  BY <1>1, <1>2 DEF NotInTwoPlaces, QueuedOnce, InQueue, InHands
<1>6. HeldArePast
  BY <1>1 DEF HeldArePast
<1>7. CreatorComes
  BY <1>1, <1>2, RoomAssumption DEF CreatorComes, OnlyCreatorCreates
<1>8. CopiesAreMembers
  BY <1>1 DEF CopiesAreMembers
<1> QED
  BY <1>3, <1>4, <1>5, <1>6, <1>7, <1>8 DEF Core

-----------------------------------------------------------------------------
(* The acceptor threads.                                                    *)

\* Steps of an acceptor that leave the connection with it.
LEMMA StillInLobby ==
  ASSUME TypeOK, Core, NEW c \in Conns,
         UNCHANGED <<poolVars, roomVars, acceptVars, clientQueue, open>>,
         NEW pc, lobby' = [lobby EXCEPT ![c] = pc],
         c = Creator => pc \in {"publish", "hand", "start", "left"},
         lobby[c] \in {"publish", "hand", "lobby", "found", "ok"} <=>
           pc \in {"publish", "hand", "lobby", "found", "ok"}
  PROVE  Core'
<1> USE DEF Core
<1>1. \A d \in Conns : InLobby(d)' <=> InLobby(d)
  BY DEF InLobby, TypeOK, LobbyType
<1>2. \A d \in Conns : (InQueue(d)' <=> InQueue(d)) /\ (InHands(d)' <=> InHands(d))
  BY DEF InQueue, InHands, acceptVars
<1>3. NotInTwoPlaces'
  BY <1>1, <1>2 DEF NotInTwoPlaces, QueuedOnce, poolVars
<1>4. HeldArePast'
  BY <1>1, <1>2 DEF HeldArePast, Past, roomVars, TypeOK, RoomType
<1>5. CreatorComes'
  <2>1. lobby'[Creator] \in {"publish", "hand", "start", "left"}
    BY RoomAssumption DEF CreatorComes, TypeOK, LobbyType
  <2>2. Past(Creator)' <=> Past(Creator)
    BY <1>1, <1>2, RoomAssumption DEF Past
  <2>3. UNCHANGED <<acceptPc, newFd, owner, shutdown, activeFds>>
    BY DEF acceptVars, poolVars, roomVars
  <2> QED
    BY <2>1, <2>2, <2>3 DEF CreatorComes, OnlyCreatorCreates
<1>6. Bookkeeping' /\ ClosedStaysEmpty' /\ CopiesAreMembers'
  BY CoreKept DEF poolVars, roomVars
<1> QED
  BY <1>3, <1>4, <1>5, <1>6

\* An acceptor puts its connection into clientQueue.
LEMMA Handed ==
  ASSUME TypeOK, Core, NEW c \in Conns, InLobby(c),
         NEW cc \in ClientConns, cc.sockfd = c, cc.cmd = "C" <=> c = Creator,
         UNCHANGED <<poolVars, roomVars, acceptVars, open>>,
         clientQueue' = Append(clientQueue, cc),
         NEW pc \in {"start", "respond"}, lobby' = [lobby EXCEPT ![c] = pc],
         c = Creator => pc = "start"
  PROVE  Core'
<1> USE DEF Core
<1>1. \A d \in Conns : InLobby(d)' <=> InLobby(d) /\ d # c
  BY DEF InLobby, TypeOK, LobbyType
<1>2. \A d \in Conns : InHands(d)' <=> InHands(d)
  BY DEF InHands, acceptVars
<1>3. ~InQueue(c) /\ ~InHands(c) /\ c \notin activeFds /\ c \in open
  BY DEF NotInTwoPlaces
<1>4. /\ \A d : InQueue(d)' <=> InQueue(d) \/ d = c
      /\ QueuedOnce'
      /\ OnlyCreatorCreates'
  BY <1>3, Appended DEF TypeOK, NotInTwoPlaces, CreatorComes
<1>5. \A d \in Conns : Past(d)' <=> Past(d)
  BY <1>1, <1>2, <1>3, <1>4 DEF Past
<1>6. NotInTwoPlaces'
  BY <1>1, <1>2, <1>3, <1>4 DEF NotInTwoPlaces, poolVars
<1>7. HeldArePast'
  BY <1>5 DEF HeldArePast, roomVars, TypeOK, RoomType
<1>8. CreatorComes'
  <2>1. lobby'[Creator] \in {"publish", "hand", "start", "left"}
    BY RoomAssumption DEF CreatorComes, TypeOK, LobbyType
  <2>2. UNCHANGED <<acceptPc, newFd, owner, shutdown, activeFds>>
    BY DEF acceptVars, poolVars, roomVars
  <2> QED
    BY <1>4, <1>5, <2>1, <2>2, RoomAssumption DEF CreatorComes
<1>9. Bookkeeping' /\ ClosedStaysEmpty' /\ CopiesAreMembers'
  BY CoreKept DEF poolVars, roomVars
<1> QED
  BY <1>6, <1>7, <1>8, <1>9

\* An acceptor moves a connection from the lobby to the queue, or drops it.
LEMMA LobbyStep ==
  ASSUME TypeOK, Core, Create \/ \E c \in Conns : Join(c) \/ LobbyClose(c)
  PROVE  Core'
<1> USE DEF Core
<1>0. lobby \in [Conns -> LobbyPcs] /\ Creator \in Conns
  BY RoomAssumption DEF TypeOK, LobbyType
<1>1. CASE CreatePublish
  BY <1>0, <1>1, StillInLobby DEF CreatePublish
<1>2. CASE CreateHand
  <2>1. [cmd |-> "C", sockfd |-> Creator] \in ClientConns
    BY RoomAssumption DEF ClientConns
  <2>2. InLobby(Creator)
    BY <1>2 DEF CreateHand, InLobby
  <2> QED
    BY <1>0, <1>2, <2>1, <2>2, Handed DEF CreateHand
<1>3. CASE CreateStart
  <2>1. \A d \in Conns : (InLobby(d)' <=> InLobby(d)) /\ (InQueue(d)' <=> InQueue(d))
    BY <1>0, <1>3 DEF CreateStart, InLobby, InQueue
  <2>2. acceptPc' = "wait" /\ \A d : ~InHands(d)'
    BY <1>3 DEF CreateStart, InHands
  <2>3. \A d \in Conns : Past(d) => Past(d)'
    BY <2>1, <2>2 DEF Past
  <2>4. NotInTwoPlaces'
    BY <1>3, <2>1, <2>2 DEF CreateStart, NotInTwoPlaces, QueuedOnce, poolVars
  <2>5. HeldArePast'
    BY <1>3, <2>3 DEF CreateStart, HeldArePast, TypeOK, RoomType
  <2>6. CreatorComes'
    BY <1>0, <1>3, <2>2, <2>3 DEF CreateStart, CreatorComes, OnlyCreatorCreates, poolVars
  <2>7. CopiesAreMembers'
    BY <1>3 DEF CreateStart, CopiesAreMembers
  <2>8. Bookkeeping' /\ ClosedStaysEmpty'
    BY <1>3, CoreKept DEF CreateStart, poolVars
  <2> QED
    BY <2>4, <2>5, <2>6, <2>7, <2>8
<1>4. ASSUME NEW c \in Conns, JoinLookup(c) PROVE Core'
  <2>1. CASE UNCHANGED lobby
    BY <1>4, <2>1, CoreKept DEF JoinLookup, poolVars, roomVars, acceptVars
  <2>2. CASE lobby' = [lobby EXCEPT ![c] = "found"]
    BY <1>0, <1>4, <2>2, StillInLobby DEF JoinLookup, CreatorComes
  <2> QED
    BY <1>4, <2>1, <2>2 DEF JoinLookup
<1>5. ASSUME NEW c \in Conns, JoinCheck(c) PROVE Core'
  <2>1. PICK pc \in {"lobby", "ok"} : lobby' = [lobby EXCEPT ![c] = pc]
    BY <1>5 DEF JoinCheck
  <2> QED
    BY <1>0, <1>5, <2>1, StillInLobby DEF JoinCheck, CreatorComes
<1>6. ASSUME NEW c \in Conns, JoinHand(c) PROVE Core'
  <2>1. [cmd |-> "J", sockfd |-> c] \in ClientConns
    BY RoomAssumption DEF ClientConns
  <2>2. InLobby(c) /\ c # Creator
    BY <1>6 DEF JoinHand, InLobby, CreatorComes
  <2> QED
    BY <1>6, <2>1, <2>2, Handed DEF JoinHand
<1>7. ASSUME NEW c \in Conns, JoinRespond(c) PROVE Core'
  BY <1>0, <1>7, StillInLobby DEF JoinRespond, CreatorComes
<1>8. ASSUME NEW c \in Conns, LobbyClose(c) PROVE Core'
  <2> USE <1>8 DEF LobbyClose
  <2>1. c # Creator /\ InLobby(c)
    BY DEF CreatorComes, InLobby
  <2>2. ~InQueue(c) /\ ~InHands(c) /\ c \notin activeFds
    BY <2>1 DEF NotInTwoPlaces
  <2>3. \A d \in Conns : InLobby(d)' <=> InLobby(d) /\ d # c
    BY <1>0 DEF InLobby
  <2>4. \A d \in Conns : (InQueue(d)' <=> InQueue(d)) /\ (InHands(d)' <=> InHands(d))
    BY DEF InQueue, InHands, acceptVars
  <2>5. \A d \in Conns : Past(d) => Past(d)'
    BY <2>3, <2>4 DEF Past
  <2>6. NotInTwoPlaces'
    BY <2>2, <2>3, <2>4 DEF NotInTwoPlaces, QueuedOnce, poolVars
  <2>7. HeldArePast'
    BY <2>5 DEF HeldArePast, TypeOK, RoomType, roomVars
  <2>8. CreatorComes'
    <3>1. lobby'[Creator] = lobby[Creator]
      BY <1>0, <2>1
    <3> QED
      BY <1>0, <2>5, <3>1 DEF CreatorComes, OnlyCreatorCreates, acceptVars, poolVars, roomVars
  <2>9. roomPc = "close" => fd # c
    BY <2>1 DEF HeldArePast, Past
  <2>10. CopiesAreMembers'
    BY <2>9 DEF CopiesAreMembers, roomVars, poolVars
  <2>11. Bookkeeping' /\ ClosedStaysEmpty'
    BY <2>2 DEF Bookkeeping, ClosedStaysEmpty, poolVars, roomVars
  <2> QED
    BY <2>6, <2>7, <2>8, <2>10, <2>11
<1> QED
  BY <1>1, <1>2, <1>3, <1>4, <1>5, <1>6, <1>7, <1>8 DEF Create, Join

-----------------------------------------------------------------------------
(* The accept thread.                                                       *)

\* Registering a connection keeps the books.
LEMMA Registered ==
  ASSUME TypeOK, Bookkeeping, ~shutdown, NEW c \in Conns, c \in open,
         c \notin activeFds, Register(c), UNCHANGED <<shutdown, open>>
  PROVE  Bookkeeping'
<1> USE DEF TypeOK, PoolType
<1>1. IsFiniteSet(activeFds) /\ IsFiniteSet(fdset)
  BY RoomAssumption, FS_Subset
<1>2. Cardinality(activeFds \cup {c}) = Cardinality(activeFds) + 1
  BY <1>1, FS_AddElement
<1>3. DOMAIN fdToIp' = activeFds \cup {c} /\ activeFds' = activeFds \cup {c}
  BY DEF Register, Bookkeeping
<1>4. fdset' \subseteq activeFds \cup {c}
  BY DEF Register, FdSet, Bookkeeping
<1>5. Cardinality(fdset') <= ROOMLIMIT
  <2>1. /\ Cardinality(fdset) \in Nat
        /\ Cardinality(fdset \cup {c}) = Cardinality(fdset)
             \/ Cardinality(fdset \cup {c}) = Cardinality(fdset) + 1
    BY <1>1, FS_AddElement, FS_CardinalityType
  <2> QED
    BY <2>1, RoomAssumption DEF Register, FdSet, Bookkeeping
<1>6. num' = num + 1 /\ num = Cardinality(activeFds)
  BY DEF Register, Bookkeeping
<1>7. activeFds' \subseteq open'
  BY <1>3 DEF Bookkeeping
<1> QED
  BY <1>2, <1>3, <1>4, <1>5, <1>6, <1>7 DEF Bookkeeping

\* A connection leaves the accept thread's hands, for the members or for good.
LEMMA OutOfHands ==
  ASSUME TypeOK, Core, NEW c \in Conns, InHands(c),
         UNCHANGED <<lobby, clientQueue, roomVars>>,
         acceptPc' \notin {"create", "join"}
  PROVE  /\ \A d : ~InHands(d)'
         /\ \A d : (InLobby(d)' <=> InLobby(d)) /\ (InQueue(d)' <=> InQueue(d))
         /\ ~Past(c)
         /\ ~InLobby(c) /\ ~InQueue(c) /\ c \notin activeFds /\ c \in open
         /\ HeldArePast'
<1> USE DEF Core
<1>1. \A d : ~InHands(d)'
  BY DEF InHands
<1>2. \A d : (InLobby(d)' <=> InLobby(d)) /\ (InQueue(d)' <=> InQueue(d))
  BY DEF InLobby, InQueue
<1>3. ~Past(c) /\ ~InLobby(c) /\ ~InQueue(c) /\ c \notin activeFds /\ c \in open
  BY DEF NotInTwoPlaces, Past
<1>4. HeldArePast'
  BY <1>1, <1>2 DEF HeldArePast, Past, TypeOK, RoomType, roomVars
<1> QED
  BY <1>1, <1>2, <1>3, <1>4

\* The accept thread moves a connection from the queue to the members.
LEMMA AcceptStep ==
  ASSUME TypeInv, Core, Accept
  PROVE  Core'
<1> USE DEF Core
<1>0. TypeOK
  BY DEF TypeInv
<1>1. CASE AcceptTake
  <2> DEFINE cc == Head(clientQueue)
  <2>0. /\ clientQueue \in Seq(ClientConns) /\ clientQueue # <<>>
        /\ clientQueue' = Tail(clientQueue)
        /\ acceptPc = "wait" /\ newFd' = cc.sockfd
        /\ acceptPc' = CASE cc.cmd = "X" -> "done"
                         [] cc.cmd = "C" -> "create"
                         [] cc.cmd = "J" -> "join"
        /\ UNCHANGED <<lobby, poolVars, roomVars, open>>
    BY <1>0, <1>1 DEF AcceptTake, TypeOK, lobbyVars
  <2>1. cc \in ClientConns
    BY <2>0, HeadTailProperties
  <2>2. /\ cc.cmd \in {"C", "J", "X"}
        /\ cc.cmd # "X" => cc.sockfd \in Conns
    BY <2>1 DEF ClientConns
  <2>3. /\ \A d : InQueue(d) <=> InQueue(d)' \/ d = cc.sockfd
        /\ QueuedOnce' /\ OnlyCreatorCreates'
        /\ \A d \in Conns : d = cc.sockfd => ~InQueue(d)'
        /\ cc.cmd = "C" <=> cc.sockfd = Creator
    BY <2>0, Taken DEF NotInTwoPlaces, CreatorComes
  <2> HIDE DEF cc
  <2>4. \A d : InHands(d)' => d = cc.sockfd
    BY <2>0 DEF InHands
  <2>5. \A d : ~InHands(d) /\ (InLobby(d)' <=> InLobby(d))
    BY <2>0 DEF InHands, InLobby
  <2>6. \A d \in Conns : Past(d) => Past(d)'
    BY <2>3, <2>4, <2>5 DEF Past
  <2>7. NotInTwoPlaces'
    BY <2>0, <2>3, <2>4, <2>5 DEF NotInTwoPlaces, poolVars
  <2>8. HeldArePast'
    BY <1>0, <2>0, <2>6 DEF HeldArePast, TypeOK, RoomType, roomVars
  <2>9. CreatorComes'
    <3>1. acceptPc' = "create" => newFd' = Creator
      BY <2>0, <2>2, <2>3
    <3>2. acceptPc' = "join" => newFd' \in Conns \ {Creator}
      BY <2>0, <2>2, <2>3
    <3> QED
      BY <2>0, <2>3, <2>6, <3>1, <3>2, RoomAssumption DEF CreatorComes, poolVars, roomVars
  <2>10. Bookkeeping' /\ ClosedStaysEmpty' /\ CopiesAreMembers'
    BY <2>0, CoreKept DEF poolVars, roomVars
  <2> QED
    BY <2>7, <2>8, <2>9, <2>10
<1>2. CASE AcceptCreate
  <2>1. /\ newFd = Creator /\ newFd \in Conns /\ InHands(newFd)
        /\ Register(newFd) /\ owner' = newFd
        /\ UNCHANGED <<lobby, clientQueue, roomVars, open>>
        /\ acceptPc' = "push"
    BY <1>2, RoomAssumption DEF AcceptCreate, CreatorComes, InHands, lobbyVars
  <2>2. /\ \A d : ~InHands(d)'
        /\ \A d : (InLobby(d)' <=> InLobby(d)) /\ (InQueue(d)' <=> InQueue(d))
        /\ ~Past(newFd)
        /\ ~InLobby(newFd) /\ ~InQueue(newFd) /\ newFd \notin activeFds /\ newFd \in open
        /\ HeldArePast'
    BY <1>0, <2>1, OutOfHands
  <2>3. ~shutdown /\ UNCHANGED shutdown
    BY <2>1, <2>2 DEF CreatorComes, roomVars
  <2>4. activeFds' = activeFds \cup {newFd}
    BY <2>1 DEF Register
  <2>5. Bookkeeping'
    BY <1>0, <2>1, <2>2, <2>3, Registered
  <2>6. ClosedStaysEmpty'
    BY <2>3 DEF ClosedStaysEmpty
  <2>7. NotInTwoPlaces'
    BY <2>1, <2>2, <2>4 DEF NotInTwoPlaces, QueuedOnce
  <2>8. CreatorComes'
    BY <2>1, <2>2, <2>4 DEF CreatorComes, OnlyCreatorCreates, Past
  <2>9. CopiesAreMembers'
    BY <2>1, <2>2, <2>4 DEF CopiesAreMembers, HeldArePast, roomVars
  <2> QED
    BY <2>2, <2>5, <2>6, <2>7, <2>8, <2>9
<1>3. CASE AcceptJoin
  <2>1. /\ newFd # Creator /\ newFd \in Conns /\ InHands(newFd)
        /\ Register(newFd) /\ status # "CLOSE"
        /\ UNCHANGED <<lobby, clientQueue, roomVars, open, owner>>
        /\ acceptPc' = "push"
    BY <1>3, RoomAssumption DEF AcceptJoin, CreatorComes, InHands, lobbyVars
  <2>2. /\ \A d : ~InHands(d)'
        /\ \A d : (InLobby(d)' <=> InLobby(d)) /\ (InQueue(d)' <=> InQueue(d))
        /\ ~Past(newFd)
        /\ ~InLobby(newFd) /\ ~InQueue(newFd) /\ newFd \notin activeFds /\ newFd \in open
        /\ HeldArePast'
    BY <1>0, <2>1, OutOfHands
  <2>3. ~shutdown /\ UNCHANGED shutdown
    BY <2>1 DEF ClosedStaysEmpty, roomVars
  <2>4. activeFds' = activeFds \cup {newFd}
    BY <2>1 DEF Register
  <2>5. Bookkeeping'
    BY <1>0, <2>1, <2>2, <2>3, Registered
  <2>6. ClosedStaysEmpty'
    BY <2>3 DEF ClosedStaysEmpty
  <2>7. NotInTwoPlaces'
    BY <2>1, <2>2, <2>4 DEF NotInTwoPlaces, QueuedOnce
  <2>8. Past(Creator) => Past(Creator)'
    BY <2>2 DEF Past
  <2>9. CreatorComes'
    BY <2>1, <2>3, <2>4, <2>8 DEF CreatorComes, OnlyCreatorCreates
  <2>10. CopiesAreMembers'
    BY <2>1, <2>2, <2>4 DEF CopiesAreMembers, HeldArePast, roomVars
  <2> QED
    BY <2>2, <2>5, <2>6, <2>7, <2>9, <2>10
<1>4. CASE AcceptRefuse
  <2>1. /\ newFd # Creator /\ newFd \in Conns /\ InHands(newFd)
        /\ open' = open \ {newFd}
        /\ UNCHANGED <<lobby, clientQueue, roomVars, poolVars>>
        /\ acceptPc' = "wait"
    BY <1>4, RoomAssumption DEF AcceptRefuse, CreatorComes, InHands, lobbyVars
  <2>2. /\ \A d : ~InHands(d)'
        /\ \A d : (InLobby(d)' <=> InLobby(d)) /\ (InQueue(d)' <=> InQueue(d))
        /\ ~Past(newFd)
        /\ ~InLobby(newFd) /\ ~InQueue(newFd) /\ newFd \notin activeFds /\ newFd \in open
        /\ HeldArePast'
    BY <1>0, <2>1, OutOfHands
  <2>3. Bookkeeping' /\ ClosedStaysEmpty'
    BY <2>1, <2>2 DEF Bookkeeping, ClosedStaysEmpty, poolVars, roomVars
  <2>4. NotInTwoPlaces'
    BY <2>1, <2>2 DEF NotInTwoPlaces, QueuedOnce, poolVars
  <2>5. Past(Creator) => Past(Creator)'
    BY <2>2 DEF Past
  <2>6. CreatorComes'
    BY <2>1, <2>5 DEF CreatorComes, OnlyCreatorCreates, poolVars, roomVars
  <2>7. CopiesAreMembers'
    BY <2>1, <2>2 DEF CopiesAreMembers, HeldArePast, roomVars, poolVars
  <2> QED
    BY <2>2, <2>3, <2>4, <2>6, <2>7
<1>5. CASE AcceptPush
  <2>1. /\ acceptPc = "push" /\ acceptPc' \in {"push", "ips", "wait"}
        /\ UNCHANGED <<lobby, clientQueue, roomVars, poolVars, open>>
    BY <1>5 DEF AcceptPush, acceptVars, lobbyVars
  <2>2. \A d : /\ ~InHands(d) /\ ~InHands(d)'
               /\ (InLobby(d)' <=> InLobby(d)) /\ (InQueue(d)' <=> InQueue(d))
               /\ (Past(d)' <=> Past(d))
    BY <2>1 DEF InHands, InLobby, InQueue, Past
  <2>3. NotInTwoPlaces' /\ HeldArePast'
    BY <1>0, <2>1, <2>2
       DEF NotInTwoPlaces, QueuedOnce, HeldArePast, TypeOK, RoomType, poolVars, roomVars
  <2>4. CreatorComes'
    BY <2>1, <2>2 DEF CreatorComes, OnlyCreatorCreates, poolVars, roomVars
  <2>5. Bookkeeping' /\ ClosedStaysEmpty' /\ CopiesAreMembers'
    BY <2>1, CoreKept DEF poolVars, roomVars
  <2> QED
    BY <2>3, <2>4, <2>5
<1>6. CASE AcceptIps
  <2>1. /\ acceptPc = "ips" /\ acceptPc' = "push"
        /\ fdToIp' = Looked(activeFds \ {newFd})
        /\ UNCHANGED <<fdset, owner, num, activeFds, status>>
        /\ UNCHANGED <<lobby, clientQueue, roomVars, open>>
    BY <1>6 DEF AcceptIps, lobbyVars
  <2>2. \A d : /\ ~InHands(d) /\ ~InHands(d)'
               /\ (InLobby(d)' <=> InLobby(d)) /\ (InQueue(d)' <=> InQueue(d))
               /\ (Past(d)' <=> Past(d))
    BY <2>1 DEF InHands, InLobby, InQueue, Past
  <2>3. NotInTwoPlaces' /\ HeldArePast'
    BY <1>0, <2>1, <2>2
       DEF NotInTwoPlaces, QueuedOnce, HeldArePast, TypeOK, RoomType, roomVars
  <2>4. CreatorComes'
    BY <2>1, <2>2 DEF CreatorComes, OnlyCreatorCreates, roomVars
  <2>5. CopiesAreMembers'
    BY <2>1, CoreKept DEF roomVars
  <2>6. Bookkeeping'
    <3>1. ~shutdown => DOMAIN fdToIp' = activeFds
      BY <2>1 DEF Looked, Bookkeeping
    <3> QED
      BY <2>1, <3>1 DEF Bookkeeping, roomVars
  <2>7. ClosedStaysEmpty'
    <3>1. shutdown => fdToIp' = [s \in {} |-> NoIp]
      BY <2>1 DEF Looked, ClosedStaysEmpty
    <3> QED
      BY <2>1, <3>1 DEF ClosedStaysEmpty, roomVars
  <2> QED
    BY <2>3, <2>4, <2>5, <2>6, <2>7
<1> QED
  BY <1>1, <1>2, <1>3, <1>4, <1>5, <1>6 DEF Accept

-----------------------------------------------------------------------------
(* The room thread.                                                         *)

\* The room thread's program counter and copies do not bear on who holds what.
LEMMA RoomPlaces ==
  ASSUME Core, UNCHANGED <<clientQueue, lobby, acceptVars>>
  PROVE  /\ \A d : Past(d)' <=> Past(d)
         /\ UNCHANGED <<activeFds, open>> => NotInTwoPlaces'
         /\ UNCHANGED <<activeFds, owner, shutdown>> => CreatorComes'
<1> USE DEF Core
<1>1. \A d : Past(d)' <=> Past(d)
  BY DEF Past, InQueue, InHands, InLobby, acceptVars
<1>2. UNCHANGED <<activeFds, open>> => NotInTwoPlaces'
  BY CoreKept DEF acceptVars
<1>3. UNCHANGED <<activeFds, owner, shutdown>> => CreatorComes'
  BY CoreKept DEF acceptVars
<1> QED
  BY <1>1, <1>2, <1>3

\* Steps in which the room thread only moves on with its copies.
LEMMA RoomMoves ==
  ASSUME Core, UNCHANGED <<clientQueue, lobby, acceptVars, poolVars, shutdown, open>>,
         HeldArePast', CopiesAreMembers'
  PROVE  Core'
<1>1. Bookkeeping' /\ ClosedStaysEmpty' /\ NotInTwoPlaces' /\ CreatorComes'
  BY CoreKept DEF Core, poolVars, acceptVars
<1> QED
  BY <1>1 DEF Core

\* The room thread copies members, and selects and walks over the copies.
LEMMA RoomLoopStep ==
  ASSUME TypeOK, Core,
         RoomTop \/ RoomSelect \/ RoomSnapshot \/ RoomPassEnd \/ RoomBody \/ RoomPush
  PROVE  Core'
<1>0. UNCHANGED <<clientQueue, lobby, acceptVars, poolVars, shutdown, open>>
  BY DEF RoomTop, RoomSelect, RoomSnapshot, RoomPassEnd, RoomBody, RoomPush, lobbyVars
<1>1. \A d : Past(d)' <=> Past(d)
  BY <1>0, RoomPlaces
<1>2. UNCHANGED <<shutdown, activeFds, open>> /\ todo \subseteq Conns
  BY <1>0 DEF poolVars, TypeOK, RoomType
<1> USE DEF Core
<1>3. CASE RoomTop
  <2>1. HeldArePast'
    BY <1>1, <1>2, <1>3 DEF RoomTop, HeldArePast
  <2>2. CopiesAreMembers'
    BY <1>2, <1>3 DEF RoomTop, CopiesAreMembers, Bookkeeping
  <2> QED
    BY <1>0, <2>1, <2>2, RoomMoves
<1>4. CASE RoomSelect
  <2>1. HeldArePast'
    BY <1>1, <1>2, <1>4 DEF RoomSelect, HeldArePast
  <2>2. CopiesAreMembers'
    BY <1>2, <1>4 DEF RoomSelect, CopiesAreMembers
  <2> QED
    BY <1>0, <2>1, <2>2, RoomMoves
<1>5. CASE RoomSnapshot
  <2>1. \A c \in Conns : c \in activeFds => Past(c)
    BY MembersArePast
  <2>2. HeldArePast'
    BY <1>1, <1>2, <1>5, <2>1 DEF RoomSnapshot, HeldArePast, TypeOK, PoolType
  <2>3. CopiesAreMembers'
    BY <1>2, <1>5 DEF RoomSnapshot, CopiesAreMembers
  <2> QED
    BY <1>0, <2>2, <2>3, RoomMoves
<1>6. CASE RoomPassEnd
  <2>1. HeldArePast'
    BY <1>1, <1>2, <1>6 DEF RoomPassEnd, HeldArePast
  <2>2. CopiesAreMembers'
    BY <1>2, <1>6 DEF RoomPassEnd, CopiesAreMembers
  <2> QED
    BY <1>0, <2>1, <2>2, RoomMoves
<1>7. CASE RoomBody
  <2>0. roomPc = "body" /\ roomPc' \in {"push", "fdclose"} /\ UNCHANGED <<rset, todo, fd>>
    BY <1>7 DEF RoomBody
  <2>1. HeldArePast'
    BY <1>1, <1>2, <2>0 DEF HeldArePast
  <2>2. CopiesAreMembers'
    BY <1>2, <2>0 DEF CopiesAreMembers
  <2> QED
    BY <1>0, <2>1, <2>2, RoomMoves
<1>8. CASE RoomPush
  <2>1. CASE UNCHANGED <<roomPc, rset, todo, fd>>
    <3>1. HeldArePast' /\ CopiesAreMembers'
      BY <1>0, <2>1, CoreKept DEF poolVars, acceptVars
    <3> QED
      BY <1>0, <3>1, RoomMoves
  <2>2. CASE roomPc = "push" /\ NextHandle
    <3>1. HeldArePast'
      BY <1>1, <1>2, <2>2 DEF NextHandle, HeldArePast
    <3>2. CopiesAreMembers'
      BY <1>2, <2>2 DEF NextHandle, CopiesAreMembers
    <3> QED
      BY <1>0, <3>1, <3>2, RoomMoves
  <2> QED
    BY <1>8, <2>1, <2>2 DEF RoomPush
<1> QED
  BY <1>3, <1>4, <1>5, <1>6, <1>7, <1>8

\* Bytes of a head leave the members and the copies alone.
LEMMA RoomHeadStep ==
  ASSUME TypeOK, Core, (\E c \in Conns : RoomHead(c)) \/ RoomHeadRest
  PROVE  Core'
<1> USE DEF Core
<1>0. PICK c \in Conns \cup {fd} : RoomHead(c) \/ (RoomHeadRest /\ c = fd)
  OBVIOUS
<1>1. /\ UNCHANGED <<clientQueue, lobby, acceptVars, rset, shutdown, open>>
      /\ UNCHANGED <<fdset, owner, num, activeFds, status>>
      /\ roomPc \in {"pass", "head"}
      /\ roomPc = "pass" => c \in todo
      /\ roomPc = "head" => c = fd
  BY <1>0 DEF RoomHead, RoomHeadRest, HeadUnchanged, lobbyVars
<1> c \in Conns
  BY <1>1 DEF HeldArePast, TypeOK, RoomType
<1>2. \/ roomPc = "pass" /\ roomPc' = "fdclose" /\ fd' = c /\ UNCHANGED <<todo, fdToIp>>
      \/ roomPc = "head" /\ NextHandle /\ UNCHANGED fdToIp
      \/ /\ c \in open /\ roomPc' \in {"head", "fdclose", "body"} /\ fd' = c /\ UNCHANGED todo
         /\ UNCHANGED fdToIp \/ fdToIp' = Looked({c})
  BY <1>0 DEF RoomHead, RoomHeadRest, TakeHead
<1>3. \A d : Past(d)' <=> Past(d)
  BY <1>1, RoomPlaces
<1>4. HeldArePast'
  BY <1>1, <1>2, <1>3 DEF HeldArePast, NextHandle, TypeOK, RoomType
<1>5. CopiesAreMembers'
  BY <1>1, <1>2 DEF CopiesAreMembers, NextHandle
<1>6. NotInTwoPlaces' /\ CreatorComes'
  BY <1>1, RoomPlaces
<1>7. ~UNCHANGED fdToIp => ~shutdown /\ c \in activeFds /\ fdToIp' = Looked({c})
  BY <1>1, <1>2 DEF CopiesAreMembers
<1>8. Bookkeeping'
  <2>1. ~shutdown => DOMAIN fdToIp' = DOMAIN fdToIp
    BY <1>7 DEF Looked, Bookkeeping
  <2> QED
    BY <1>1, <2>1 DEF Bookkeeping
<1>9. ClosedStaysEmpty'
  BY <1>1, <1>7 DEF ClosedStaysEmpty
<1> QED
  BY <1>4, <1>5, <1>6, <1>8, <1>9

\* The owner's handle closes: every member goes with it.
LEMMA RoomClearStep == ASSUME TypeOK, Core, RoomClear PROVE Core'
<1> USE DEF Core
<1>1. /\ roomPc = "fdclose" /\ owner = fd
      /\ shutdown' = TRUE /\ status' = "CLOSE" /\ open' = open \ activeFds
      /\ activeFds' = {} /\ fdToIp' = [s \in {} |-> NoIp] /\ num' = 0
      /\ owner' = NoConn /\ fdset' = {}
      /\ roomPc' = "pass" /\ todo' = todo \ {fd} /\ fd' = NoConn
      /\ UNCHANGED <<clientQueue, lobby, acceptVars>>
  BY DEF RoomClear, NextHandle, lobbyVars
<1>2. \A d : Past(d)' <=> Past(d)
  BY <1>1, RoomPlaces
<1>3. fd \in Conns /\ Past(fd) /\ fd # NoConn
  BY <1>1, RoomAssumption DEF HeldArePast
<1>4. fd = Creator /\ Creator \in activeFds /\ ~shutdown
  BY <1>1, <1>3 DEF CreatorComes, ClosedStaysEmpty
<1>5. Bookkeeping'
  BY <1>1 DEF Bookkeeping
<1>6. ClosedStaysEmpty'
  BY <1>1, <1>4 DEF ClosedStaysEmpty
<1>7. \A d : /\ (InQueue(d)' <=> InQueue(d)) /\ (InHands(d)' <=> InHands(d))
             /\ (InLobby(d)' <=> InLobby(d))
  BY <1>1 DEF InQueue, InHands, InLobby, acceptVars
<1>8. NotInTwoPlaces'
  BY <1>1, <1>7 DEF NotInTwoPlaces, QueuedOnce
<1>9. HeldArePast'
  BY <1>1, <1>2 DEF HeldArePast, TypeOK, RoomType
<1>10. CreatorComes'
  BY <1>1, <1>2, <1>3, <1>4 DEF CreatorComes, OnlyCreatorCreates, acceptVars
<1>11. CopiesAreMembers'
  <2>1. todo \subseteq activeFds
    BY <1>1, <1>4 DEF CopiesAreMembers
  <2> QED
    BY <1>1, <2>1 DEF CopiesAreMembers
<1> QED
  BY <1>5, <1>6, <1>8, <1>9, <1>10, <1>11

\* Another member's handle is forgotten.
LEMMA RoomForgetStep == ASSUME TypeOK, Core, RoomForget PROVE Core'
<1> USE DEF Core
<1>1. /\ roomPc = "fdclose" /\ owner # fd
      /\ fdToIp' = [s \in DOMAIN fdToIp \ {fd} |-> fdToIp[s]]
      /\ fdset' = fdset \ {fd} /\ num' = num - 1 /\ activeFds' = activeFds \ {fd}
      /\ roomPc' = "close"
      /\ UNCHANGED <<owner, status, rset, todo, fd, shutdown>>
      /\ UNCHANGED <<clientQueue, lobby, acceptVars, open>>
  BY DEF RoomForget, lobbyVars
<1>2. \A d : Past(d)' <=> Past(d)
  BY <1>1, RoomPlaces
<1>3. fd \in Conns /\ Past(fd)
  BY <1>1 DEF HeldArePast
<1>4. ~shutdown => fd \in activeFds /\ fd \in open /\ todo \subseteq activeFds
  BY <1>1 DEF CopiesAreMembers, Bookkeeping
<1>5. Bookkeeping'
  <2> SUFFICES ASSUME ~shutdown PROVE Bookkeeping'
    BY <1>1 DEF Bookkeeping
  <2>1. IsFiniteSet(activeFds) /\ IsFiniteSet(fdset)
    BY RoomAssumption, FS_Subset DEF TypeOK, PoolType
  <2>2. Cardinality(activeFds \ {fd}) = Cardinality(activeFds) - 1
    BY <1>4, <2>1, FS_RemoveElement
  <2>3. Cardinality(fdset \ {fd}) <= ROOMLIMIT
    <3>1. Cardinality(fdset \ {fd}) <= Cardinality(fdset)
      BY <2>1, FS_Subset
    <3>2. Cardinality(fdset \ {fd}) \in Nat /\ Cardinality(fdset) \in Nat
      BY <2>1, FS_Subset, FS_CardinalityType
    <3> QED
      BY <3>1, <3>2, RoomAssumption DEF Bookkeeping
  <2>4. DOMAIN fdToIp' = activeFds'
    BY <1>1 DEF Bookkeeping
  <2>5. num' = Cardinality(activeFds')
    BY <1>1, <2>2 DEF Bookkeeping
  <2> QED
    BY <1>1, <2>3, <2>4, <2>5 DEF Bookkeeping
<1>6. ClosedStaysEmpty'
  <2> SUFFICES ASSUME shutdown PROVE ClosedStaysEmpty'
    BY <1>1 DEF ClosedStaysEmpty
  <2>1. fdToIp' = [s \in {} |-> NoIp]
    BY <1>1 DEF ClosedStaysEmpty
  <2>2. num' <= 0
    BY <1>1 DEF ClosedStaysEmpty, TypeOK, PoolType
  <2> QED
    BY <1>1, <2>1, <2>2 DEF ClosedStaysEmpty
<1>7. \A d : /\ (InQueue(d)' <=> InQueue(d)) /\ (InHands(d)' <=> InHands(d))
             /\ (InLobby(d)' <=> InLobby(d))
  BY <1>1 DEF InQueue, InHands, InLobby, acceptVars
<1>8. NotInTwoPlaces'
  BY <1>1, <1>7 DEF NotInTwoPlaces, QueuedOnce
<1>9. HeldArePast'
  BY <1>1, <1>2 DEF HeldArePast, TypeOK, RoomType
<1>10. CreatorComes'
  BY <1>1, <1>2 DEF CreatorComes, OnlyCreatorCreates, acceptVars
<1>11. CopiesAreMembers'
  BY <1>1, <1>4 DEF CopiesAreMembers
<1> QED
  BY <1>5, <1>6, <1>8, <1>9, <1>10, <1>11

\* Only a handle that is no longer a member is closed.
LEMMA RoomCloseStep == ASSUME TypeOK, Core, RoomClose PROVE Core'
<1> USE DEF Core
<1>1. /\ roomPc = "close" /\ roomPc' = "push" /\ open' = open \ {fd}
      /\ UNCHANGED <<poolVars, rset, todo, fd, shutdown>>
      /\ UNCHANGED <<clientQueue, lobby, acceptVars>>
  BY DEF RoomClose, lobbyVars
<1>2. \A d : Past(d)' <=> Past(d)
  BY <1>1, RoomPlaces
<1>3. fd \in Conns /\ Past(fd) /\ (~shutdown => fd \notin activeFds)
  BY <1>1 DEF HeldArePast, CopiesAreMembers
<1>4. \A d : /\ (InQueue(d)' <=> InQueue(d)) /\ (InHands(d)' <=> InHands(d))
             /\ (InLobby(d)' <=> InLobby(d))
  BY <1>1 DEF InQueue, InHands, InLobby, acceptVars
<1>5. NotInTwoPlaces'
  BY <1>1, <1>3, <1>4 DEF NotInTwoPlaces, QueuedOnce, Past, poolVars
<1>6. HeldArePast'
  BY <1>1, <1>2 DEF HeldArePast, TypeOK, RoomType
<1>7. CreatorComes'
  BY <1>1, RoomPlaces DEF poolVars
<1>8. CopiesAreMembers'
  BY <1>1 DEF CopiesAreMembers, poolVars
<1>9. Bookkeeping' /\ ClosedStaysEmpty'
  BY <1>1, <1>3 DEF Bookkeeping, ClosedStaysEmpty, poolVars
<1> QED
  BY <1>5, <1>6, <1>7, <1>8, <1>9

\* The steps after the loop.
LEMMA RoomEndStep ==
  ASSUME TypeOK, Core, RoomPushX \/ RoomJoinAccept \/ RoomErase
  PROVE  Core'
<1> USE DEF Core
<1>1. /\ UNCHANGED <<poolVars, rset, todo, fd, shutdown, acceptVars, lobby, open>>
      /\ roomPc' \in {"joinAccept", "joinSend", "done"}
  BY DEF RoomPushX, RoomJoinAccept, RoomErase, lobbyVars
<1>2. CopiesAreMembers'
  BY <1>1 DEF CopiesAreMembers, poolVars
<1>3. Bookkeeping' /\ ClosedStaysEmpty'
  BY <1>1, CoreKept DEF poolVars
<1>4. CASE UNCHANGED clientQueue
  <2>1. \A d : Past(d)' <=> Past(d)
    BY <1>1, <1>4, RoomPlaces
  <2>2. HeldArePast'
    BY <1>1, <2>1 DEF HeldArePast, TypeOK, RoomType
  <2>3. NotInTwoPlaces' /\ CreatorComes'
    BY <1>1, <1>4, RoomPlaces DEF poolVars
  <2> QED
    BY <1>2, <1>3, <2>2, <2>3
<1>5. CASE RoomPushX
  <2> DEFINE cc == [cmd |-> "X", sockfd |-> NoConn]
  <2>1. cc \in ClientConns /\ cc.sockfd \notin Conns /\ cc.cmd # "C" /\ cc.sockfd # Creator
    BY RoomAssumption DEF ClientConns
  <2>2. /\ \A d \in Conns : InQueue(d)' <=> InQueue(d)
        /\ QueuedOnce' /\ OnlyCreatorCreates'
    <3>1. clientQueue' = Append(clientQueue, cc)
      BY <1>5 DEF RoomPushX
    <3> HIDE DEF cc
    <3> QED
      BY <2>1, <3>1, Appended DEF TypeOK, NotInTwoPlaces, CreatorComes
  <2>3. \A d : (InHands(d)' <=> InHands(d)) /\ (InLobby(d)' <=> InLobby(d))
    BY <1>1 DEF InHands, InLobby, acceptVars
  <2>4. \A d \in Conns : Past(d)' <=> Past(d)
    BY <2>2, <2>3 DEF Past
  <2>5. NotInTwoPlaces'
    BY <1>1, <2>2, <2>3 DEF NotInTwoPlaces, poolVars
  <2>6. HeldArePast'
    BY <1>1, <2>4 DEF HeldArePast, TypeOK, RoomType
  <2>7. CreatorComes'
    BY <1>1, <2>2, <2>4, RoomAssumption DEF CreatorComes, poolVars, acceptVars
  <2> QED
    BY <1>2, <1>3, <2>5, <2>6, <2>7
<1> QED
  BY <1>4, <1>5 DEF RoomJoinAccept, RoomErase

-----------------------------------------------------------------------------
(* The theorems.                                                            *)

\* Every step keeps Core.
LEMMA CoreStep ==
  ASSUME TypeInv, Core, [Next]_vars
  PROVE  Core'
<1>0. TypeOK
  BY DEF TypeInv
<1>1. CASE Room
  BY <1>0, <1>1, RoomLoopStep, RoomHeadStep, RoomClearStep, RoomForgetStep,
     RoomCloseStep, RoomEndStep DEF Room
<1>2. ASSUME \/ \E t \in SendThreads : Send(t)
             \/ \E c \in Conns : Client(c)
             \/ UNCHANGED vars
      PROVE  Core'
  <2>1. /\ UNCHANGED <<fdset, owner, num, fdToIp, activeFds, status>>
        /\ UNCHANGED <<roomPc, rset, todo, fd, shutdown>>
        /\ UNCHANGED <<acceptPc, newFd, clientQueue, lobby, open>>
    <3> USE DEF poolVars, roomVars, acceptVars, lobbyVars
    <3>1. CASE \E t \in SendThreads : Send(t)
      BY <3>1 DEF Send, SendPop, SendResolve, Write, SendWrite
    <3>2. CASE \E c \in Conns : Client(c)
      BY <3>2 DEF Client, ClientHead, ClientRest, ClientClose
    <3>3. CASE UNCHANGED vars
      BY <3>3 DEF vars
    <3> QED
      BY <1>2, <3>1, <3>2, <3>3
  <2> QED
    BY <2>1, CoreKept DEF Core, poolVars
<1> QED
  BY <1>0, <1>1, <1>2, LobbyStep, AcceptStep DEF Next

\* The invariant the others rest on: the books agree, nothing enters a closed
\* room, and what the room thread holds are members or have been.
THEOREM Inductive == Spec => []Core
<1>1. Init => Core
  BY CoreInit
<1>2. TypeInv /\ Core /\ [Next]_vars => Core'
  BY CoreStep
<1> QED
  BY <1>1, <1>2, Typing, PTL DEF Spec

\* While the owner is there, num, activeFds, fdToIp and fdset agree and every
\* member is open, whatever the interleaving of acceptors, accept thread and
\* room thread (room.cpp 205-217, 251-258, 271-282).
THEOREM Books == Spec => []Bookkeeping
<1>1. Core => Bookkeeping
  BY DEF Core
<1> QED
  BY <1>1, Inductive, PTL

\* No closed handle is in the set the room thread selects on, so that no room
\* can end the server process (room.cpp 33-48, net.cpp 21-26).
THEOREM Selecting == Spec => []SelectSafe
<1>1. Core => SelectSafe
  BY DEF Core, SelectSafe, CopiesAreMembers, Bookkeeping
<1> QED
  BY <1>1, Inductive, PTL

\* A closed room takes nobody in (room.cpp 195-199, 271-276; msg.h 141-155).
THEOREM Closing == Spec => []ClosedStaysEmpty
<1>1. Core => ClosedStaysEmpty
  BY DEF Core
<1> QED
  BY <1>1, Inductive, PTL

\* Before the owner leaves, the room thread reads and closes members only
\* (room.cpp 57-67, 197-198, 224).
THEOREM Reading == Spec => []StaleOnlyAfterClear
<1>1. Core => StaleOnlyAfterClear
  BY DEF Core, StaleOnlyAfterClear, CopiesAreMembers, Bookkeeping
<1> QED
  BY <1>1, Inductive, PTL

-----------------------------------------------------------------------------
(* The way of a connection.                                                 *)

\* A connection goes from the lobby to the queue, the accept thread's hands
\* and the room, and never back.
LEMMA Onward ==
  ASSUME TypeInv, Core, [Next]_vars, NEW c \in Conns
  PROVE  /\ InLobby(c)' => InLobby(c)
         /\ InQueue(c)' => InQueue(c) \/ lobby[c] \in {"hand", "ok"}
         /\ InHands(c)' => InHands(c) \/ InQueue(c)
         /\ c \in activeFds' => c \in activeFds \/ InHands(c)
<1> DEFINE P == /\ InLobby(c)' => InLobby(c)
                /\ InQueue(c)' => InQueue(c) \/ lobby[c] \in {"hand", "ok"}
                /\ InHands(c)' => InHands(c) \/ InQueue(c)
                /\ c \in activeFds' => c \in activeFds \/ InHands(c)
<1>0. /\ lobby \in [Conns -> LobbyPcs] /\ Creator \in Conns
      /\ clientQueue \in Seq(ClientConns) /\ NoConn \notin Conns
  BY RoomAssumption DEF TypeInv, TypeOK, LobbyType
<1>1. ASSUME UNCHANGED <<lobby, clientQueue>>, activeFds' \subseteq activeFds,
             UNCHANGED <<acceptPc, newFd>> \/ acceptPc' \notin {"create", "join"}
      PROVE  P
  BY <1>1 DEF InLobby, InQueue, InHands
<1>2. ASSUME UNCHANGED <<clientQueue, acceptPc, newFd, activeFds>>,
             NEW d \in Conns, NEW pc, lobby' = [lobby EXCEPT ![d] = pc],
             pc \in {"publish", "hand", "lobby", "found", "ok"} =>
               lobby[d] \in {"publish", "hand", "lobby", "found", "ok"}
      PROVE  P
  <2>1. InLobby(c)' => InLobby(c)
    BY <1>0, <1>2 DEF InLobby
  <2> QED
    BY <1>2, <2>1 DEF InQueue, InHands
<1>3. ASSUME NEW cc \in ClientConns, clientQueue' = Append(clientQueue, cc),
             UNCHANGED <<acceptPc, newFd, activeFds>>,
             InLobby(c)' => InLobby(c),
             cc.sockfd = c => lobby[c] \in {"hand", "ok"}
      PROVE  P
  <2>1. InQueue(c)' <=> InQueue(c) \/ c = cc.sockfd
    BY <1>0, <1>3, Appended
  <2> QED
    BY <1>3, <2>1 DEF InHands
<1>4. CASE Create
  <2>1. CASE CreatePublish
    BY <1>0, <1>2, <2>1 DEF CreatePublish, acceptVars, poolVars
  <2>2. CASE CreateHand
    <3>1. [cmd |-> "C", sockfd |-> Creator] \in ClientConns
      BY RoomAssumption DEF ClientConns
    <3>2. (InLobby(c)' => InLobby(c)) /\ (c = Creator => lobby[c] = "hand")
      BY <1>0, <2>2 DEF CreateHand, InLobby
    <3> QED
      BY <1>3, <2>2, <3>1, <3>2 DEF CreateHand, acceptVars, poolVars
  <2>3. CASE CreateStart
    <3>1. InLobby(c)' => InLobby(c)
      BY <1>0, <2>3 DEF CreateStart, InLobby
    <3>2. UNCHANGED <<clientQueue, activeFds>> /\ acceptPc' = "wait"
      BY <2>3 DEF CreateStart, poolVars
    <3> QED
      BY <3>1, <3>2 DEF InQueue, InHands
  <2> QED
    BY <1>4, <2>1, <2>2, <2>3 DEF Create
<1>5. ASSUME NEW d \in Conns, Join(d) \/ LobbyClose(d) PROVE P
  <2>1. CASE JoinLookup(d)
    <3>1. UNCHANGED <<clientQueue, acceptPc, newFd, activeFds>>
      BY <2>1 DEF JoinLookup, acceptVars, poolVars
    <3>2. CASE UNCHANGED lobby
      BY <1>1, <3>1, <3>2
    <3>3. CASE lobby' = [lobby EXCEPT ![d] = "found"]
      BY <1>2, <2>1, <3>1, <3>3 DEF JoinLookup
    <3> QED
      BY <2>1, <3>2, <3>3 DEF JoinLookup
  <2>2. CASE JoinCheck(d)
    <3>1. PICK pc \in {"lobby", "ok"} : lobby' = [lobby EXCEPT ![d] = pc]
      BY <2>2 DEF JoinCheck
    <3> QED
      BY <1>2, <2>2, <3>1 DEF JoinCheck, acceptVars, poolVars
  <2>3. CASE JoinHand(d)
    <3>1. [cmd |-> "J", sockfd |-> d] \in ClientConns
      BY RoomAssumption DEF ClientConns
    <3>2. (InLobby(c)' => InLobby(c)) /\ (c = d => lobby[c] = "ok")
      BY <1>0, <2>3 DEF JoinHand, InLobby
    <3> QED
      BY <1>3, <2>3, <3>1, <3>2 DEF JoinHand, acceptVars, poolVars
  <2>4. CASE JoinRespond(d) \/ LobbyClose(d)
    BY <1>2, <2>4 DEF JoinRespond, LobbyClose, acceptVars, poolVars
  <2> QED
    BY <1>5, <2>1, <2>2, <2>3, <2>4 DEF Join
<1>6. CASE Room
  <2>1. CASE RoomPushX
    <3>1. [cmd |-> "X", sockfd |-> NoConn] \in ClientConns
      BY DEF ClientConns
    <3> QED
      BY <1>0, <1>3, <2>1, <3>1 DEF RoomPushX, InLobby, acceptVars, poolVars, lobbyVars
  <2>2. CASE ~RoomPushX
    <3>1. /\ UNCHANGED <<lobby, clientQueue, acceptPc, newFd>>
          /\ activeFds' \subseteq activeFds
      <4> USE DEF poolVars, acceptVars, lobbyVars
      <4>1. CASE \/ RoomTop \/ RoomSelect \/ RoomSnapshot \/ RoomPassEnd
                 \/ \E d \in Conns : RoomHead(d)
                 \/ RoomHeadRest
        BY <4>1 DEF RoomTop, RoomSelect, RoomSnapshot, RoomPassEnd, RoomHead, RoomHeadRest, HeadUnchanged
      <4>2. CASE RoomBody \/ RoomPush \/ RoomClear \/ RoomForget \/ RoomClose
        BY <4>2 DEF RoomBody, RoomPush, RoomClear, RoomForget, RoomClose
      <4>3. CASE RoomJoinAccept \/ RoomErase
        BY <4>3 DEF RoomJoinAccept, RoomErase
      <4> QED
        BY <1>6, <2>2, <4>1, <4>2, <4>3 DEF Room
    <3> QED
      BY <1>1, <3>1
  <2> QED
    BY <2>1, <2>2
<1>7. CASE Accept
  <2> USE DEF poolVars, lobbyVars
  <2>1. CASE AcceptTake
    <3>1. \A d : InQueue(d) <=> InQueue(d)' \/ d = Head(clientQueue).sockfd
      BY <1>0, <2>1, Taken DEF AcceptTake
    <3>2. newFd' = Head(clientQueue).sockfd /\ UNCHANGED <<lobby, activeFds>>
      BY <2>1 DEF AcceptTake
    <3> QED
      BY <3>1, <3>2 DEF InLobby, InHands
  <2>2. CASE AcceptCreate \/ AcceptJoin
    <3>1. /\ UNCHANGED <<lobby, clientQueue>> /\ acceptPc' = "push"
          /\ acceptPc \in {"create", "join"} /\ activeFds' = activeFds \cup {newFd}
      BY <2>2 DEF AcceptCreate, AcceptJoin, Register
    <3> QED
      BY <3>1 DEF InLobby, InQueue, InHands
  <2>3. CASE AcceptRefuse
    BY <1>1, <2>3 DEF AcceptRefuse
  <2>4. CASE AcceptPush
    <3>1. UNCHANGED <<lobby, clientQueue, activeFds>>
          /\ acceptPc' \notin {"create", "join"}
      BY <2>4 DEF AcceptPush, acceptVars
    <3> QED
      BY <1>1, <3>1
  <2>5. CASE AcceptIps
    BY <1>1, <2>5 DEF AcceptIps
  <2> QED
    BY <1>7, <2>1, <2>2, <2>3, <2>4, <2>5 DEF Accept
<1>8. ASSUME \/ \E t \in SendThreads : Send(t)
             \/ \E d \in Conns : Client(d)
             \/ UNCHANGED vars
      PROVE  P
  <2>1. UNCHANGED <<lobby, clientQueue, acceptPc, newFd, activeFds>>
    <3> USE DEF poolVars, acceptVars, lobbyVars
    <3>1. CASE \E t \in SendThreads : Send(t)
      BY <3>1 DEF Send, SendPop, SendResolve, Write, SendWrite
    <3>2. CASE \E d \in Conns : Client(d)
      BY <3>2 DEF Client, ClientHead, ClientRest, ClientClose
    <3>3. CASE UNCHANGED vars
      BY <3>3 DEF vars
    <3> QED
      BY <1>8, <3>1, <3>2, <3>3
  <2> QED
    BY <1>1, <2>1
<1> QED
  BY <1>4, <1>5, <1>6, <1>7, <1>8 DEF Next

\* What is out stays out, and who has been on the way into the room and is no
\* longer stays past.
LEMMA OutStays ==
  ASSUME TypeInv, Core, [Next]_vars, NEW c \in Conns
  PROVE  (Past(c) => Past(c)') /\ (Out(c) => Out(c)')
BY Onward DEF Past, Out, InLobby

\* Only Create and the acceptors' steps move a connection in the lobby.
LEMMA LobbyMoves ==
  ASSUME [Next]_vars
  PROVE  \/ UNCHANGED lobby
         \/ Create
         \/ \E c \in Conns : Join(c) \/ LobbyClose(c)
<1> USE DEF lobbyVars
<1>3. CASE Room
  BY <1>3 DEF Room, RoomTop, RoomSelect, RoomSnapshot, RoomPassEnd, RoomHead, RoomHeadRest, HeadUnchanged, RoomBody,
     RoomPush, RoomClear, RoomForget, RoomClose, RoomPushX, RoomJoinAccept, RoomErase
<1>4. CASE Accept
  BY <1>4 DEF Accept, AcceptTake, AcceptCreate, AcceptJoin, AcceptRefuse, AcceptPush,
     AcceptIps
<1>5. CASE \E t \in SendThreads : Send(t)
  BY <1>5 DEF Send, SendPop, SendResolve, Write, SendWrite
<1>6. CASE \E c \in Conns : Client(c)
  BY <1>6 DEF Client, ClientHead, ClientRest, ClientClose
<1>7. CASE UNCHANGED vars
  BY <1>7 DEF vars
<1> QED
  BY <1>3, <1>4, <1>5, <1>6, <1>7 DEF Next

\* The accept thread lets in, the room thread lets out.
LEMMA MembersMove ==
  ASSUME [Next]_vars
  PROVE  \/ UNCHANGED <<activeFds, owner, shutdown>>
         \/ AcceptCreate \/ AcceptJoin \/ RoomForget \/ RoomClear
<1> USE DEF poolVars, roomVars
<1>1. CASE Create
  BY <1>1 DEF Create, CreatePublish, CreateHand, CreateStart
<1>2. CASE \E c \in Conns : Join(c) \/ LobbyClose(c)
  BY <1>2 DEF Join, JoinLookup, JoinCheck, JoinHand, JoinRespond, LobbyClose
<1>3. CASE Room
  BY <1>3 DEF Room, RoomTop, RoomSelect, RoomSnapshot, RoomPassEnd, RoomHead, RoomHeadRest, HeadUnchanged, RoomBody,
     RoomPush, RoomClose, RoomPushX, RoomJoinAccept, RoomErase
<1>4. CASE Accept
  BY <1>4 DEF Accept, AcceptTake, AcceptRefuse, AcceptPush, AcceptIps
<1>5. CASE \E t \in SendThreads : Send(t)
  BY <1>5 DEF Send, SendPop, SendResolve, Write, SendWrite
<1>6. CASE \E c \in Conns : Client(c)
  BY <1>6 DEF Client, ClientHead, ClientRest, ClientClose
<1>7. CASE UNCHANGED vars
  BY <1>7 DEF vars
<1> QED
  BY <1>1, <1>2, <1>3, <1>4, <1>5, <1>6, <1>7 DEF Next

\* Until the room thread is started no step sets one of the others going.
LEMMA BeforeStartStep ==
  ASSUME TypeInv, BeforeStart, [Next]_vars
  PROVE  BeforeStart'
<1> USE RoomAssumption
<1> SUFFICES ASSUME lobby'[Creator] # "left"
             PROVE  /\ roomPc' = "off" /\ acceptPc' = "off" /\ activeFds' = {}
                    /\ \A t \in SendThreads : sendPc'[t] = "off"
  BY DEF BeforeStart
<1>1. lobby \in [Conns -> LobbyPcs]
  BY DEF TypeInv, TypeOK, LobbyType
<1>2. lobby[Creator] # "left"
  <2>1. ASSUME NEW c \in Conns, Join(c) \/ LobbyClose(c) PROVE lobby[Creator] # "left"
    BY <1>1, <2>1 DEF Join, JoinLookup, JoinCheck, JoinHand, JoinRespond, LobbyClose
  <2> QED
    BY <1>1, <2>1, LobbyMoves DEF Create, CreatePublish, CreateHand, CreateStart
<1>3. /\ roomPc = "off" /\ acceptPc = "off" /\ activeFds = {}
      /\ \A t \in SendThreads : sendPc[t] = "off"
  BY <1>2 DEF BeforeStart
<1>4. CASE UNCHANGED <<roomPc, acceptPc, sendPc>> /\ activeFds' \subseteq activeFds
  BY <1>3, <1>4
<1> USE DEF roomVars, acceptVars, sendVars, poolVars
<1>5. CASE Create
  BY <1>1, <1>4, <1>5 DEF Create, CreatePublish, CreateHand, CreateStart
<1>6. CASE \E c \in Conns : Join(c) \/ LobbyClose(c)
  BY <1>4, <1>6 DEF Join, JoinLookup, JoinCheck, JoinHand, JoinRespond, LobbyClose
<1>7. CASE Room
  BY <1>3, <1>7 DEF Room, RoomTop, RoomSelect, RoomSnapshot, RoomPassEnd, RoomHead, RoomHeadRest, HeadUnchanged,
     RoomBody, RoomPush, RoomClear, RoomForget, RoomClose, RoomPushX, RoomJoinAccept,
     RoomErase
<1>8. CASE Accept
  BY <1>3, <1>8 DEF Accept, AcceptTake, AcceptCreate, AcceptJoin, AcceptRefuse,
     AcceptPush, AcceptIps
<1>9. CASE \E t \in SendThreads : Send(t)
  BY <1>3, <1>9 DEF Send, SendPop, SendResolve, Write, SendWrite
<1>10. CASE \E c \in Conns : Client(c)
  BY <1>4, <1>10 DEF Client, ClientHead, ClientRest, ClientClose
<1>11. CASE UNCHANGED vars
  BY <1>4, <1>11 DEF vars
<1> QED
  BY <1>5, <1>6, <1>7, <1>8, <1>9, <1>10, <1>11 DEF Next

\* A room's threads start last (userdeal.cpp 97-112, room.cpp 110-166).
THEOREM StartsLast == Spec => []BeforeStart
<1>1. Init => BeforeStart
  BY RoomAssumption DEF Init, BeforeStart
<1>2. TypeInv /\ BeforeStart /\ [Next]_vars => BeforeStart'
  BY BeforeStartStep
<1> QED
  BY <1>1, <1>2, Typing, PTL DEF Spec

\* What leaves the places where it may still be registered is registered,
\* closed in the lobby or refused.
LEMMA Leaving ==
  ASSUME TypeInv, Core, BeforeStart, Next, NEW c \in Conns, ~Past(c)
  PROVE  \/ ~Past(c)'
         \/ LobbyClose(c)
         \/ newFd = c /\ (AcceptCreate \/ AcceptJoin \/ AcceptRefuse)
<1>0. /\ lobby \in [Conns -> LobbyPcs] /\ Creator \in Conns
      /\ clientQueue \in Seq(ClientConns) /\ NoConn \notin Conns
  BY RoomAssumption DEF TypeInv, TypeOK, LobbyType
<1>1. CASE /\ UNCHANGED <<lobby, clientQueue>>
           /\ UNCHANGED <<acceptPc, newFd>> \/ acceptPc \notin {"create", "join"}
  BY <1>1 DEF Past, InLobby, InQueue, InHands
<1>2. ASSUME NEW cc \in ClientConns, clientQueue' = Append(clientQueue, cc),
             UNCHANGED <<acceptPc, newFd>>,
             InLobby(c) => InLobby(c)' \/ cc.sockfd = c
      PROVE  ~Past(c)'
  <2>1. InQueue(c)' <=> InQueue(c) \/ c = cc.sockfd
    BY <1>0, <1>2, Appended
  <2> QED
    BY <1>2, <2>1 DEF Past, InHands
<1>3. ASSUME UNCHANGED <<clientQueue, acceptPc, newFd>>, InLobby(c) => InLobby(c)'
      PROVE  ~Past(c)'
  BY <1>3 DEF Past, InQueue, InHands
<1>4. CASE Create
  <2>1. CASE CreatePublish
    BY <1>0, <1>3, <2>1 DEF CreatePublish, acceptVars, InLobby
  <2>2. CASE CreateHand
    <3>1. [cmd |-> "C", sockfd |-> Creator] \in ClientConns
      BY RoomAssumption DEF ClientConns
    <3>2. InLobby(c) => InLobby(c)' \/ c = Creator
      BY <1>0, <2>2 DEF CreateHand, InLobby
    <3> QED
      BY <1>2, <2>2, <3>1, <3>2 DEF CreateHand, acceptVars
  <2>3. CASE CreateStart
    <3>1. /\ InLobby(c) => InLobby(c)'
          /\ clientQueue' = clientQueue /\ ~InHands(c)
      BY <1>0, <2>3 DEF BeforeStart, CreateStart, InLobby, InHands
    <3> QED
      BY <3>1 DEF Past, InQueue
  <2> QED
    BY <1>4, <2>1, <2>2, <2>3 DEF Create
<1>5. ASSUME NEW d \in Conns, Join(d) \/ LobbyClose(d), ~LobbyClose(c)
      PROVE  ~Past(c)'
  <2>1. CASE JoinLookup(d) \/ JoinCheck(d) \/ JoinRespond(d) \/ LobbyClose(d)
    <3>1. InLobby(c) => InLobby(c)'
      BY <1>0, <1>5, <2>1 DEF JoinLookup, JoinCheck, JoinRespond, LobbyClose, InLobby
    <3> QED
      BY <1>3, <2>1, <3>1 DEF JoinLookup, JoinCheck, JoinRespond, LobbyClose, acceptVars
  <2>2. CASE JoinHand(d)
    <3>1. [cmd |-> "J", sockfd |-> d] \in ClientConns
      BY RoomAssumption DEF ClientConns
    <3>2. InLobby(c) => InLobby(c)' \/ c = d
      BY <1>0, <2>2 DEF JoinHand, InLobby
    <3> QED
      BY <1>2, <2>2, <3>1, <3>2 DEF JoinHand, acceptVars
  <2> QED
    BY <1>5, <2>1, <2>2 DEF Join
<1>6. CASE Room
  <2>1. CASE RoomPushX
    <3>1. [cmd |-> "X", sockfd |-> NoConn] \in ClientConns
      BY DEF ClientConns
    <3> QED
      BY <1>2, <2>1, <3>1 DEF RoomPushX, InLobby, acceptVars, lobbyVars
  <2>2. CASE ~RoomPushX
    <3> USE DEF poolVars, acceptVars, lobbyVars
    <3>1. UNCHANGED <<lobby, clientQueue, acceptPc, newFd>>
      BY <1>6, <2>2 DEF Room, RoomTop, RoomSelect, RoomSnapshot, RoomPassEnd, RoomHead, RoomHeadRest, HeadUnchanged,
         RoomBody, RoomPush, RoomClear, RoomForget, RoomClose, RoomJoinAccept, RoomErase
    <3> QED
      BY <1>1, <3>1
  <2> QED
    BY <2>1, <2>2
<1>7. CASE Accept
  <2>1. CASE AcceptTake
    <3>1. InQueue(c) => InQueue(c)' \/ c = Head(clientQueue).sockfd
      BY <1>0, <2>1, Taken DEF AcceptTake
    <3>2. /\ newFd' = Head(clientQueue).sockfd /\ lobby' = lobby /\ ~InHands(c)
          /\ Head(clientQueue).cmd # "X" => acceptPc' \in {"create", "join"}
      BY <1>0, <2>1, HeadTailProperties DEF AcceptTake, ClientConns, InHands, lobbyVars
    <3>3. Head(clientQueue) \in ClientConns
      BY <1>0, <2>1, HeadTailProperties DEF AcceptTake
    <3>4. c = Head(clientQueue).sockfd => Head(clientQueue).cmd # "X"
      BY <1>0, <3>3 DEF ClientConns
    <3> QED
      BY <3>1, <3>2, <3>4 DEF Past, InLobby, InHands
  <2>2. CASE AcceptCreate \/ AcceptJoin \/ AcceptRefuse
    <3>1. CASE newFd = c
      BY <2>2, <3>1
    <3>2. CASE newFd # c
      BY <2>2, <3>2 DEF AcceptCreate, AcceptJoin, AcceptRefuse, lobbyVars, Past, InLobby,
         InQueue, InHands
    <3> QED
      BY <3>1, <3>2
  <2>3. CASE AcceptPush \/ AcceptIps
    BY <1>1, <2>3 DEF AcceptPush, AcceptIps, lobbyVars
  <2> QED
    BY <1>7, <2>1, <2>2, <2>3 DEF Accept
<1>8. CASE \E t \in SendThreads : Send(t)
  BY <1>1, <1>8 DEF Send, SendPop, SendResolve, Write, SendWrite, acceptVars, lobbyVars
<1>9. CASE \E d \in Conns : Client(d)
  BY <1>1, <1>9 DEF Client, ClientHead, ClientRest, ClientClose, acceptVars, lobbyVars
<1> QED
  BY <1>4, <1>5, <1>6, <1>7, <1>8, <1>9 DEF Next

\* Nobody opens a handle here.
LEMMA OpenShrinks == ASSUME [Next]_vars PROVE open' \subseteq open
<1>1. CASE Create
  BY <1>1 DEF Create, CreatePublish, CreateHand, CreateStart
<1>2. CASE \E c \in Conns : Join(c) \/ LobbyClose(c)
  BY <1>2 DEF Join, JoinLookup, JoinCheck, JoinHand, JoinRespond, LobbyClose
<1>3. CASE Room
  BY <1>3 DEF Room, RoomTop, RoomSelect, RoomSnapshot, RoomPassEnd, RoomHead, RoomHeadRest, HeadUnchanged, RoomBody,
     RoomPush, RoomClear, RoomForget, RoomClose, RoomPushX, RoomJoinAccept, RoomErase
<1>4. CASE Accept
  BY <1>4 DEF Accept, AcceptTake, AcceptCreate, AcceptJoin, AcceptRefuse, AcceptPush,
     AcceptIps
<1>5. CASE \E t \in SendThreads : Send(t)
  BY <1>5 DEF Send, SendPop, SendResolve, Write, SendWrite
<1>6. CASE \E c \in Conns : Client(c)
  BY <1>6 DEF Client, ClientHead, ClientRest, ClientClose
<1>7. CASE UNCHANGED vars
  BY <1>7 DEF vars
<1> QED
  BY <1>1, <1>2, <1>3, <1>4, <1>5, <1>6, <1>7 DEF Next

\* What is to be closed next is closed next.
LEMMA ClosingStays ==
  ASSUME BeforeStart, [Next]_vars, NEW c, InClosing(c)
  PROVE  RoomClose \/ InClosing(c)'
<1>1. roomPc = "close" /\ fd = c
  BY DEF InClosing
<1>2. CASE UNCHANGED <<roomPc, fd>>
  BY <1>1, <1>2 DEF InClosing
<1> USE DEF roomVars
<1>3. CASE Create
  BY <1>1, <1>2, <1>3 DEF BeforeStart, Create, CreatePublish, CreateHand, CreateStart
<1>4. CASE \E d \in Conns : Join(d) \/ LobbyClose(d)
  BY <1>2, <1>4 DEF Join, JoinLookup, JoinCheck, JoinHand, JoinRespond, LobbyClose
<1>5. CASE Room
  BY <1>1, <1>5 DEF Room, RoomTop, RoomSelect, RoomSnapshot, RoomPassEnd, RoomHead, RoomHeadRest, HeadUnchanged,
     RoomBody, RoomPush, RoomClear, RoomForget, RoomPushX, RoomJoinAccept, RoomErase
<1>6. CASE Accept
  BY <1>2, <1>6 DEF Accept, AcceptTake, AcceptCreate, AcceptJoin, AcceptRefuse, AcceptPush,
     AcceptIps
<1>7. CASE \E t \in SendThreads : Send(t)
  BY <1>2, <1>7 DEF Send, SendPop, SendResolve, Write, SendWrite
<1>8. CASE \E d \in Conns : Client(d)
  BY <1>2, <1>8 DEF Client, ClientHead, ClientRest, ClientClose
<1>9. CASE UNCHANGED vars
  BY <1>2, <1>9 DEF vars
<1> QED
  BY <1>3, <1>4, <1>5, <1>6, <1>7, <1>8, <1>9 DEF Next

\* Whoever leaves a place comes to another one or is closed.
LEMMA PlacesStep ==
  ASSUME TypeInv, Core, BeforeStart, OnePlace, [Next]_vars
  PROVE  OnePlace'
<1>1. NotInTwoPlaces'
  BY CoreStep DEF Core
<1>2. ASSUME NEW c \in open', Past(c)'
      PROVE  c \in activeFds' \/ InClosing(c)'
  <2>1. c \in open /\ c \in Conns
    BY OpenShrinks DEF TypeInv, TypeOK
  <2>2. CASE ~Past(c)
    <3>1. CASE UNCHANGED vars
      BY <1>2, <2>2, <3>1 DEF vars, lobbyVars, acceptVars, Past, InLobby, InQueue,
         InHands
    <3>2. CASE Next
      <4>1. ~LobbyClose(c) /\ ~(newFd = c /\ AcceptRefuse)
        BY <1>2 DEF LobbyClose, AcceptRefuse
      <4>2. newFd = c /\ (AcceptCreate \/ AcceptJoin)
        BY <1>2, <2>1, <2>2, <3>2, <4>1, Leaving
      <4> QED
        BY <4>2 DEF AcceptCreate, AcceptJoin, Register
    <3> QED
      BY <3>1, <3>2
  <2>3. CASE c \in activeFds
    <3>1. CASE UNCHANGED activeFds
      BY <2>3, <3>1
    <3>2. CASE AcceptCreate \/ AcceptJoin
      BY <2>3, <3>2 DEF AcceptCreate, AcceptJoin, Register
    <3>3. CASE RoomForget
      BY <2>3, <3>3 DEF RoomForget, InClosing
    <3>4. CASE RoomClear
      BY <1>2, <2>3, <3>4 DEF RoomClear
    <3> QED
      BY <3>1, <3>2, <3>3, <3>4, MembersMove
  <2>4. CASE InClosing(c)
    <3>1. ~RoomClose
      BY <1>2, <2>4 DEF RoomClose, InClosing
    <3> QED
      BY <2>4, <3>1, ClosingStays
  <2> QED
    BY <2>1, <2>2, <2>3, <2>4 DEF OnePlace
<1> QED
  BY <1>1, <1>2 DEF OnePlace

\* An open connection is in one place, never in two and never in none
\* (userdeal.cpp 106-112, 182-188; room.cpp 197-239, 240-282).
THEOREM Places == Spec => []OnePlace
<1>1. Init => OnePlace
  <2>1. Init => \A c \in Conns : InLobby(c)
    BY DEF Init, InLobby
  <2> QED
    BY <2>1, CoreInit DEF Init, Core, OnePlace, Past
<1>2. TypeInv /\ Core /\ BeforeStart /\ OnePlace /\ [Next]_vars => OnePlace'
  BY PlacesStep
<1> QED
  BY <1>1, <1>2, Typing, Inductive, StartsLast, PTL DEF Spec

-----------------------------------------------------------------------------
(* The meeting that the threads hold.                                       *)

Outside == {c \in Conns : ~Past(c)}

\* The owner is cleared with the members only.
LEMMA HostStep ==
  ASSUME TypeInv, Core, HostOwns, [Next]_vars
  PROVE  HostOwns'
<1>1. CASE UNCHANGED <<activeFds, owner, shutdown>>
  BY <1>1 DEF HostOwns
<1>2. CASE AcceptCreate
  BY <1>2 DEF HostOwns, AcceptCreate, Core, CreatorComes
<1>3. CASE AcceptJoin
  BY <1>3 DEF HostOwns, AcceptJoin, Register, Core, CreatorComes
<1>4. CASE RoomForget \/ RoomClear
  BY <1>4 DEF HostOwns, RoomForget, RoomClear
<1> QED
  BY <1>1, <1>2, <1>3, <1>4, MembersMove

\* Nobody leaves the way into the room but by the steps named.
LEMMA OutsideKept ==
  ASSUME TypeInv, Core, BeforeStart, [Next]_vars,
         ~(\E c \in Conns : LobbyClose(c)), ~AcceptCreate, ~AcceptJoin, ~AcceptRefuse
  PROVE  Outside' = Outside
<1>1. ASSUME NEW c \in Conns, ~Past(c) PROVE ~Past(c)'
  <2>1. CASE UNCHANGED vars
    BY <1>1, <2>1 DEF vars, lobbyVars, acceptVars, Past, InLobby, InQueue,
         InHands
  <2>2. CASE Next
    BY <1>1, <2>2, Leaving
  <2> QED
    BY <2>1, <2>2
<1>2. ASSUME NEW c \in Conns, Past(c) PROVE Past(c)'
  BY <1>2, OutStays
<1> QED
  BY <1>1, <1>2 DEF Outside

\* A connection that the accept thread has dealt with has come or gone.
LEMMA HandsEmptied ==
  ASSUME TypeInv, Core, AcceptCreate \/ AcceptJoin \/ AcceptRefuse
  PROVE  Outside' = Outside \ {newFd} /\ newFd \in Outside
<1>1. newFd \in Conns /\ InHands(newFd)
  BY DEF AcceptCreate, AcceptJoin, AcceptRefuse, TypeInv, InHands
<1>2. /\ UNCHANGED <<lobby, clientQueue>> /\ acceptPc' \notin {"create", "join"}
      /\ acceptPc \in {"create", "join"}
  BY DEF AcceptCreate, AcceptJoin, AcceptRefuse, lobbyVars
<1>3. ~InLobby(newFd) /\ ~InQueue(newFd)
  BY <1>1 DEF Core, NotInTwoPlaces
<1>4. ASSUME NEW c \in Conns PROVE Past(c)' <=> Past(c) \/ c = newFd
  BY <1>2, <1>3 DEF Past, InLobby, InQueue, InHands
<1> QED
  BY <1>1, <1>4 DEF Outside, Past

\* Every step is a step of the meeting or nothing to it.
LEMMA MeetingStep ==
  ASSUME TypeInv, Core, BeforeStart, HostOwns, [Next]_vars
  PROVE  [Gathering!Next]_<<Outside, activeFds, shutdown>>
<1> USE RoomAssumption
<1> DEFINE Goal == \/ Gathering!Next
                   \/ UNCHANGED <<Outside, activeFds, shutdown>>
<1>0. Creator \in Conns
  OBVIOUS
<1>1. CASE AcceptCreate \/ AcceptJoin
  <2>1. newFd \in Outside /\ Outside' = Outside \ {newFd}
    BY <1>1, HandsEmptied
  <2>2. activeFds' = activeFds \cup {newFd} /\ shutdown' = shutdown
    BY <1>1 DEF AcceptCreate, AcceptJoin, Register, roomVars
  <2>3. ~shutdown
    <3>1. CASE AcceptCreate
      BY <3>1, <2>1 DEF AcceptCreate, Core, CreatorComes, Outside
    <3>2. CASE AcceptJoin
      BY <3>2 DEF AcceptJoin, Core, ClosedStaysEmpty
    <3> QED
      BY <1>1, <3>1, <3>2
  <2>4. Gathering!Enter(newFd) /\ newFd \in Conns
    BY <2>1, <2>2, <2>3 DEF Gathering!Enter, Outside
  <2> QED
    BY <2>4 DEF Gathering!Next
<1>2. CASE AcceptRefuse
  <2>1. newFd \in Outside \ {Creator} /\ Outside' = Outside \ {newFd}
    BY <1>2, HandsEmptied DEF AcceptRefuse, Core, CreatorComes
  <2>2. UNCHANGED <<activeFds, shutdown>>
    BY <1>2 DEF AcceptRefuse, poolVars, roomVars
  <2>3. Gathering!TurnAway(newFd) /\ newFd \in Conns
    BY <2>1, <2>2 DEF Gathering!TurnAway, Outside
  <2> QED
    BY <2>3 DEF Gathering!Next
<1>3. ASSUME NEW c \in Conns, LobbyClose(c) PROVE Goal
  <2>1. /\ c # Creator /\ InLobby(c)
        /\ lobby' = [lobby EXCEPT ![c] = "left"] /\ lobby \in [Conns -> LobbyPcs]
        /\ UNCHANGED <<clientQueue, acceptPc, newFd, activeFds, shutdown>>
    BY <1>3 DEF LobbyClose, Core, CreatorComes, InLobby, TypeInv, TypeOK, LobbyType,
       acceptVars, poolVars, roomVars
  <2>2. ~InQueue(c) /\ ~InHands(c)
    BY <2>1 DEF Core, NotInTwoPlaces
  <2>3. ASSUME NEW d \in Conns PROVE Past(d)' <=> Past(d) \/ d = c
    BY <2>1, <2>2 DEF Past, InLobby, InQueue, InHands
  <2>4. c \in Outside \ {Creator} /\ Outside' = Outside \ {c}
    BY <2>1, <2>3 DEF Outside, Past
  <2>5. Gathering!TurnAway(c)
    BY <2>1, <2>4 DEF Gathering!TurnAway, Outside
  <2> QED
    BY <2>5 DEF Gathering!Next
<1>4. CASE RoomForget
  <2>1. Outside' = Outside
    BY <1>4, OutsideKept DEF RoomForget, LobbyClose, AcceptCreate, AcceptJoin,
       AcceptRefuse, roomVars
  <2>2. activeFds' = activeFds \ {fd} /\ shutdown' = shutdown
    BY <1>4 DEF RoomForget
  <2>3. CASE fd \notin activeFds
    BY <2>1, <2>2, <2>3
  <2>4. CASE fd \in activeFds
    <3>1. fd \in activeFds \ {Creator} /\ fd \in Conns
      BY <1>4, <2>4 DEF RoomForget, HostOwns, TypeInv, TypeOK, PoolType
    <3>2. Gathering!Leave(fd)
      BY <2>1, <2>2, <3>1 DEF Gathering!Leave, Outside
    <3> QED
      BY <3>1, <3>2 DEF Gathering!Next
  <2> QED
    BY <2>3, <2>4
<1>5. CASE RoomClear
  <2>1. Outside' = Outside
    BY <1>5, OutsideKept DEF RoomClear, NextHandle, LobbyClose, AcceptCreate, AcceptJoin,
       AcceptRefuse, roomVars
  <2>2. activeFds' = {} /\ shutdown' = TRUE /\ Creator \in activeFds
    BY <1>5 DEF RoomClear, Core, CreatorComes, HeldArePast
  <2>3. ~shutdown
    BY <2>2 DEF Core, ClosedStaysEmpty
  <2> QED
    BY <2>1, <2>2, <2>3 DEF Gathering!Next, Gathering!End, Outside
<1>6. CASE /\ ~(\E c \in Conns : LobbyClose(c)) /\ ~AcceptCreate /\ ~AcceptJoin
           /\ ~AcceptRefuse /\ ~RoomForget /\ ~RoomClear
  BY <1>6, OutsideKept, MembersMove
<1> QED
  BY <1>1, <1>2, <1>3, <1>4, <1>5, <1>6

\* The room holds a meeting: joiners come in once, only the owner's exit ends
\* it, for all at once, and nobody comes in afterwards (userdeal.cpp 97-112,
\* 166-189; room.cpp 192-229, 240-282).
THEOREM HoldsMeeting == Spec => ImplementsMeeting
<1>1. Init => Gathering!Init
  <2>1. Init => \A c \in Conns : InLobby(c)
    BY DEF Init, InLobby
  <2> QED
    BY <2>1 DEF Init, Gathering!Init, Past
<1>2. Spec => []HostOwns
  <2>1. Init => HostOwns
    BY DEF Init, HostOwns
  <2>2. TypeInv /\ Core /\ HostOwns /\ [Next]_vars => HostOwns'
    BY HostStep
  <2> QED
    BY <2>1, <2>2, Typing, Inductive, PTL DEF Spec
<1>3. TypeInv /\ Core /\ BeforeStart /\ HostOwns /\ [Next]_vars
        => [Gathering!Next]_<<Outside, activeFds, shutdown>>
  BY MeetingStep
<1> QED
  BY <1>1, <1>2, <1>3, Typing, Inductive, StartsLast, PTL
     DEF Spec, ImplementsMeeting, Gathering!Spec, Outside
-----------------------------------------------------------------------------
(* The send queue while the owner is there.                                 *)

\* The queue serves, and no send thread retires.
InUse == ~shutdown => QueueServes /\ \A t \in SendThreads : sendPc[t] # "done"

\* The room thread leaves its loop, pills are pushed and send threads retire
\* only once the owner has left.
LEMMA InUseStep ==
  ASSUME TypeInv, InUse, [Next]_vars
  PROVE  InUse'
<1> SUFFICES ASSUME ~shutdown'
             PROVE  QueueServes' /\ \A t \in SendThreads : sendPc'[t] # "done"
  BY DEF InUse
<1>1. ~shutdown
  <2>1. UNCHANGED shutdown \/ RoomClear
    BY MembersMove DEF AcceptCreate, AcceptJoin, RoomForget, roomVars
  <2> QED
    BY <2>1 DEF RoomClear
<1>2. /\ ~shutdown_flag /\ send_queue \in Seq(Messages)
      /\ roomPc \notin {"pushX", "joinAccept", "joinSend", "done"}
      /\ \A t \in SendThreads : sendPc[t] # "done"
      /\ msg \in Messages /\ newMsg \in Messages
      /\ sendPc \in [SendThreads -> SendPcs]
  BY <1>1 DEF InUse, QueueServes, TypeInv, TypeOK, RoomType, AcceptType, SendType
<1>3. CASE UNCHANGED <<send_queue, shutdown_flag, roomPc, sendPc>>
  BY <1>2, <1>3 DEF QueueServes
<1> USE DEF queueVars, roomVars, acceptVars, sendVars
<1>4. CASE Create
  BY <1>2, <1>3, <1>4 DEF Create, CreatePublish, CreateHand, CreateStart, QueueServes
<1>5. CASE \E c \in Conns : Join(c) \/ LobbyClose(c)
  BY <1>3, <1>5 DEF Join, JoinLookup, JoinCheck, JoinHand, JoinRespond, LobbyClose
<1>6. ASSUME NEW t, NEW m \in Messages, PushMsg(t, m)
      PROVE  ~shutdown_flag' /\ send_queue' \in Seq(Messages)
  BY <1>2, <1>6, AppendProperties DEF PushMsg, PushDropped, Enqueue
<1>7. CASE Room
  <2>1. CASE RoomPush
    BY <1>2, <1>6, <2>1 DEF RoomPush, NextHandle, PushWait, Sleep, QueueServes
  <2>2. CASE Room /\ ~RoomPush
    <3>1. ~RoomClear /\ ~RoomPushX /\ ~RoomJoinAccept /\ ~RoomErase
      BY <1>2 DEF RoomClear, RoomPushX, RoomJoinAccept, RoomErase
    <3>2. UNCHANGED <<send_queue, shutdown_flag, sendPc>>
      BY <2>2, <3>1 DEF Room, RoomTop, RoomSelect, RoomSnapshot, RoomPassEnd, RoomHead, RoomHeadRest, HeadUnchanged,
         RoomBody, RoomForget, RoomClose
    <3>3. ASSUME (\E c \in Conns : RoomHead(c)) \/ RoomHeadRest
          PROVE  roomPc' \in {"pass", "fdclose", "head", "body"}
      BY <3>3 DEF RoomHead, RoomHeadRest, TakeHead, NextHandle
    <3>4. roomPc' \notin {"pushX", "joinAccept", "joinSend", "done"}
      BY <1>1, <2>2, <3>1, <3>3 DEF Room, RoomTop, RoomSelect, RoomSnapshot, RoomPassEnd,
         RoomBody, RoomForget, RoomClose
    <3> QED
      BY <1>2, <3>2, <3>4 DEF QueueServes
  <2> QED
    BY <1>7, <2>1, <2>2
<1>8. CASE Accept
  <2>1. CASE AcceptPush
    BY <1>2, <1>6, <2>1 DEF AcceptPush, PushWait, Sleep, QueueServes
  <2> QED
    BY <1>3, <1>8, <2>1 DEF Accept, AcceptTake, AcceptCreate, AcceptJoin, AcceptRefuse,
       AcceptIps
<1>9. CASE \E t \in SendThreads : Send(t)
  <2> SUFFICES ASSUME NEW t \in SendThreads, Send(t)
               PROVE  QueueServes' /\ \A u \in SendThreads : sendPc'[u] # "done"
    BY <1>9
  <2>1. UNCHANGED roomPc
    BY DEF Send, SendPop, SendResolve, Write, SendWrite
  <2>2. CASE SendPop(t)
    <3>1. CASE PopWait(t) /\ UNCHANGED <<sendPc, sendMsg>>
      BY <1>3, <2>1, <3>1 DEF PopWait, Sleep
    <3>2. CASE PopMsg(t) /\ ~(PopWait(t) /\ UNCHANGED <<sendPc, sendMsg>>)
      <4>1. /\ send_queue # <<>> /\ send_queue' = Tail(send_queue)
            /\ UNCHANGED shutdown_flag
        BY <1>2, <3>2 DEF PopMsg, PopNothing, Dequeue, Empty
      <4>2. Head(send_queue) \in Messages /\ send_queue' \in Seq(Messages)
        BY <1>2, <4>1, HeadTailProperties
      <4>3. sendPc' = [sendPc EXCEPT ![t] = "resolve"]
        BY <2>2, <3>2, <4>1, <4>2, PillAssumption DEF SendPop, Empty
      <4> QED
        BY <1>2, <2>1, <4>1, <4>2, <4>3 DEF QueueServes
    <3> QED
      BY <2>2, <3>1, <3>2 DEF SendPop
  <2>3. CASE SendResolve(t) \/ Write(t)
    BY <1>2, <2>1, <2>3 DEF SendResolve, Write, SendWrite, Remaining, QueueServes
  <2> QED
    BY <2>2, <2>3 DEF Send
<1>10. CASE \E c \in Conns : Client(c)
  BY <1>3, <1>10 DEF Client, ClientHead, ClientRest, ClientClose
<1>11. CASE UNCHANGED vars
  BY <1>3, <1>11 DEF vars
<1> QED
  BY <1>4, <1>5, <1>7, <1>8, <1>9, <1>10, <1>11 DEF Next

\* As InUse, for every state.
LEMMA Used == Spec => []InUse
<1>1. Init => InUse
  BY DEF Init, QueueInit, InUse, QueueServes
<1>2. TypeInv /\ InUse /\ [Next]_vars => InUse'
  BY InUseStep
<1> QED
  BY <1>1, <1>2, Typing, PTL DEF Spec

\* The send threads awake, and the sizes NeverJams speaks of.
Awake == SendThreads \ waiting

LEMMA AwakeSizes ==
  ASSUME TypeInv
  PROVE  /\ Len(send_queue) \in Nat /\ MAXSIZE \in Nat \ {0}
         /\ Cardinality(SendThreads) \in Nat
         /\ Cardinality(Awake) \in Nat
         /\ Cardinality(Awake) <= Cardinality(SendThreads)
         /\ waiting \cap SendThreads # {} => Cardinality(Awake) < Cardinality(SendThreads)
         /\ \A t \in waiting \cap SendThreads :
              Cardinality(Awake \cup {t}) = Cardinality(Awake) + 1
<1> USE RoomAssumption, SizeAssumption
<1>1. IsFiniteSet(SendThreads) /\ IsFiniteSet(Awake)
  BY FS_Subset DEF Awake
<1>2. Cardinality(SendThreads) \in Nat /\ Cardinality(Awake) \in Nat
  BY <1>1, FS_CardinalityType
<1>3. Cardinality(Awake) <= Cardinality(SendThreads)
  BY <1>1, FS_Subset DEF Awake
<1>4. ASSUME NEW t \in waiting \cap SendThreads
      PROVE  /\ Cardinality(Awake \cup {t}) = Cardinality(Awake) + 1
             /\ Cardinality(Awake) < Cardinality(SendThreads)
  <2>1. t \notin Awake /\ Awake \cup {t} \subseteq SendThreads
    BY DEF Awake
  <2>2. Cardinality(Awake \cup {t}) = Cardinality(Awake) + 1
    BY <1>1, <2>1, FS_AddElement
  <2>3. Cardinality(Awake \cup {t}) <= Cardinality(SendThreads)
    BY <1>1, <2>1, FS_Subset
  <2> QED
    BY <1>2, <2>2, <2>3
<1>5. Len(send_queue) \in Nat
  BY DEF TypeInv, TypeOK, QueueType
<1> QED
  BY <1>2, <1>3, <1>4, <1>5

\* Who sleeps and how full the queue is: NeverJams for a room with its owner.
Balanced ==
  /\ waiting \cap SendThreads # {} => Len(send_queue) <= Cardinality(Awake)
  /\ waiting \ SendThreads # {} =>
       waiting \cap SendThreads = {} /\ Len(send_queue) + 1 >= MAXSIZE
  /\ {RoomThread, AcceptThread} \subseteq waiting => Full

\* A frame is pushed, and somebody is woken: a send thread if one sleeps, the
\* other of the pushing threads otherwise.
LEMMA BalancedPush ==
  ASSUME TypeInv, TypeInv', Balanced, NEW t \in {RoomThread, AcceptThread}, NEW m,
         Enqueue(t, m), NotifyOne
  PROVE  Balanced'
<1> USE RoomAssumption
<1>1. t \notin waiting /\ ~Full /\ Len(send_queue') = Len(send_queue) + 1
  <2>1. send_queue \in Seq(Messages \cup {Pill}) /\ send_queue' = Append(send_queue, m)
    BY DEF Enqueue, TypeInv, TypeOK, QueueType
  <2> QED
    BY <2>1 DEF Enqueue
<1>2. waiting \subseteq {RoomThread, AcceptThread} \cup SendThreads
  BY DEF TypeInv, TypeOK, QueueType
<1>3. CASE waiting' = {}
  BY <1>3 DEF Balanced
<1>4. ASSUME NEW u \in waiting \cap SendThreads, waiting' = waiting \ {u} PROVE Balanced'
  <2>1. waiting \ SendThreads = {}
    BY <1>4 DEF Balanced
  <2>2. waiting' \ SendThreads = {} /\ ~({RoomThread, AcceptThread} \subseteq waiting')
    BY <1>4, <2>1
  <2>3. Awake' = Awake \cup {u}
    BY <1>4 DEF Awake
  <2>4. Len(send_queue') <= Cardinality(Awake')
    BY <1>1, <1>4, <2>3, AwakeSizes DEF Balanced
  <2> QED
    BY <2>2, <2>4 DEF Balanced
<1>5. ASSUME NEW u \in waiting \ SendThreads, waiting' = waiting \ {u} PROVE Balanced'
  <2>1. waiting \cap SendThreads = {}
    BY <1>5 DEF Balanced
  <2>2. waiting' = {}
    BY <1>1, <1>2, <1>5, <2>1
  <2> QED
    BY <1>3, <2>2
<1> QED
  BY <1>3, <1>4, <1>5 DEF NotifyOne

\* A frame is popped, and somebody is woken.
LEMMA BalancedPop ==
  ASSUME TypeInv, TypeInv', Balanced, NEW t \in SendThreads, Dequeue(t), NotifyOne
  PROVE  Balanced'
<1> USE RoomAssumption
<1>1. /\ Len(send_queue) \in Nat /\ Len(send_queue') \in Nat
      /\ Len(send_queue') = Len(send_queue) - 1
  <2>1. /\ send_queue \in Seq(Messages \cup {Pill}) /\ send_queue # <<>>
        /\ send_queue' = Tail(send_queue)
    BY DEF Dequeue, Empty, TypeInv, TypeOK, QueueType
  <2> QED
    BY <2>1, HeadTailProperties, LenProperties, EmptySeq
<1>2. waiting \subseteq {RoomThread, AcceptThread} \cup SendThreads
  BY DEF TypeInv, TypeOK, QueueType
<1>3. CASE waiting' = {}
  BY <1>3 DEF Balanced
<1>4. ASSUME NEW u \in waiting \cap SendThreads, waiting' = waiting \ {u} PROVE Balanced'
  <2>1. waiting \ SendThreads = {}
    BY <1>4 DEF Balanced
  <2>2. waiting' \ SendThreads = {} /\ ~({RoomThread, AcceptThread} \subseteq waiting')
    BY <1>4, <2>1
  <2>3. Awake' = Awake \cup {u}
    BY <1>4 DEF Awake
  <2>4. Len(send_queue') <= Cardinality(Awake')
    BY <1>1, <1>4, <2>3, AwakeSizes DEF Balanced
  <2> QED
    BY <2>2, <2>4 DEF Balanced
<1>5. ASSUME NEW u \in waiting \ SendThreads, waiting' = waiting \ {u}, waiting' # {}
      PROVE  Balanced'
  <2>1. waiting \cap SendThreads = {}
    BY <1>5 DEF Balanced
  <2>2. {RoomThread, AcceptThread} \subseteq waiting
    BY <1>2, <1>5, <2>1
  <2>3. Len(send_queue) >= MAXSIZE
    BY <2>2 DEF Balanced, Full
  <2>4. Len(send_queue') + 1 >= MAXSIZE
    BY <1>1, <2>3, AwakeSizes
  <2>5. waiting' \cap SendThreads = {} /\ ~({RoomThread, AcceptThread} \subseteq waiting')
    BY <1>5, <2>1, <1>2
  <2> QED
    BY <2>4, <2>5 DEF Balanced
<1> QED
  BY <1>3, <1>4, <1>5 DEF NotifyOne

\* A pushing thread falls asleep before a full queue: with places for more
\* than the send threads, none of those sleeps.
LEMMA BalancedPushWait ==
  ASSUME TypeInv, Roomy, Balanced, NEW t \in {RoomThread, AcceptThread}, PushWait(t)
  PROVE  Balanced'
<1> USE RoomAssumption
<1>1. /\ Len(send_queue) >= MAXSIZE /\ waiting' = waiting \cup {t}
      /\ send_queue' = send_queue
  BY DEF PushWait, Sleep, Full
<1>2. waiting \cap SendThreads = {}
  <2> SUFFICES ASSUME waiting \cap SendThreads # {} PROVE FALSE
    OBVIOUS
  <2>1. Len(send_queue) <= Cardinality(Awake)
    BY DEF Balanced
  <2> QED
    BY <1>1, <2>1, AwakeSizes DEF Roomy
<1>3. waiting' \cap SendThreads = {}
  BY <1>1, <1>2
<1>4. Len(send_queue') + 1 >= MAXSIZE /\ Full'
  BY <1>1, AwakeSizes DEF Full
<1> QED
  BY <1>3, <1>4 DEF Balanced

\* A send thread falls asleep before an empty queue: no pushing thread sleeps.
LEMMA BalancedPopWait ==
  ASSUME TypeInv, Roomy, Balanced, NEW t \in SendThreads, PopWait(t)
  PROVE  Balanced'
<1> USE RoomAssumption
<1>1. send_queue = <<>> /\ send_queue' = send_queue /\ waiting' = waiting \cup {t}
      /\ t \notin waiting
  BY DEF PopWait, Sleep, Empty
<1>2. Len(send_queue) = 0
  BY <1>1
<1>3. Cardinality(SendThreads) > 0
  <2>1. SendThreads # {}
    OBVIOUS
  <2> QED
    BY <2>1, AwakeSizes, FS_EmptySet
<1>4. waiting \ SendThreads = {}
  <2> SUFFICES ASSUME waiting \ SendThreads # {} PROVE FALSE
    OBVIOUS
  <2>1. Len(send_queue) + 1 >= MAXSIZE
    BY DEF Balanced
  <2> QED
    BY <1>2, <1>3, <2>1, AwakeSizes DEF Roomy
<1>5. waiting' \ SendThreads = {} /\ ~({RoomThread, AcceptThread} \subseteq waiting')
  BY <1>1, <1>4
<1>6. Len(send_queue') <= Cardinality(Awake')
  <2>1. IsFiniteSet(Awake')
    BY FS_Subset DEF Awake
  <2> QED
    BY <1>1, <1>2, <2>1, FS_CardinalityType
<1> QED
  BY <1>5, <1>6 DEF Balanced

\* Every step keeps the balance as long as the owner is there.
LEMMA BalancedStep ==
  ASSUME TypeInv, TypeInv', InUse, Roomy, ~shutdown => Balanced, [Next]_vars
  PROVE  ~shutdown' => Balanced'
<1> SUFFICES ASSUME ~shutdown' PROVE Balanced'
  OBVIOUS
<1>1. ~shutdown
  <2>1. UNCHANGED shutdown \/ RoomClear
    BY MembersMove DEF AcceptCreate, AcceptJoin, RoomForget, roomVars
  <2> QED
    BY <2>1 DEF RoomClear
<1>2. Balanced /\ ~shutdown_flag /\ roomPc # "joinAccept"
  BY <1>1 DEF InUse, QueueServes
<1>3. CASE UNCHANGED queueVars
  BY <1>2, <1>3 DEF queueVars, Balanced, Awake, Full
<1>4. ASSUME NEW t \in {RoomThread, AcceptThread}, NEW m, PushMsg(t, m) PROVE Balanced'
  BY <1>2, <1>3, <1>4, BalancedPush DEF PushMsg, PushDropped
<1>5. CASE Room
  <2>1. ~RoomClear /\ ~RoomJoinAccept
    BY <1>2, <1>1 DEF RoomClear, RoomJoinAccept
  <2> QED
    BY <1>2, <1>3, <1>4, <1>5, <2>1, BalancedPushWait DEF Room, RoomTop, RoomSelect,
       RoomSnapshot, RoomPassEnd, RoomHead, RoomHeadRest, HeadUnchanged, RoomBody, RoomPush, RoomForget, RoomClose,
       RoomPushX, RoomErase
<1>6. CASE Accept
  BY <1>2, <1>3, <1>4, <1>6, BalancedPushWait DEF Accept, AcceptTake, AcceptCreate,
     AcceptJoin, AcceptRefuse, AcceptPush, AcceptIps
<1>7. ASSUME NEW t \in SendThreads, Send(t) PROVE Balanced'
  <2>1. CASE SendPop(t)
    BY <1>2, <1>3, <2>1, BalancedPop, BalancedPopWait DEF SendPop, PopMsg, PopNothing
  <2>2. CASE SendResolve(t) \/ Write(t)
    BY <1>3, <2>2 DEF SendResolve, Write, SendWrite
  <2> QED
    BY <1>7, <2>1, <2>2 DEF Send
<1>8. CASE Create \/ \E c \in Conns : Join(c) \/ LobbyClose(c)
  BY <1>3, <1>8 DEF Create, CreatePublish, CreateHand, CreateStart, Join, JoinLookup,
     JoinCheck, JoinHand, JoinRespond, LobbyClose
<1>9. CASE \E c \in Conns : Client(c)
  BY <1>3, <1>9 DEF Client, ClientHead, ClientRest, ClientClose
<1>10. CASE UNCHANGED vars
  BY <1>3, <1>10 DEF vars
<1> QED
  BY <1>5, <1>6, <1>7, <1>8, <1>9, <1>10 DEF Next

\* With places for more frames than there are send threads, the one condition
\* variable of the send queue never leaves the threads of a room waiting for
\* one another while the owner is there (msg.h 51-82; room.cpp 107-125, 225,
\* 264-319, 332).
THEOREM Flowing == ASSUME Roomy PROVE Spec => []NeverJams
<1>1. Init => (~shutdown => Balanced)
  BY DEF Init, QueueInit, Balanced
<1>2. TypeInv /\ TypeInv' /\ InUse /\ (~shutdown => Balanced) /\ [Next]_vars
        => (~shutdown => Balanced)'
  BY BalancedStep
<1>3. InUse /\ (~shutdown => Balanced) => NeverJams
  BY DEF InUse, Balanced, NeverJams, Awake
<1> QED
  BY <1>1, <1>2, <1>3, Typing, Used, PTL DEF Spec
=============================================================================
