------------------------------- MODULE Roster -------------------------------
(***************************************************************************)
(* A room together with what its clients show: the map partner of each      *)
(* client's Widget (widget.cpp), which is filled and emptied by the frames  *)
(* the send threads write and by the answer of the acceptor.                *)
(*                                                                          *)
(* A connection delivers frames in the order they are written to it, and    *)
(* datasolve handles them one by one; partner depends on that sequence      *)
(* only, so the view of a client changes here at the moment of the write.   *)
(***************************************************************************)
EXTENDS Room

VARIABLE
  partner           \* addresses each client shows as users of its meeting

rosterVars == <<vars, partner>>

RosterInit == Init /\ partner = [c \in Conns |-> {}]

\* Mutant: PARTNER_JOIN2 replaces the list.
MutantShown(shown, m, self) ==
  CASE m.type = "CREATE_MEETING_RESPONSE" -> shown \cup {self}
    [] m.type = "PARTNER_EXIT" -> shown \ m.ips
    [] m.type = "PARTNER_JOIN2" -> m.ips
    [] m.type \in {"PARTNER_JOIN", "MEDIA"} -> shown \cup m.ips
    [] OTHER -> shown

\* What datasolve makes of a frame.  A picture from an unknown address adds a
\* partner, as PARTNER_JOIN and PARTNER_JOIN2 do; CLOSE_CAMERA adds none.
Shown(shown, m, self) ==
  CASE m.type = "CREATE_MEETING_RESPONSE" -> shown \cup {self}
    [] m.type = "PARTNER_EXIT" -> shown \ m.ips
    [] m.type \in {"PARTNER_JOIN", "PARTNER_JOIN2", "MEDIA"} -> shown \cup m.ips
    [] OTHER -> shown

\* The frame reaches the client if its handle is still open.
Deliver(t, c) ==
  /\ SendWrite(t, c)
  /\ partner' = IF c \in open
                  THEN [partner EXCEPT ![c] = Shown(@, sendMsg[t], IpOf[c])]
                  ELSE partner

\* JOIN_MEETING_RESPONSE with the room number: the client adds itself.
Admit(c) ==
  /\ JoinRespond(c)
  /\ partner' = IF c \in open
                  THEN [partner EXCEPT ![c] = @ \cup {IpOf[c]}]
                  ELSE partner

RosterNext ==
  \/ \E t \in SendThreads, c \in Conns : Deliver(t, c)
  \/ \E c \in Conns : Admit(c)
  \/ /\ \/ Create
        \/ \E c \in Conns : JoinLookup(c) \/ JoinCheck(c) \/ JoinHand(c) \/ LobbyClose(c)
        \/ Room
        \/ Accept
        \/ \E t \in SendThreads : SendPop(t) \/ SendResolve(t)
        \/ \E c \in Conns : Client(c)
     /\ UNCHANGED partner

RosterSpec == RosterInit /\ [][RosterNext]_rosterVars

\* The fairness of Room, for the same threads.
RosterFairness ==
  /\ WF_rosterVars(Create /\ UNCHANGED partner)
  /\ \A c \in Conns :
       /\ WF_rosterVars(Admit(c) \/ ((JoinCheck(c) \/ JoinHand(c)) /\ UNCHANGED partner))
       /\ WF_rosterVars(LobbyClose(c) /\ UNCHANGED partner)
  /\ WF_rosterVars(Room /\ UNCHANGED partner)
  /\ WF_rosterVars(Accept /\ UNCHANGED partner)
  /\ \A t \in SendThreads :
       WF_rosterVars(((SendPop(t) \/ SendResolve(t)) /\ UNCHANGED partner)
                       \/ \E c \in Conns : Deliver(t, c))

RosterFairSpec == RosterSpec /\ RosterFairness

-----------------------------------------------------------------------------
(* Properties.                                                              *)

\* No frame about the members is under way.
Settled ==
  /\ acceptPc \in {"wait", "create", "join"}
  /\ Empty
  /\ \A t \in SendThreads : sendPc[t] = "pop"

\* Members that have heard the answer to their join.
Present == {c \in activeFds : answer[c] = "room"}

\* Clients behind one router have one address, and partner one entry for them.
NamesakeIsOut(c) == \E x \in Conns : Out(x) /\ IpOf[x] = IpOf[c]

\* A room number that was guessed lets a joiner in before the creator, and
\* then neither of the two hears of the other.
Introduced(c, d) == IdsSecret \/ Creator \notin {c, d}

\* When all is settled, every member shows every member, whichever order the
\* send threads wrote the frames in and whoever left meanwhile, unless one
\* that left had the same address (room.cpp 284-319, 385-416; widget.cpp
\* 1014-1071).
NobodyMissing ==
  Settled => \A c, d \in Present :
    c = d \/ Introduced(c, d) => IpOf[d] \in partner[c] \/ NamesakeIsOut(d)

\* Two members come to show each other, unless one of them leaves.
MembersMeet ==
  \A c, d \in Conns :
    (c \in activeFds /\ d \in activeFds) ~>
       \/ c \notin activeFds \/ d \notin activeFds
       \/ IpOf[c] \in partner[d] /\ IpOf[d] \in partner[c]

-----------------------------------------------------------------------------
(* The inductive invariant behind NobodyMissing.                            *)

\* A client shows addresses.
RosterType == partner \in [Conns -> SUBSET Ips]

\* A frame that shows d to c once it has reached c.
Shows(m, c, d) ==
  /\ IpOf[d] \in m.ips
  /\ \/ m.type = "PARTNER_JOIN" /\ m.target # c
     \/ m.type = "PARTNER_JOIN2" /\ m.target = c

\* The accept thread is to push such a frame: PARTNER_JOIN of d, or
\* PARTNER_JOIN2 for c, now or after the PARTNER_JOIN of c.
Announced(c, d) ==
  \/ acceptPc = "push" /\ Shows(newMsg, c, d)
  \/ acceptPc = "push" /\ newMsg.type = "PARTNER_JOIN" /\ newFd = c
  \/ acceptPc = "ips" /\ newFd = c

\* It is queued, or a send thread has it for c.
Queued(c, d) == \E i \in 1..Len(send_queue) : Shows(send_queue[i], c, d)
Sending(c, d) ==
  \E t \in SendThreads :
    /\ Shows(sendMsg[t], c, d)
    /\ \/ sendPc[t] = "resolve"
       \/ sendPc[t] = "write" /\ c \in targets[t]

UnderWay(c, d) == Announced(c, d) \/ Queued(c, d) \/ Sending(c, d)

\* PARTNER_EXIT is about those that are out, and the creator has been
\* registered when it is answered.
Truthful(m) ==
  /\ m.type = "CREATE_MEETING_RESPONSE" => Past(Creator)
  /\ m.type = "PARTNER_EXIT" => \A c \in Conns : IpOf[c] \in m.ips => NamesakeIsOut(c)

AllTruthful ==
  /\ Truthful(msg) /\ Truthful(newMsg)
  /\ \A i \in 1..Len(send_queue) : Truthful(send_queue[i])
  /\ \A t \in SendThreads : Truthful(sendMsg[t])

AddressesKnown == \A c \in activeFds : c \in DOMAIN fdToIp /\ fdToIp[c] = IpOf[c]

\* Until the creator is registered nobody has the number of the room.
CreatorFirst ==
  IdsSecret /\ ~Past(Creator) =>
    /\ answer[Creator] # "room" /\ activeFds = {}
    /\ \A c \in Conns \ {Creator} :
         lobby[c] \in {"lobby", "left"} /\ ~InQueue(c) /\ ~InHands(c)

SelfShown ==
  \A c \in Conns : answer[c] = "room" => IpOf[c] \in partner[c] \/ NamesakeIsOut(c)

OthersShown ==
  \A c, d \in activeFds : c # d /\ Introduced(c, d) =>
    IpOf[d] \in partner[c] \/ NamesakeIsOut(d) \/ UnderWay(c, d)

\* Every step keeps it, in a state of Core; a closed room has no members.
Meets ==
  ~shutdown =>
    /\ AllTruthful /\ QueueServes /\ AddressesKnown /\ CreatorFirst
    /\ SelfShown /\ OthersShown
=============================================================================
