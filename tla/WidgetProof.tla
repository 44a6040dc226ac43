---------------------------- MODULE WidgetProof ----------------------------
(***************************************************************************)
(* The window of the client, for any set of other members and any number of *)
(* requests and signals on their way: the invariants of Widget, each with   *)
(* the strengthening it needs.                                              *)
(***************************************************************************)
EXTENDS Widget, FiniteSetTheorems, SequenceTheorems, TLAPS

-----------------------------------------------------------------------------
(* Types, one part for each group of variables.                             *)

Keys == Others \cup {Own, Unconnected, NoSocket}

EnabledType == enabled \subseteq Buttons
RoomType == /\ createmeet \in BOOLEAN /\ joinmeet \in BOOLEAN
            /\ Shown \subseteq Keys
            /\ partner \in [Shown -> {"tile", "null"}]
            /\ iplist \in [Others -> Nat]
EarlyType == early \in BOOLEAN
SoundType == /\ audioText \in {"open", "close"} /\ collecting \in BOOLEAN
             /\ playing \in BOOLEAN /\ overrun \in BOOLEAN
MicType == micPosted \in Seq({"start", "stop"}) /\ Len(micPosted) <= MaxMic
NetType == /\ net \in {"closed", "open", "lost", "silent"}
           /\ place \in {"none", "lobby", "joining", "room"}
AskedType == asked \in Seq(Requests) /\ Len(asked) <= MaxAsked
SmallType == /\ camera \in {"off", "on", "late"} /\ text \in {"none", "sending", "over"}
             /\ modal \in {"none", "connected"}
             /\ solving \in {"none", "created", "joined", "missing", "error"}
             /\ broken \in {"no", "error", "underBox"}
HandedType == handed \in Messages \cup {Nothing} /\ news \in Losses \cup {Nothing}

Typed == /\ EnabledType /\ RoomType /\ EarlyType /\ SoundType /\ MicType /\ NetType
         /\ AskedType /\ SmallType /\ HandedType

\* The parts imply the type invariant.
LEMMA TypedIsTypeOK == Typed => TypeOK
BY DEF Keys, Typed, TypeOK, EnabledType, RoomType, EarlyType, SoundType, MicType, NetType, AskedType,
       SmallType, HandedType

\* The initial state is well typed.
LEMMA InitTyped == Init => Typed
<1> SUFFICES ASSUME Init PROVE Typed
  OBVIOUS
<1>1. \A S : <<>> \in Seq(S)
  OBVIOUS
<1>2. EnabledType /\ MicType /\ NetType /\ AskedType /\ SmallType /\ HandedType
  BY <1>1, WidgetAssumption DEF Init, EnabledType, MicType, NetType, AskedType, SmallType,
     HandedType, Buttons
<1>3. createmeet \in BOOLEAN /\ joinmeet \in BOOLEAN /\ EarlyType /\ SoundType
  <2>1. createmeet = FALSE /\ joinmeet = FALSE /\ collecting = FALSE /\ playing = FALSE
        /\ overrun = FALSE /\ early = FALSE
    BY Zenon DEF Init
  <2>2. audioText = "open"
    BY DEF Init
  <2> QED
    BY <2>1, <2>2 DEF SoundType, EarlyType
<1>4. RoomType
  BY <1>3 DEF Init, RoomType, Shown, Keys
<1> QED
  BY <1>2, <1>3, <1>4 DEF Typed

\* The buttons.
LEMMA EnabledTyped ==
  ASSUME EnabledType, Next
  PROVE  EnabledType'
<1> USE DEF EnabledType, Buttons
<1>1. CASE Button
  BY <1>1 DEF Button, Connect, ConnectedSeen, CreateMeeting, JoinMeeting, ExitMeeting,
     OpenVedio, OpenAudio, Sendmsg
<1>2. CASE DatasolveExit
  BY <1>2 DEF DatasolveExit, RemovePartner
<1>3. CASE DatasolveJoin
  BY <1>3 DEF DatasolveJoin, ForCompany
<1>4. CASE DatasolveImg \/ DatasolveShow \/ DatasolveClosed \/ DatasolveAsks
  BY <1>4 DEF DatasolveImg, DatasolveShow, DatasolveClosed, DatasolveAsks, ForCompany
<1>5. CASE AnsweredCreated \/ AnsweredJoined \/ AnsweredMissing \/ AnsweredError
  BY <1>5 DEF AnsweredCreated, AnsweredJoined, AnsweredMissing, AnsweredError, ForCompany
<1>6. CASE Event
  BY <1>6 DEF Event, CameraImageCapture, Collect, TextGone, FrameDropped, TextSend
<1>7. CASE Server
  BY <1>7 DEF Server, Answer, AnswerJoined, MemberSends, Lose, TakeNews, ServerUnchanged
<1> QED
  BY <1>1, <1>2, <1>3, <1>4, <1>5, <1>6, <1>7 DEF Next, Datasolve

\* Messages are of the kinds datasolve knows.
LEMMA HandedTyped ==
  ASSUME HandedType, Next
  PROVE  HandedType'
<1> USE DEF HandedType
<1>1. CASE Button
  BY <1>1 DEF Button, Connect, ConnectedSeen, CreateMeeting, JoinMeeting, ExitMeeting,
     OpenVedio, OpenAudio, Sendmsg, Messages, Disconnect, netVars
<1>2. CASE Datasolve
  BY <1>2 DEF Datasolve, DatasolveImg, DatasolveJoin, DatasolveExit, DatasolveShow,
     DatasolveClosed, DatasolveAsks, AnsweredCreated, AnsweredJoined, AnsweredMissing,
     AnsweredError, Answered, Unasked, Disconnect, netVars
<1>3. CASE Event
  BY <1>3 DEF Event, CameraImageCapture, Collect, TextGone, FrameDropped, TextSend, netVars
<1>4. CASE Server
  <2>1. \A k \in {"created", "joined", "missing", "show"} : [kind |-> k] \in Messages
    BY DEF Messages, FromMember, Responses
  <2> QED
    BY <1>4, <2>1 DEF Server, Answer, AnswerJoined, MemberSends, Lose, TakeNews, ServerUnchanged,
       Sends, Messages, netVars
<1> QED
  BY <1>1, <1>2, <1>3, <1>4 DEF Next

\* The socket, the boxes, the camera and the text.
LEMMA SmallTyped ==
  ASSUME SmallType, NetType, Next
  PROVE  SmallType' /\ NetType'
<1> USE DEF SmallType, NetType, audioVars, roomVars, netVars, boxVars
<1>1. CASE Button
  BY <1>1 DEF Button, Connect, ConnectedSeen, CreateMeeting, JoinMeeting, ExitMeeting,
     OpenVedio, OpenAudio, Sendmsg, CameraStops, Disconnect
<1>2. CASE Datasolve
  BY <1>2 DEF Datasolve, DatasolveImg, DatasolveJoin, DatasolveExit, DatasolveShow,
     DatasolveClosed, DatasolveAsks, AnsweredCreated, AnsweredJoined, AnsweredMissing,
     AnsweredError, Answered, Unasked, Disconnect
<1>3. CASE Event
  BY <1>3 DEF Event, CameraImageCapture, Collect, TextGone, FrameDropped, TextSend
<1>4. CASE Server
  BY <1>4 DEF Server, Answer, AnswerJoined, MemberSends, Lose, TakeNews, ServerUnchanged
<1> QED
  BY <1>1, <1>2, <1>3, <1>4 DEF Next

\* Requests and signals on their way.
LEMMA PostedTyped ==
  ASSUME MicType, AskedType, Next
  PROVE  MicType' /\ AskedType'
<1> USE DEF audioVars, roomVars, netVars, boxVars
<1>a. asked' = asked => AskedType'
  BY DEF AskedType
<1>b. ASSUME Disconnect PROVE AskedType'
  <2>1. PICK n \in 1..(Len(asked) + 1) : asked' = SubSeq(asked, n, Len(asked))
    BY <1>b DEF Disconnect
  <2>2. asked \in Seq(Requests) /\ Len(asked) \in Nat
    BY DEF AskedType
  <2>3. /\ asked' \in Seq(Requests)
        /\ Len(asked') = IF n <= Len(asked) THEN Len(asked) - n + 1 ELSE 0
    BY <2>1, <2>2, SubSeqProperties
  <2> QED
    BY <2>2, <2>3, WidgetAssumption DEF AskedType
<1>e. <<>> \in Seq(Requests) /\ Len(<<>>) = 0
  OBVIOUS
<1>f. asked' = <<>> => AskedType'
  BY <1>e, WidgetAssumption DEF AskedType
<1>c. asked # <<>> /\ asked' = Tail(asked) => AskedType'
  BY WidgetAssumption DEF AskedType
<1>d. micPosted' = micPosted => MicType'
  BY DEF MicType
<1>1. CASE CreateMeeting \/ JoinMeeting
  BY <1>1, <1>d, WidgetAssumption DEF CreateMeeting, JoinMeeting, Requests, AskedType
<1>2. CASE OpenAudio
  BY <1>2, <1>a, WidgetAssumption DEF OpenAudio, MicType
<1>3. CASE \/ Connect \/ ConnectedSeen \/ ExitMeeting \/ OpenVedio \/ Sendmsg
  <2>1. UNCHANGED micPosted
    BY <1>3 DEF Connect, ConnectedSeen, ExitMeeting, OpenVedio, Sendmsg
  <2>2. asked' = asked \/ Disconnect
    BY <1>3 DEF Connect, ConnectedSeen, ExitMeeting, OpenVedio, Sendmsg
  <2> QED
    BY <1>a, <1>b, <1>d, <2>1, <2>2
<1>4. CASE Datasolve
  <2>1. UNCHANGED micPosted
    BY <1>4 DEF Datasolve, DatasolveImg, DatasolveJoin, DatasolveExit, DatasolveShow,
       DatasolveClosed, DatasolveAsks, AnsweredCreated, AnsweredJoined, AnsweredMissing,
       AnsweredError, Unasked
  <2>2. asked' = asked \/ Disconnect
    BY <1>4 DEF Datasolve, DatasolveImg, DatasolveJoin, DatasolveExit, DatasolveShow,
       DatasolveClosed, DatasolveAsks, AnsweredCreated, AnsweredJoined, AnsweredMissing,
       AnsweredError, Unasked
  <2> QED
    BY <1>a, <1>b, <1>d, <2>1, <2>2
<1>5. CASE Collect
  BY <1>5, <1>a, WidgetAssumption DEF Collect, MicType
<1>6. CASE CameraImageCapture \/ TextGone \/ FrameDropped \/ TextSend
  <2>1. UNCHANGED micPosted
    BY <1>6 DEF CameraImageCapture, TextGone, FrameDropped, TextSend
  <2>2. asked' = asked \/ asked' = <<>> \/ (asked # <<>> /\ asked' = Tail(asked))
    BY <1>6 DEF CameraImageCapture, TextGone, FrameDropped, TextSend
  <2> QED
    BY <1>a, <1>c, <1>d, <1>f, <2>1, <2>2
<1>7. CASE Server
  <2>1. UNCHANGED micPosted
    BY <1>7 DEF Server, Answer, AnswerJoined, MemberSends, Lose, TakeNews, ServerUnchanged
  <2>2. asked' = asked \/ (asked # <<>> /\ asked' = Tail(asked))
    BY <1>7 DEF Server, Answer, AnswerJoined, MemberSends, Lose, TakeNews
  <2> QED
    BY <1>a, <1>c, <1>d, <2>1, <2>2
<1> QED
  BY <1>1, <1>2, <1>3, <1>4, <1>5, <1>6, <1>7 DEF Next, Button, Event

\* The address of this client is one that an entry can have.
LEMMA KeyOfClient == NetType => getlocalip \in Keys
BY DEF getlocalip, Lost, NetType, Keys

\* What addPartner does for known addresses.
LEMMA AddTyped ==
  ASSUME RoomType, NEW ips \in SUBSET Keys, AddPartners(ips)
  PROVE  /\ Shown' = Shown \cup ips /\ Shown' \subseteq Keys
         /\ partner' \in [Shown' -> {"tile", "null"}]
BY DEF RoomType, AddPartners, Added, Shown

\* The tiles and the names.
LEMMA RoomTyped ==
  ASSUME RoomType, HandedType, NetType, Next
  PROVE  RoomType'
<1> USE DEF audioVars, roomVars, netVars, boxVars
<1>0. getlocalip \in Keys
  BY KeyOfClient
<1>1. CASE UNCHANGED <<createmeet, joinmeet, partner, iplist>>
  BY <1>1 DEF RoomType, Shown
<1>2. ASSUME partner' = [k \in {} |-> "tile"], createmeet' \in BOOLEAN, joinmeet' \in BOOLEAN,
             iplist' \in [Others -> Nat]
      PROVE  RoomType'
  <2>1. Shown' = {}
    BY <1>2 DEF Shown
  <2> QED
    BY <1>2, <2>1 DEF RoomType
<1>3. CASE ExitMeeting
  <2>1. createmeet' \in BOOLEAN /\ joinmeet' \in BOOLEAN
    BY <1>3, Zenon DEF ExitMeeting
  <2> QED
    BY <1>2, <1>3, <2>1 DEF ExitMeeting, ClearPartner
<1>4. CASE DatasolveClosed
  BY <1>2, <1>4 DEF DatasolveClosed, ClearPartner, RoomType
<1>5. CASE AnsweredError
  BY <1>2, <1>5 DEF AnsweredError, ClearPartner, RoomType
<1>6. CASE DatasolveImg
  <2>1. handed.ip \in Others
    BY <1>6 DEF DatasolveImg, Handing, HandedType, Messages, FromMember, Responses, Losses, Nothing
  <2>2. AddPartners({handed.ip}) /\ UNCHANGED <<createmeet, joinmeet, iplist>>
    BY <1>6 DEF DatasolveImg, Unasked
  <2> QED
    BY <2>1, <2>2, AddTyped DEF RoomType, Keys
<1>7. CASE DatasolveJoin
  <2> DEFINE ips == IF handed.kind = "join" THEN {handed.ip} ELSE handed.ips
  <2>1. ips \subseteq Others
    BY <1>7 DEF DatasolveJoin, Handing, HandedType, Messages, FromMember, Responses, Losses, Nothing
  <2>2. AddPartners(ips) /\ UNCHANGED <<createmeet, joinmeet>>
        /\ iplist' = [ip \in Others |-> iplist[ip] + IF ip \in ips \ Shown THEN 1 ELSE 0]
    BY <1>7 DEF DatasolveJoin, Unasked
  <2> HIDE DEF ips
  <2> QED
    BY <2>1, <2>2, AddTyped DEF RoomType, Keys
<1>8. CASE DatasolveExit
  <2>1. handed.ip \in Others
    BY <1>8 DEF DatasolveExit, Handing, HandedType, Messages, FromMember, Responses, Losses, Nothing
  <2>2. Shown' \subseteq Shown /\ partner' \in [Shown' -> {"tile", "null"}]
    BY <1>8 DEF DatasolveExit, RemovePartner, RoomType, Shown
  <2>3. iplist' \in [Others -> Nat] /\ UNCHANGED <<createmeet, joinmeet>>
    BY <1>8, <2>1 DEF DatasolveExit, RoomType, Unasked
  <2> QED
    BY <2>2, <2>3 DEF RoomType
<1>9. CASE AnsweredCreated \/ AnsweredJoined
  <2>1. createmeet' \in BOOLEAN
    BY <1>9, Zenon DEF AnsweredCreated, AnsweredJoined, RoomType
  <2>2. joinmeet' \in BOOLEAN
    BY <1>9, Zenon DEF AnsweredCreated, AnsweredJoined, RoomType
  <2>3. AddPartners({getlocalip}) /\ UNCHANGED iplist
    BY <1>9 DEF AnsweredCreated, AnsweredJoined
  <2> QED
    BY <1>0, <2>1, <2>2, <2>3, AddTyped DEF RoomType
<1>10. CASE AnsweredMissing
  <2>1. joinmeet' \in BOOLEAN
    BY <1>10, Zenon DEF AnsweredMissing
  <2> QED
    BY <1>10, <2>1 DEF AnsweredMissing, RoomType, Shown
<1>11. CASE CameraImageCapture
  <2>1. Shown' = Shown \cup {getlocalip} /\ partner' \in [Shown' -> {"tile", "null"}]
    BY <1>11 DEF CameraImageCapture, RoomType, Shown
  <2>2. UNCHANGED <<createmeet, joinmeet, iplist>>
    BY <1>11 DEF CameraImageCapture
  <2> QED
    BY <1>0, <2>1, <2>2 DEF RoomType
<1>12. CASE \/ Connect \/ ConnectedSeen \/ CreateMeeting \/ JoinMeeting \/ OpenVedio \/ OpenAudio
            \/ Sendmsg \/ DatasolveShow \/ DatasolveAsks \/ Collect \/ TextGone \/ FrameDropped
            \/ TextSend \/ Server
  BY <1>1, <1>12 DEF Connect, ConnectedSeen, CreateMeeting, JoinMeeting, OpenVedio, OpenAudio,
     Sendmsg, DatasolveShow, DatasolveAsks, Collect, TextGone, FrameDropped, TextSend, Unasked,
     Server, Answer, AnswerJoined, MemberSends, Lose, TakeNews, ServerUnchanged
<1> QED
  BY <1>3, <1>4, <1>5, <1>6, <1>7, <1>8, <1>9, <1>10, <1>11, <1>12 DEF Next, Button, Datasolve, Event

\* The history of the camera.
LEMMA EarlyTyped ==
  ASSUME EarlyType, Next
  PROVE  EarlyType'
<1> USE DEF EarlyType
<1>1. CASE UNCHANGED early
  BY <1>1
<1>2. CASE ExitMeeting \/ DatasolveClosed \/ AnsweredError
  BY <1>2, Zenon DEF ExitMeeting, DatasolveClosed, AnsweredError, ClearPartner
<1>3. CASE Connect
  BY <1>1, <1>3, Zenon DEF Connect
<1>4. CASE OpenVedio
  BY <1>1, <1>4, Zenon DEF OpenVedio
<1>5. CASE DatasolveExit
  BY <1>1, <1>5, Zenon DEF DatasolveExit, RemovePartner
<1>6. CASE \/ ConnectedSeen \/ CreateMeeting \/ JoinMeeting \/ OpenAudio \/ Sendmsg
           \/ DatasolveImg \/ DatasolveJoin \/ DatasolveShow \/ DatasolveAsks
           \/ AnsweredCreated \/ AnsweredJoined \/ AnsweredMissing \/ Event \/ Server
  BY <1>1, <1>6 DEF ConnectedSeen, CreateMeeting, JoinMeeting, OpenAudio, Sendmsg, DatasolveImg,
     DatasolveJoin, DatasolveShow, DatasolveAsks, AnsweredCreated, AnsweredJoined,
     AnsweredMissing, AddPartners, Unasked, Event, CameraImageCapture, Collect, TextGone,
     FrameDropped, TextSend, Server, Answer, AnswerJoined, MemberSends, Lose, TakeNews,
     ServerUnchanged, roomVars
<1> QED
  BY <1>2, <1>3, <1>4, <1>5, <1>6 DEF Next, Button, Datasolve

\* StopCollect sets both flags.
LEMMA StopTyped == StopCollect => collecting' \in BOOLEAN /\ overrun' \in BOOLEAN
BY Zenon DEF StopCollect, Posted

\* Microphone and speaker.
LEMMA SoundTyped ==
  ASSUME SoundType, Next
  PROVE  SoundType'
<1> USE DEF audioVars, roomVars, netVars, boxVars
<1>1. CASE UNCHANGED <<audioText, collecting, playing, overrun>>
  BY <1>1 DEF SoundType
<1>2. ASSUME NEW ips, AddPartners(ips), UNCHANGED <<audioText, collecting, overrun>>
      PROVE  SoundType'
  <2>1. playing' \in BOOLEAN
    BY <1>2, Zenon DEF AddPartners
  <2> QED
    BY <1>2, <2>1 DEF SoundType
<1>3. ASSUME ClearPartner
      PROVE  SoundType'
  <2>1. CASE Shown = {}
    BY <1>1, <1>3, <2>1 DEF ClearPartner
  <2>2. CASE Shown # {}
    <3>1. playing' = FALSE /\ audioText' = "close" /\ StopCollect
      BY <1>3, <2>2, Zenon DEF ClearPartner
    <3> QED
      BY <3>1, StopTyped DEF SoundType
  <2> QED
    BY <2>1, <2>2
<1>4. CASE ExitMeeting \/ DatasolveClosed \/ AnsweredError
  BY <1>3, <1>4 DEF ExitMeeting, DatasolveClosed, AnsweredError
<1>5. CASE DatasolveImg \/ AnsweredCreated \/ AnsweredJoined
  BY <1>2, <1>5 DEF DatasolveImg, AnsweredCreated, AnsweredJoined
<1>6. CASE DatasolveJoin
  BY <1>2, <1>6 DEF DatasolveJoin
<1>7. CASE DatasolveExit
  <2>1. \/ UNCHANGED <<audioText, collecting, playing, overrun>>
        \/ StopCollect /\ playing' = FALSE /\ audioText' = "open"
    BY <1>7, Zenon DEF DatasolveExit, RemovePartner
  <2>2. CASE StopCollect /\ playing' = FALSE /\ audioText' = "open"
    BY <2>2, StopTyped DEF SoundType
  <2> QED
    BY <1>1, <2>1, <2>2
<1>8. CASE Collect
  <2>1. collecting' \in BOOLEAN
    BY <1>8, Zenon DEF Collect
  <2> QED
    BY <1>8, <2>1 DEF Collect, SoundType
<1>9. CASE OpenAudio
  BY <1>9 DEF OpenAudio, SoundType
<1>10. CASE \/ Connect \/ ConnectedSeen \/ CreateMeeting \/ JoinMeeting \/ OpenVedio
            \/ Sendmsg \/ DatasolveShow \/ DatasolveAsks \/ AnsweredMissing \/ TextGone
            \/ FrameDropped \/ CameraImageCapture \/ TextSend \/ Server
  BY <1>1, <1>10 DEF Connect, ConnectedSeen, CreateMeeting, JoinMeeting, OpenVedio,
     Sendmsg, DatasolveShow, DatasolveAsks, AnsweredMissing, TextGone, FrameDropped,
     CameraImageCapture, TextSend, Server, Answer, AnswerJoined, MemberSends, Lose, TakeNews, ServerUnchanged
<1> QED
  BY <1>4, <1>5, <1>6, <1>7, <1>8, <1>9, <1>10 DEF Next, Button, Datasolve, Event

\* Every step keeps the types.
LEMMA NextTyped == Typed /\ [Next]_vars => Typed'
<1>1. Typed /\ Next => Typed'
  BY EnabledTyped, HandedTyped, SmallTyped, PostedTyped, RoomTyped, EarlyTyped, SoundTyped
     DEF Typed
<1>2. Typed /\ UNCHANGED vars => Typed'
  BY DEF vars, audioVars, roomVars, netVars, boxVars, Typed, EnabledType, RoomType, Shown,
     EarlyType, SoundType, MicType, NetType, AskedType, SmallType, HandedType
<1> QED
  BY <1>1, <1>2

\* The variables have their types, for any set of other members: tiles only
\* for addresses a client can have, and the lists within their bounds.
THEOREM Types == Spec => []TypeOK
<1>1. Init => Typed
  BY InitTyped
<1>2. Typed /\ [Next]_vars => Typed'
  BY NextTyped
<1>3. Typed => TypeOK
  BY TypedIsTypeOK
<1> QED
  BY <1>1, <1>2, <1>3, PTL DEF Spec

-----------------------------------------------------------------------------
(* One connection, and a way on.                                            *)

Responding == {"created", "joined", "missing"}

Unconnectable == net # "closed" /\ modal = "none" => "connServer" \notin enabled
Matched == solving # "none" => handed.kind = solving
\* While the server owes the client an answer to its first request, or the
\* answer is in hand, the exit button is disabled.
Awaited == /\ place \in {"lobby", "joining"} => net = "open" /\ "exitmeetBtn" \notin enabled
           /\ handed.kind \in Responding => net # "closed" /\ "exitmeetBtn" \notin enabled
           /\ handed.kind \in {"created", "joined"} => place \notin {"lobby", "joining"}
           /\ handed.kind = "missing" => place # "room"
\* A member of a room has the exit button, or the box that gives it to him is due.
RoomWay == /\ place = "room" => net \in {"open", "silent"}
           /\ place = "room" => "exitmeetBtn" \in enabled \/ handed.kind \in {"created", "joined"}
           /\ place = "room" /\ "createmeetBtn" \in enabled =>
                createmeet \/ handed.kind \in {"created", "joined"}
ToldWay == net = "lost" => news # Nothing \/ handed.kind \in {"closed", "error"}
Creatable == "createmeetBtn" \in enabled => /\ "joinmeetBtn" \in enabled \/ createmeet
                                            /\ net = "closed" => broken = "error"
OnlineWay == net = "open" => enabled \cap {"joinmeetBtn", "exitmeetBtn"} # {}
BoxedWay == modal = "connected" => net # "closed" \/ broken # "no"
OfflineWay == net = "closed" /\ broken = "no" => enabled \cap {"connServer", "exitmeetBtn"} # {}
TextWay == net = "open" /\ "sendmsg" \notin enabled /\ text = "none" => modal = "connected"
Ways == /\ Unconnectable /\ Matched /\ Awaited /\ Creatable /\ OnlineWay
        /\ BoxedWay /\ OfflineWay /\ TextWay /\ RoomWay /\ ToldWay

\* The initial state.
LEMMA InitWays == Init => Ways
<1> SUFFICES ASSUME Init PROVE Ways
  OBVIOUS
<1>1. /\ enabled = {"connServer"} /\ net = "closed" /\ place = "none" /\ handed = Nothing
      /\ modal = "none" /\ solving = "none"
  BY DEF Init
<1> QED
  BY <1>1 DEF Ways, Unconnectable, Matched, Awaited, Creatable, OnlineWay, BoxedWay, OfflineWay,
     TextWay, RoomWay, ToldWay, Nothing, Responding

\* The buttons; they can be pressed when no box is open.
LEMMA ButtonWays ==
  ASSUME Typed, Ways, Button
  PROVE  Ways'
<1> USE DEF audioVars, roomVars, netVars, boxVars, Ways, Unconnectable, Matched, Awaited,
            Creatable, OnlineWay, BoxedWay, OfflineWay, TextWay, RoomWay, ToldWay, Responding, Pressed, UserFree
<1>1. CASE Connect
  <2>1. net = "closed" /\ handed.kind \notin Responding /\ solving = "none" /\ modal = "none"
    BY <1>1 DEF Connect, Typed, NetType
  <2>2. UNCHANGED <<solving, broken, createmeet>>
    BY <1>1 DEF Connect
  <2>3. \/ /\ net' = "open" /\ place' = "lobby" /\ modal' = "connected" /\ handed' = handed
           /\ enabled' = (enabled \cup {"createmeetBtn", "joinmeetBtn"})
                           \ {"openAudio", "openVedio", "exitmeetBtn"}
        \/ /\ net' = "closed" /\ UNCHANGED <<modal, place, enabled>>
           /\ handed' \in {handed} \cup Losses
    BY <1>1 DEF Connect
  <2>4. handed'.kind \notin Responding
    BY <2>1, <2>3 DEF Losses
  <2> QED
    BY <2>1, <2>2, <2>3, <2>4
<1>2. CASE ConnectedSeen
  BY <1>2 DEF ConnectedSeen
<1>3. CASE CreateMeeting
  BY <1>3 DEF CreateMeeting
<1>4. CASE ExitMeeting
  <2>1. handed.kind \notin Responding /\ solving = "none" /\ modal = "none"
    BY <1>4 DEF ExitMeeting
  <2>2. /\ net' = "closed" /\ place' = "none" /\ handed' \in {Nothing, handed}
        /\ UNCHANGED <<solving, modal>>
    BY <1>4 DEF ExitMeeting, Disconnect
  <2>3. "connServer" \in enabled' /\ "createmeetBtn" \notin enabled'
    BY <1>4 DEF ExitMeeting
  <2> QED
    BY <2>1, <2>2, <2>3 DEF Nothing
<1>5. CASE JoinMeeting \/ OpenVedio
  <2>1. UNCHANGED <<enabled, createmeet, net, place, news, handed, modal, solving, broken>>
        /\ text' \in {text, "over"}
    BY <1>5 DEF JoinMeeting, OpenVedio
  <2> QED
    BY <2>1
<1>6. CASE OpenAudio
  BY <1>6 DEF OpenAudio
<1>7. CASE Sendmsg
  BY <1>7 DEF Sendmsg
<1> QED
  BY <1>1, <1>2, <1>3, <1>4, <1>5, <1>6, <1>7 DEF Button

\* datasolve.
LEMMA DatasolveWays ==
  ASSUME Typed, Ways, Datasolve
  PROVE  Ways'
<1> USE DEF audioVars, roomVars, netVars, boxVars, Ways, Unconnectable, Matched, Awaited,
            Creatable, OnlineWay, BoxedWay, OfflineWay, TextWay, RoomWay, ToldWay, Responding
<1>1. CASE DatasolveImg \/ DatasolveJoin \/ DatasolveExit \/ DatasolveShow
  <2>1. handed' = Nothing /\ solving = "none" /\ handed.kind \in {"img", "join", "join2", "exit", "show"}
        /\ UNCHANGED <<createmeet, net, place, news, modal, solving, text, broken>>
    BY <1>1 DEF DatasolveImg, DatasolveJoin, DatasolveExit, DatasolveShow, Handing, Unasked
  <2>2. \A b \in Buttons \ {"openAudio", "openVedio", "sendmsg"} : b \in enabled' <=> b \in enabled
    BY <1>1 DEF DatasolveImg, DatasolveJoin, DatasolveExit, DatasolveShow, Unasked, RemovePartner,
       ForCompany
  <2>3. "sendmsg" \in enabled => "sendmsg" \in enabled'
    BY <1>1 DEF DatasolveImg, DatasolveJoin, DatasolveExit, DatasolveShow, Unasked, RemovePartner
  <2> QED
    BY <2>1, <2>2, <2>3 DEF Nothing, Buttons
<1>2. CASE DatasolveClosed
  <2>1. /\ net' = "closed" /\ place' = "none" /\ handed' = Nothing /\ solving = "none"
        /\ UNCHANGED <<solving, modal, createmeet>>
        /\ broken' = IF modal = "connected" THEN "underBox" ELSE "no"
    BY <1>2 DEF DatasolveClosed, Disconnect, Handing
  <2>2. "connServer" \in enabled' /\ "createmeetBtn" \notin enabled'
    BY <1>2 DEF DatasolveClosed, Cleared
  <2> QED
    BY <2>1, <2>2 DEF Nothing
<1>3. CASE DatasolveAsks
  BY <1>3 DEF DatasolveAsks
<1>4. CASE AnsweredCreated
  <2>1. /\ handed.kind = "created" /\ handed' = Nothing /\ solving' = "none" /\ createmeet'
        /\ UNCHANGED <<net, place, news, modal, text, broken>>
    BY <1>4 DEF AnsweredCreated, Answered
  <2>2. /\ "exitmeetBtn" \in enabled'
        /\ "connServer" \in enabled' <=> "connServer" \in enabled
        /\ "sendmsg" \in enabled => "sendmsg" \in enabled'
    BY <1>4 DEF AnsweredCreated, ForCompany
  <2> QED
    BY <2>1, <2>2 DEF Nothing
<1>5. CASE AnsweredJoined
  <2>1. /\ handed.kind = "joined" /\ handed' = Nothing /\ solving' = "none"
        /\ UNCHANGED <<net, place, news, modal, text, broken, createmeet>>
    BY <1>5 DEF AnsweredJoined, Answered
  <2>2. /\ "exitmeetBtn" \in enabled' /\ "createmeetBtn" \notin enabled'
        /\ "connServer" \in enabled' <=> "connServer" \in enabled
        /\ "sendmsg" \in enabled => "sendmsg" \in enabled'
    BY <1>5 DEF AnsweredJoined, ForCompany
  <2> QED
    BY <2>1, <2>2 DEF Nothing
<1>6. CASE AnsweredMissing
  <2>1. /\ handed.kind = "missing" /\ handed' = Nothing /\ solving' = "none"
        /\ UNCHANGED <<net, place, news, modal, text, broken, createmeet>>
        /\ enabled' = (enabled \cup {"joinmeetBtn"}) \ {"exitmeetBtn", "openVedio", "connServer"}
    BY <1>6 DEF AnsweredMissing, Answered
  <2> QED
    BY <2>1 DEF Nothing
<1>7. CASE AnsweredError
  <2>1. /\ net' = "closed" /\ place' = "none" /\ handed' = Nothing /\ solving' = "none"
        /\ UNCHANGED <<modal, createmeet>> /\ broken' = "error"
    BY <1>7 DEF AnsweredError, Answered, Disconnect
  <2>2. \A b \in {"createmeetBtn", "joinmeetBtn"} : b \in enabled' <=> b \in enabled
    BY <1>7 DEF AnsweredError, Cleared
  <2> QED
    BY <2>1, <2>2 DEF Nothing
<1> QED
  BY <1>1, <1>2, <1>3, <1>4, <1>5, <1>6, <1>7 DEF Datasolve

\* The other events, and the server.
LEMMA OtherWays ==
  ASSUME Typed, Ways, Event \/ Server \/ UNCHANGED vars
  PROVE  Ways'
<1> USE DEF audioVars, roomVars, netVars, boxVars, Ways, Unconnectable, Matched, Awaited,
            Creatable, OnlineWay, BoxedWay, OfflineWay, TextWay, RoomWay, ToldWay, Responding
<1>1. CASE \/ CameraImageCapture \/ Collect \/ TextGone \/ FrameDropped \/ TextSend \/ UNCHANGED vars
  <2>1. UNCHANGED <<createmeet, net, place, news, modal, solving, handed, broken>>
    BY <1>1 DEF CameraImageCapture, Collect, TextGone, FrameDropped, TextSend, vars
  <2>2. UNCHANGED enabled \/ enabled' = enabled \cup {"sendmsg"}
    BY <1>1 DEF CameraImageCapture, Collect, TextGone, FrameDropped, TextSend, vars
  <2>3. UNCHANGED text \/ text' = "over" \/ "sendmsg" \in enabled'
    BY <1>1 DEF CameraImageCapture, Collect, TextGone, FrameDropped, TextSend, vars
  <2> QED
    BY <2>1, <2>2, <2>3
<1>2. CASE Answer \/ AnswerJoined
  <2>1. net = "open" /\ UNCHANGED <<enabled, createmeet, net, news, modal, solving, text, broken>>
    BY <1>2 DEF Answer, AnswerJoined, ServerUnchanged
  <2>2. \/ place = "lobby" /\ place' = "room" /\ handed = Nothing /\ handed' = [kind |-> "created"]
        \/ place = "lobby" /\ place' = "lobby" /\ handed = Nothing
             /\ (handed' = [kind |-> "missing"] \/ handed' = [kind |-> "show"])
        \/ place = "lobby" /\ place' = "joining" /\ handed' = handed
        \/ UNCHANGED <<place, handed>>
        \/ place = "joining" /\ place' = "room" /\ handed = Nothing /\ handed' = [kind |-> "joined"]
    BY <1>2 DEF Answer, AnswerJoined, Sends, Idle
  <2>3. place \in {"lobby", "joining"} => "exitmeetBtn" \notin enabled
    OBVIOUS
  <2>4. Matched'
    BY <2>1, <2>2 DEF Nothing, Typed, SmallType
  <2>5. Awaited'
    BY <2>1, <2>2, <2>3
  <2>6. RoomWay'
    BY <2>1, <2>2
  <2>7. ToldWay'
    BY <2>1
  <2> QED
    BY <2>1, <2>4, <2>5, <2>6, <2>7
<1>3. CASE MemberSends
  <2>1. /\ net = "open" /\ handed = Nothing /\ handed' \in FromMember
        /\ UNCHANGED <<enabled, createmeet, net, place, news, modal, solving, text, broken>>
    BY <1>3 DEF MemberSends, ServerUnchanged, Idle
  <2>2. handed'.kind \notin Responding
    BY <2>1 DEF FromMember
  <2>3. solving = "none" /\ handed.kind = "none"
    BY <2>1 DEF Nothing, Typed, SmallType
  <2> QED
    BY <2>1, <2>2, <2>3
<1>4. CASE Lose
  <2>1. /\ net = "open" /\ (place' = "none" \/ (place' = "room" /\ place = "room"))
        /\ UNCHANGED <<enabled, createmeet, modal, solving, text, broken>>
    BY <1>4 DEF Lose, ServerUnchanged
  <2>2. \/ handed = Nothing /\ handed' \in Losses /\ net' = "lost" /\ place' = "none"
        \/ handed' = handed /\ news' \in Losses /\ net' = "lost" /\ place' = "none"
        \/ handed' = handed /\ net' = "silent"
    BY <1>4 DEF Lose
  <2>3. \A m \in Losses : m.kind \in {"closed", "error"} /\ m # Nothing
    BY DEF Losses, Nothing
  <2>4. handed = Nothing => solving = "none"
    BY DEF Nothing, Typed, SmallType
  <2> QED
    BY <2>1, <2>2, <2>3, <2>4
<1>5. CASE TakeNews
  <2>1. /\ handed = Nothing /\ handed' \in Losses
        /\ UNCHANGED <<enabled, createmeet, net, place, modal, solving, text, broken>>
    BY <1>5 DEF TakeNews, ServerUnchanged, Typed, HandedType
  <2>2. \A m \in Losses : m.kind \in {"closed", "error"}
    BY DEF Losses
  <2>3. solving = "none" /\ handed.kind = "none"
    BY <2>1 DEF Nothing, Typed, SmallType
  <2> QED
    BY <2>1, <2>2, <2>3
<1> QED
  BY <1>1, <1>2, <1>3, <1>4, <1>5 DEF Event, Server

\* The ways hold together with the types.
LEMMA AlwaysWays == Spec => [](Typed /\ Ways)
<1>1. Init => Typed /\ Ways
  BY InitTyped, InitWays
<1>2. Typed /\ Ways /\ [Next]_vars => (Typed /\ Ways)'
  BY NextTyped, ButtonWays, DatasolveWays, OtherWays DEF Next
<1> QED
  BY <1>1, <1>2, PTL DEF Spec

\* connServer can be pressed only while the socket is closed, whatever boxes
\* were open when the connection came and went (widget.cpp 862-864, 1081).
THEOREM Connection == Spec => []OneConnection
<1>1. Typed /\ Ways => OneConnection
  BY DEF Ways, Unconnectable, OneConnection, Pressed, UserFree
<1> QED
  BY <1>1, AlwaysWays, PTL

\* There is always a button that leads on, or news of the loss that will enable
\* one: but for a network error outside a room, a loss under the box that
\* announces the connection, and a loss outside a room of which no news comes;
\* who loses it unknown in a room keeps exitmeetBtn (mytcpsocket.cpp 538;
\* widget.cpp 853-864, 1081, 1095-1102).
THEOREM OnwardWay == Spec => []WayOn
<1>1. Typed /\ Ways => WayOn
  BY DEF Ways, OnlineWay, OfflineWay, RoomWay, ToldWay, WayOn, UserFree
<1> QED
  BY <1>1, AlwaysWays, PTL

\* The button that sends a text is disabled only while a text is on its way
\* or textSend is due (widget.cpp 1270-1271, 1310-1317).
THEOREM TextButton == Spec => []SendmsgComesBack
<1>1. Typed /\ Ways => SendmsgComesBack
  BY DEF Ways, TextWay, SendmsgComesBack, UserFree
<1> QED
  BY <1>1, AlwaysWays, PTL
-----------------------------------------------------------------------------
(* Who is offered after an '@', and the entries for the tiles.              *)

Named == broken # "error" => \A ip \in Others : /\ iplist[ip] \in {0, 1}
                                                /\ iplist[ip] > 0 => ip \in Shown

\* Every step keeps the names.
LEMMA NextNamed ==
  ASSUME Typed, Named, [Next]_vars
  PROVE  Named'
<1> USE DEF audioVars, roomVars, netVars, boxVars
<1>0. RoomType /\ HandedType
  BY DEF Typed
<1>1. CASE UNCHANGED <<iplist, broken>> /\ Shown \subseteq Shown'
  BY <1>1 DEF Named
<1>2. ASSUME NEW ips \in SUBSET Keys, AddPartners(ips)
      PROVE  /\ Shown' = Shown \cup ips
             /\ \A k \in Shown' : partner'[k] = IF k \in Shown THEN partner[k] ELSE "tile"
  BY <1>2 DEF AddPartners, Added, Shown
<1>3. CASE ExitMeeting \/ DatasolveClosed \/ AnsweredError
  BY <1>3 DEF ExitMeeting, DatasolveClosed, AnsweredError, Named
<1>4. CASE DatasolveImg
  <2>1. handed.ip \in Keys
    BY <1>0, <1>4 DEF DatasolveImg, Handing, HandedType, Messages, FromMember, Responses, Losses,
       Nothing, Keys
  <2>2. AddPartners({handed.ip}) /\ UNCHANGED <<iplist, broken>>
    BY <1>4 DEF DatasolveImg, Unasked
  <2> QED
    BY <1>1, <1>2, <2>1, <2>2
<1>5. CASE AnsweredCreated \/ AnsweredJoined
  <2>1. getlocalip \in Keys
    BY KeyOfClient DEF Typed
  <2>2. AddPartners({getlocalip}) /\ UNCHANGED <<iplist, broken>>
    BY <1>5 DEF AnsweredCreated, AnsweredJoined
  <2> QED
    BY <1>1, <1>2, <2>1, <2>2
<1>6. CASE CameraImageCapture
  <2>1. UNCHANGED <<iplist, broken>> /\ Shown' = Shown \cup {getlocalip}
    BY <1>6 DEF CameraImageCapture, Shown
  <2> QED
    BY <1>1, <2>1
<1>7. CASE DatasolveJoin
  <2> DEFINE ips == IF handed.kind = "join" THEN {handed.ip} ELSE handed.ips
  <2>1. ips \subseteq Others /\ ips \subseteq Keys
    BY <1>0, <1>7 DEF DatasolveJoin, Handing, HandedType, Messages, FromMember, Responses, Losses,
       Nothing, Keys
  <2>2. AddPartners(ips) /\ UNCHANGED broken
        /\ iplist' = [ip \in Others |-> iplist[ip] + IF ip \in ips \ Shown THEN 1 ELSE 0]
    BY <1>7 DEF DatasolveJoin, Unasked
  <2> HIDE DEF ips
  <2>3. Shown' = Shown \cup ips
        /\ \A k \in Shown' : partner'[k] = IF k \in Shown THEN partner[k] ELSE "tile"
    BY <1>2, <2>1, <2>2
  <2>4. ASSUME broken # "error", NEW ip \in Others
        PROVE  iplist'[ip] \in {0, 1} /\ (iplist'[ip] > 0 => ip \in Shown')
    <3>1. iplist[ip] \in {0, 1} /\ (iplist[ip] > 0 => ip \in Shown)
      BY <2>4 DEF Named
    <3> QED
      BY <2>2, <2>3, <3>1
  <2> QED
    BY <2>2, <2>4 DEF Named
<1>8. CASE DatasolveExit
  <2>1. handed.ip \in Others /\ iplist \in [Others -> Nat]
    BY <1>0, <1>8 DEF DatasolveExit, Handing, HandedType, Messages, FromMember, Responses, Losses,
       Nothing, RoomType
  <2>2. Shown' = Shown \ {handed.ip} /\ \A k \in Shown' : partner'[k] = partner[k]
    BY <1>0, <1>8 DEF DatasolveExit, RemovePartner, Shown
  <2>3. UNCHANGED broken
        /\ iplist' = [iplist EXCEPT ![handed.ip] = IF @ = 0 THEN 0 ELSE @ - 1]
    BY <1>8 DEF DatasolveExit, Unasked
  <2>4. ASSUME broken # "error", NEW ip \in Others
        PROVE  iplist'[ip] \in {0, 1} /\ (iplist'[ip] > 0 => ip \in Shown')
    <3>1. iplist[ip] \in {0, 1} /\ (iplist[ip] > 0 => ip \in Shown)
      BY <2>4 DEF Named
    <3> QED
      BY <2>1, <2>2, <2>3, <3>1
  <2> QED
    BY <2>3, <2>4 DEF Named
<1>9. CASE \/ Connect \/ ConnectedSeen \/ CreateMeeting \/ JoinMeeting \/ OpenVedio \/ OpenAudio
           \/ Sendmsg \/ DatasolveShow \/ DatasolveAsks \/ AnsweredMissing \/ Collect \/ TextGone
           \/ FrameDropped \/ TextSend \/ Server \/ UNCHANGED vars
  <2>1. UNCHANGED <<partner, iplist, broken>>
    BY <1>9 DEF Connect, ConnectedSeen, CreateMeeting, JoinMeeting, OpenVedio, OpenAudio,
       Sendmsg, DatasolveShow, DatasolveAsks, AnsweredMissing, Collect, TextGone, FrameDropped,
       TextSend, Unasked, Server, Answer, AnswerJoined, MemberSends, Lose, TakeNews,
       ServerUnchanged, vars
  <2> QED
    BY <1>1, <2>1 DEF Shown
<1> QED
  BY <1>3, <1>4, <1>5, <1>6, <1>7, <1>8, <1>9 DEF Next, Button, Datasolve, Event

\* The names hold together with the types.
LEMMA AlwaysNamed == Spec => [](Typed /\ Named)
<1>1. Init => Typed /\ Named
  BY InitTyped DEF Init, Named
<1>2. Typed /\ Named /\ [Next]_vars => (Typed /\ Named)'
  BY NextTyped, NextNamed
<1> QED
  BY <1>1, <1>2, PTL DEF Spec

\* Whoever is offered after an '@' has a tile, for any number of members and
\* in whatever order they join, leave and send pictures (widget.cpp 1014-1042).
THEOREM Mentions == Spec => []MentionsAreShown
<1>1. Named => MentionsAreShown
  BY DEF Named, MentionsAreShown
<1> QED
  BY <1>1, AlwaysNamed, PTL

-----------------------------------------------------------------------------
(* The entries under which no null pointer is put.                          *)

\* While the camera has been on only with this client's entry in place, that
\* entry is still there as long as the camera is on.
Entered == ~early /\ camera # "off" => Lost \/ getlocalip \in Shown

\* A step that keeps the entries, adds tiles, and leaves socket and camera.
LEMMA EntriesStay ==
  ASSUME EntriesAreTiles, Entered, UNCHANGED early, getlocalip' = getlocalip, Lost' = Lost,
         camera # "off" \/ camera' = "off", Shown \subseteq Shown',
         \A k \in Shown' : partner'[k] = IF k \in Shown THEN partner[k] ELSE "tile"
  PROVE  EntriesAreTiles' /\ Entered'
<1>1. EntriesAreTiles'
  BY DEF EntriesAreTiles
<1>2. Entered'
  BY DEF Entered
<1> QED
  BY <1>1, <1>2

\* clearPartner leaves no entry; a camera that is on then is recorded.
LEMMA EntriesGo ==
  ASSUME ClearPartner
  PROVE  EntriesAreTiles' /\ Entered'
<1>1. Shown' = {} /\ (camera' # "off" => early')
  <2>1. Shown' = {}
    BY DEF ClearPartner, Shown
  <2>2. camera' # "off" => early'
    BY Zenon DEF ClearPartner
  <2> QED
    BY <2>1, <2>2
<1> QED
  BY <1>1 DEF EntriesAreTiles, Entered

\* Every step keeps the entries; connServer is pressed on a closed socket.
LEMMA NextEntries ==
  ASSUME Typed, OneConnection, EntriesAreTiles, Entered, [Next]_vars
  PROVE  EntriesAreTiles' /\ Entered'
<1> USE DEF audioVars, roomVars, netVars, boxVars
<1>0. RoomType /\ HandedType /\ NetType
  BY DEF Typed
<1>1. ASSUME UNCHANGED <<partner, early, net>>, camera # "off" \/ camera' = "off"
      PROVE  EntriesAreTiles' /\ Entered'
  <2>1. getlocalip' = getlocalip /\ Lost' = Lost /\ Shown' = Shown
    BY <1>1 DEF getlocalip, Lost, Shown
  <2> QED
    BY <1>1, <2>1, EntriesStay
<1>2. ASSUME NEW ips \in SUBSET Keys, AddPartners(ips), UNCHANGED <<net, camera>>
      PROVE  EntriesAreTiles' /\ Entered'
  <2>1. /\ Shown \subseteq Shown' /\ UNCHANGED early
        /\ \A k \in Shown' : partner'[k] = IF k \in Shown THEN partner[k] ELSE "tile"
    BY <1>2 DEF AddPartners, Added, Shown
  <2>2. getlocalip' = getlocalip /\ Lost' = Lost
    BY <1>2 DEF getlocalip, Lost
  <2> QED
    BY <1>2, <2>1, <2>2, EntriesStay
<1>3. CASE ExitMeeting \/ DatasolveClosed \/ AnsweredError
  BY <1>3, EntriesGo DEF ExitMeeting, DatasolveClosed, AnsweredError
<1>4. CASE DatasolveImg
  <2>1. handed.ip \in Keys
    BY <1>0, <1>4 DEF DatasolveImg, Handing, HandedType, Messages, FromMember, Responses, Losses,
       Nothing, Keys
  <2> QED
    BY <1>2, <1>4, <2>1 DEF DatasolveImg, Unasked
<1>5. CASE AnsweredCreated \/ AnsweredJoined
  <2>1. getlocalip \in Keys
    BY <1>0, KeyOfClient
  <2> QED
    BY <1>2, <1>5, <2>1 DEF AnsweredCreated, AnsweredJoined
<1>6. CASE DatasolveJoin
  <2> DEFINE ips == IF handed.kind = "join" THEN {handed.ip} ELSE handed.ips
  <2>1. ips \subseteq Keys
    BY <1>0, <1>6 DEF DatasolveJoin, Handing, HandedType, Messages, FromMember, Responses, Losses,
       Nothing, Keys
  <2>2. AddPartners(ips) /\ UNCHANGED <<net, camera>>
    BY <1>6 DEF DatasolveJoin, Unasked
  <2> QED
    BY <1>2, <2>1, <2>2
<1>7. CASE DatasolveExit
  <2>1. UNCHANGED <<net, camera>>
    BY <1>7 DEF DatasolveExit, Unasked
  <2>2. getlocalip' = getlocalip /\ Lost' = Lost
    BY <2>1 DEF getlocalip, Lost
  <2>3. \/ UNCHANGED <<partner, early>>
        \/ /\ partner' = [k \in Shown \ {handed.ip} |-> partner[k]]
           /\ early' = (early \/ (handed.ip = getlocalip /\ camera # "off"))
    BY <1>7, Zenon DEF DatasolveExit, RemovePartner
  <2>4. CASE UNCHANGED <<partner, early>>
    BY <1>1, <2>1, <2>4
  <2>5. CASE /\ partner' = [k \in Shown \ {handed.ip} |-> partner[k]]
             /\ early' = (early \/ (handed.ip = getlocalip /\ camera # "off"))
    <3>1. Shown' = Shown \ {handed.ip} /\ \A k \in Shown' : partner'[k] = partner[k]
      BY <2>5 DEF Shown
    <3>2. ~early' => ~early /\ (camera = "off" \/ handed.ip # getlocalip)
      BY <2>5, Zenon
    <3>3. EntriesAreTiles'
      BY <3>1, <3>2 DEF EntriesAreTiles
    <3>4. Entered'
      BY <2>1, <2>2, <3>1, <3>2 DEF Entered
    <3> QED
      BY <3>3, <3>4
  <2> QED
    BY <2>3, <2>4, <2>5
<1>8. CASE Connect
  <2>1. net = "closed" /\ UNCHANGED <<partner, camera>>
    BY <1>8 DEF Connect, OneConnection
  <2>2. CASE net' = "closed" /\ UNCHANGED early
    BY <1>1, <2>1, <2>2
  <2>3. CASE early' = (early \/ camera # "off")
    <3>1. ~early' => ~early /\ camera' = "off"
      BY <2>1, <2>3, Zenon
    <3>2. EntriesAreTiles'
      BY <2>1, <3>1 DEF EntriesAreTiles, Shown
    <3> QED
      BY <3>1, <3>2 DEF Entered
  <2> QED
    BY <1>8, <2>2, <2>3 DEF Connect
<1>9. CASE OpenVedio
  <2>1. UNCHANGED <<partner, net>>
    BY <1>9 DEF OpenVedio
  <2>2. CASE camera = "on"
    BY <1>1, <1>9, <2>1, <2>2 DEF OpenVedio
  <2>3. CASE camera # "on"
    <3>1. ~early' => ~early /\ getlocalip \in Shown
      BY <1>9, <2>3, Zenon DEF OpenVedio
    <3>2. getlocalip' = getlocalip /\ Shown' = Shown
      BY <2>1 DEF getlocalip, Lost, Shown
    <3>3. EntriesAreTiles'
      BY <2>1, <3>1, <3>2 DEF EntriesAreTiles
    <3> QED
      BY <3>1, <3>2, <3>3 DEF Entered
  <2> QED
    BY <2>2, <2>3
<1>10. CASE CameraImageCapture
  <2>1. /\ camera # "off" /\ UNCHANGED <<early, net>> /\ Shown' = Shown \cup {getlocalip}
        /\ \A k \in Shown : partner'[k] = partner[k]
    BY <1>10 DEF CameraImageCapture, Shown
  <2>2. getlocalip' = getlocalip /\ Lost' = Lost
    BY <2>1 DEF getlocalip, Lost
  <2>3. Lost => getlocalip = Unconnected
    BY DEF getlocalip, Lost
  <2>4. EntriesAreTiles'
    BY <2>1, <2>3 DEF EntriesAreTiles, Entered
  <2> QED
    BY <2>1, <2>2, <2>4 DEF Entered
<1>11. CASE Lose
  <2>1. UNCHANGED <<partner, early>> /\ Lost'
    BY <1>11 DEF Lose, ServerUnchanged, Lost
  <2>2. EntriesAreTiles'
    BY <2>1 DEF EntriesAreTiles, Shown
  <2> QED
    BY <2>1, <2>2 DEF Entered
<1>12. CASE \/ ConnectedSeen \/ CreateMeeting \/ JoinMeeting \/ OpenAudio \/ Sendmsg
            \/ DatasolveShow \/ DatasolveAsks \/ AnsweredMissing \/ Collect \/ TextGone
            \/ FrameDropped \/ TextSend \/ Answer \/ AnswerJoined \/ MemberSends \/ TakeNews
            \/ UNCHANGED vars
  <2>1. UNCHANGED <<partner, early, net, camera>>
    BY <1>12 DEF ConnectedSeen, CreateMeeting, JoinMeeting, OpenAudio, Sendmsg, DatasolveShow,
       DatasolveAsks, AnsweredMissing, Collect, TextGone, FrameDropped, TextSend, Unasked, Answer,
       AnswerJoined, MemberSends, TakeNews, ServerUnchanged, vars
  <2> QED
    BY <1>1, <2>1
<1> QED
  BY <1>3, <1>4, <1>5, <1>6, <1>7, <1>8, <1>9, <1>10, <1>11, <1>12 DEF Next, Button, Datasolve,
     Event, Server

\* datasolve and closeImg find no null pointer, under another member's address
\* or this client's own, which a client on the same machine has, too: as long as
\* the camera is on only with this client's entry in place, whatever was sent,
\* lost and connected again; but for the address 0 (widget.cpp 634, 787,
\* 815-829, 983-992).
THEOREM NoNullTile == Spec => []EntriesAreTiles
<1>1. Init => EntriesAreTiles /\ Entered
  <2>1. Init => Shown = {} /\ camera = "off"
    BY DEF Init, Shown
  <2> QED
    BY <2>1 DEF EntriesAreTiles, Entered
<1>2. Typed /\ OneConnection /\ EntriesAreTiles /\ Entered /\ [Next]_vars
        => (EntriesAreTiles /\ Entered)'
  BY NextEntries
<1> QED
  BY <1>1, <1>2, Connection, AlwaysWays, PTL DEF Spec

-----------------------------------------------------------------------------
(* Sound needs company.                                                     *)

\* Sound begins with the second entry and ends with the last but one.
Accompanied == playing \/ "openAudio" \in enabled => Cardinality(Shown) > 1

\* Tiles are finitely many.
LEMMA TilesFinite ==
  ASSUME NEW S \in SUBSET Keys
  PROVE  IsFiniteSet(S) /\ Cardinality(S) \in Nat
<1>1. IsFiniteSet(Others \cup {Own})
  BY WidgetAssumption, FS_AddElement
<1>2. IsFiniteSet((Others \cup {Own}) \cup {Unconnected})
  BY <1>1, FS_AddElement
<1>5. IsFiniteSet(((Others \cup {Own}) \cup {Unconnected}) \cup {NoSocket})
  BY <1>2, FS_AddElement
<1>3. S \subseteq ((Others \cup {Own}) \cup {Unconnected}) \cup {NoSocket}
  BY DEF Keys
<1>4. IsFiniteSet(S)
  BY <1>5, <1>3, FS_Subset
<1> QED
  BY <1>4, FS_CardinalityType

\* More tiles are as much company.
LEMMA CompanyStays ==
  ASSUME RoomType', NEW S \in SUBSET Shown', Cardinality(S) > 1
  PROVE  Cardinality(Shown') > 1
<1>1. Shown' \in SUBSET Keys
  BY DEF RoomType
<1>2. IsFiniteSet(Shown') /\ Cardinality(Shown') \in Nat
  BY <1>1, TilesFinite
<1>3. Cardinality(S) <= Cardinality(Shown') /\ Cardinality(S) \in Nat
  BY <1>2, FS_Subset, FS_CardinalityType
<1> QED
  BY <1>2, <1>3

\* A step that takes no tile and adds neither sound nor button.
LEMMA QuietStep ==
  ASSUME RoomType', Accompanied, Shown \subseteq Shown',
         playing' => playing, "openAudio" \in enabled' => "openAudio" \in enabled
  PROVE  Accompanied'
<1>1. CASE playing \/ "openAudio" \in enabled
  <2>1. Cardinality(Shown') > 1
    BY <1>1, CompanyStays DEF Accompanied
  <2>2. Cardinality(Shown)' > 1
    BY <2>1 DEF Shown
  <2> QED
    BY <2>2, Zenon DEF Accompanied
<1>2. CASE ~(playing \/ "openAudio" \in enabled)
  BY <1>2, Zenon DEF Accompanied
<1> QED
  BY <1>1, <1>2

\* A step that ends all sound.
LEMMA SilentStep ==
  ASSUME playing' = FALSE, "openAudio" \notin enabled'
  PROVE  Accompanied'
BY Zenon DEF Accompanied

\* A step that adds tiles; sound begins with the second.
LEMMA AddingStep ==
  ASSUME RoomType', Accompanied, NEW ips, Shown' = Shown \cup ips,
         playing' = (playing \/ Company(ips)),
         "openAudio" \in enabled' => "openAudio" \in enabled \/ Company(ips)
  PROVE  Accompanied'
<1>1. CASE Company(ips)
  <2>1. Cardinality(Shown)' > 1
    BY <1>1 DEF Company, Shown
  <2> QED
    BY <2>1, Zenon DEF Accompanied
<1>2. CASE ~Company(ips)
  BY <1>2, QuietStep, Zenon
<1> QED
  BY <1>1, <1>2

\* clearPartner ends all sound, or there was none.
LEMMA ClearingStep ==
  ASSUME Accompanied, ClearPartner, enabled' \cap Cleared = {},
         "openAudio" \in enabled' => "openAudio" \in enabled
  PROVE  Accompanied'
<1>1. CASE Shown = {}
  <2>1. Cardinality(Shown) = 0
    BY <1>1, FS_EmptySet
  <2>2. ~playing /\ "openAudio" \notin enabled
    <3>1. ~(Cardinality(Shown) > 1)
      BY <2>1
    <3> QED
      BY <3>1, Zenon DEF Accompanied
  <2>3. playing' = playing
    BY <1>1 DEF ClearPartner
  <2> QED
    BY <2>2, <2>3, Zenon DEF Accompanied
<1>2. CASE Shown # {}
  <2>1. playing' = FALSE
    BY <1>2, Zenon DEF ClearPartner
  <2>2. "openAudio" \notin enabled'
    BY <1>2 DEF Cleared
  <2> QED
    BY <2>1, <2>2, SilentStep
<1> QED
  BY <1>1, <1>2

\* Every step keeps sound in company.
LEMMA NextCompany ==
  ASSUME Typed, Typed', Accompanied, [Next]_vars
  PROVE  Accompanied'
<1> USE DEF audioVars, roomVars, netVars, boxVars
<1>0. RoomType /\ HandedType /\ NetType /\ RoomType'
  BY DEF Typed
<1>2. ASSUME NEW ips \in SUBSET Keys, AddPartners(ips)
      PROVE  Shown' = Shown \cup ips /\ playing' = (playing \/ Company(ips))
  BY <1>2 DEF AddPartners, Added, Shown
<1>3. CASE ExitMeeting
  <2>1. ClearPartner /\ enabled' = (enabled \ (Cleared \cup {"createmeetBtn", "exitmeetBtn"}))
                                      \cup {"connServer"}
    BY <1>3 DEF ExitMeeting
  <2> QED
    BY <2>1, ClearingStep DEF Cleared
<1>4. CASE DatasolveClosed
  <2>1. ClearPartner /\ enabled' = (enabled \ (Cleared \cup {"createmeetBtn", "exitmeetBtn", "joinmeetBtn"}))
                                      \cup {"connServer"}
    BY <1>4 DEF DatasolveClosed
  <2> QED
    BY <2>1, ClearingStep DEF Cleared
<1>5. CASE AnsweredError
  <2>1. ClearPartner /\ enabled' = enabled \ Cleared
    BY <1>5 DEF AnsweredError
  <2> QED
    BY <2>1, ClearingStep
<1>6. CASE DatasolveImg
  <2>1. handed.ip \in Keys
    BY <1>0, <1>6 DEF DatasolveImg, Handing, HandedType, Messages, FromMember, Responses, Losses,
       Nothing, Keys
  <2>2. AddPartners({handed.ip}) /\ enabled' = enabled \cup ForCompany({handed.ip})
    BY <1>6 DEF DatasolveImg
  <2> QED
    BY <1>0, <1>2, <2>1, <2>2, AddingStep DEF ForCompany
<1>7. CASE DatasolveJoin
  <2> DEFINE ips == IF handed.kind = "join" THEN {handed.ip} ELSE handed.ips
  <2>1. ips \subseteq Keys
    BY <1>0, <1>7 DEF DatasolveJoin, Handing, HandedType, Messages, FromMember, Responses, Losses,
       Nothing, Keys
  <2>2. AddPartners(ips) /\ enabled' \subseteq enabled \cup ForCompany(ips) \cup {"openVedio"}
    BY <1>7 DEF DatasolveJoin
  <2> HIDE DEF ips
  <2>3. "openAudio" \in enabled' => "openAudio" \in enabled \/ Company(ips)
    BY <2>2 DEF ForCompany
  <2> QED
    BY <1>0, <1>2, <2>1, <2>2, <2>3, AddingStep
<1>8. CASE AnsweredCreated \/ AnsweredJoined
  <2>1. getlocalip \in Keys
    BY <1>0, KeyOfClient
  <2>2. AddPartners({getlocalip})
        /\ enabled' \subseteq enabled \cup {"exitmeetBtn", "openVedio"} \cup ForCompany({getlocalip})
    BY <1>8 DEF AnsweredCreated, AnsweredJoined
  <2>3. "openAudio" \in enabled' => "openAudio" \in enabled \/ Company({getlocalip})
    BY <2>2 DEF ForCompany
  <2> QED
    BY <1>0, <1>2, <2>1, <2>2, <2>3, AddingStep
<1>9. CASE DatasolveExit
  <2>1. CASE UNCHANGED <<partner, playing, enabled>>
    BY <1>0, <2>1, QuietStep, Zenon DEF Shown
  <2>2. CASE playing' = FALSE /\ enabled' = enabled \ {"openAudio"}
    BY <2>2, SilentStep
  <2>3. CASE /\ handed.ip \in Shown /\ ~(Cardinality(Shown \ {handed.ip}) <= 1)
             /\ partner' = [k \in Shown \ {handed.ip} |-> partner[k]]
    <3>1. Shown' = Shown \ {handed.ip}
      BY <2>3 DEF Shown
    <3>2. Shown \ {handed.ip} \in SUBSET Keys
      BY <1>0 DEF RoomType
    <3>3. Cardinality(Shown') > 1
      BY <2>3, <3>1, <3>2, TilesFinite
    <3>4. Cardinality(Shown)' > 1
      BY <3>3 DEF Shown
    <3> QED
      BY <3>4, Zenon DEF Accompanied
  <2> QED
    BY <1>9, <2>1, <2>2, <2>3 DEF DatasolveExit, RemovePartner, Unasked
<1>10. CASE CameraImageCapture
  BY <1>0, <1>10, QuietStep DEF CameraImageCapture, Shown
<1>11. CASE Button /\ ~ExitMeeting
  <2>1. UNCHANGED <<partner, playing>>
        /\ ("openAudio" \in enabled' => "openAudio" \in enabled)
    BY <1>11 DEF Button, Connect, ConnectedSeen, CreateMeeting, JoinMeeting, OpenVedio, OpenAudio, Sendmsg
  <2> QED
    BY <1>0, <2>1, QuietStep DEF Shown
<1>12. CASE DatasolveShow \/ DatasolveAsks \/ AnsweredMissing
  <2>1. UNCHANGED <<partner, playing>>
        /\ ("openAudio" \in enabled' => "openAudio" \in enabled)
    BY <1>12 DEF DatasolveShow, DatasolveAsks, AnsweredMissing
  <2> QED
    BY <1>0, <2>1, QuietStep DEF Shown
<1>13. CASE Collect \/ TextGone \/ FrameDropped \/ TextSend \/ Server \/ UNCHANGED vars
  <2>1. UNCHANGED <<partner, playing>>
        /\ ("openAudio" \in enabled' => "openAudio" \in enabled)
    BY <1>13 DEF Collect, TextGone, FrameDropped, TextSend, Server, Answer, AnswerJoined,
       MemberSends, Lose, TakeNews, ServerUnchanged, vars
  <2> QED
    BY <1>0, <2>1, QuietStep DEF Shown
<1> QED
  BY <1>3, <1>4, <1>5, <1>6, <1>7, <1>8, <1>9, <1>10, <1>11, <1>12, <1>13 DEF Next, Datasolve, Event

\* Two entries are never this client's own alone.
LEMMA CompanyOfTwo ==
  ASSUME RoomType, Cardinality(Shown) > 1
  PROVE  Shown \cap (Others \ {Own}) # {} \/ Shown \cap {Unconnected, NoSocket} # {}
<1> SUFFICES ASSUME Shown \cap (Others \ {Own}) = {}, Shown \cap {Unconnected, NoSocket} = {}
             PROVE  FALSE
  OBVIOUS
<1>1. Shown \subseteq {Own}
  BY DEF RoomType, Keys
<1>2. IsFiniteSet({Own}) /\ Cardinality({Own}) = 1
  BY FS_Singleton
<1>3. Cardinality(Shown) <= 1 /\ Cardinality(Shown) \in Nat
  BY <1>1, <1>2, FS_Subset, FS_CardinalityType
<1> QED
  BY <1>3

\* Sound is played, and the microphone offered, only before the tile of another
\* client, for any number of members, one with this client's address among them;
\* but for an entry under 0 or -1, which the code takes for company
\* (widget.cpp 634, 1133-1141, 1156-1165).
THEOREM Sound == Spec => []SoundNeedsCompany
<1>1. Init => Typed /\ Accompanied
  <2>1. ASSUME Init PROVE Accompanied
    <3>1. playing = FALSE
      BY <2>1, Zenon DEF Init
    <3>2. "openAudio" \notin enabled
      BY <2>1 DEF Init
    <3> QED
      BY <3>1, <3>2, Zenon DEF Accompanied
  <2> QED
    BY <2>1, InitTyped
<1>2. Typed /\ Accompanied /\ [Next]_vars => (Typed /\ Accompanied)'
  BY NextTyped, NextCompany
<1>3. Typed /\ Accompanied => SoundNeedsCompany
  <2>1. ASSUME Typed, playing \/ "openAudio" \in enabled, Accompanied
        PROVE  \/ Shown \cap (Others \ {Own}) # {}
               \/ Shown \cap {Unconnected, NoSocket} # {}
    <3>1. Cardinality(Shown) > 1
      BY <2>1, Zenon DEF Accompanied
    <3> QED
      BY <2>1, <3>1, CompanyOfTwo DEF Typed
  <2> QED
    BY <2>1, Zenon DEF SoundNeedsCompany
<1> QED
  BY <1>1, <1>2, <1>3, PTL DEF Spec
-----------------------------------------------------------------------------
(* The microphone.                                                          *)

\* What AudioInput will do when all signals have arrived.
WillCollect == IF micPosted = <<>> THEN collecting
                                   ELSE micPosted[Len(micPosted)] = "start"
MicKnown == WillCollect => audioText = "close" \/ overrun

\* stopCollect() ends what is being read; a startAudio still on its way is
\* recorded.
LEMMA StoppedKnown ==
  ASSUME MicType, StopCollect, UNCHANGED micPosted
  PROVE  MicKnown'
<1>1. ASSUME NEW i \in 1..Len(micPosted), micPosted[i] = "start" PROVE overrun'
  <2>1. Posted("start")
    BY <1>1, Zenon DEF Posted
  <2> QED
    BY <2>1, Zenon DEF StopCollect
<1>2. CASE micPosted = <<>>
  <2>1. ~collecting'
    BY Zenon DEF StopCollect
  <2> QED
    BY <1>2, <2>1 DEF MicKnown, WillCollect
<1>3. CASE micPosted # <<>>
  <2>1. Len(micPosted) \in 1..Len(micPosted)
    BY <1>3 DEF MicType
  <2> QED
    BY <1>1, <1>3, <2>1 DEF MicKnown, WillCollect
<1> QED
  BY <1>2, <1>3

\* Every step keeps the label in touch with the microphone.
LEMMA NextKnown ==
  ASSUME Typed, MicKnown, [Next]_vars
  PROVE  MicKnown'
<1> USE DEF audioVars, roomVars, netVars, boxVars
<1>0. MicType
  BY DEF Typed
<1>1. CASE UNCHANGED <<audioText, collecting, micPosted, overrun>>
  BY <1>1 DEF MicKnown, WillCollect
<1>2. CASE ExitMeeting \/ DatasolveClosed \/ AnsweredError
  <2>1. ClearPartner /\ UNCHANGED micPosted
    BY <1>2 DEF ExitMeeting, DatasolveClosed, AnsweredError
  <2>2. StopCollect \/ UNCHANGED <<audioText, collecting, overrun>>
    BY <2>1 DEF ClearPartner
  <2> QED
    BY <1>0, <1>1, <2>1, <2>2, StoppedKnown
<1>3. CASE DatasolveExit
  <2>1. UNCHANGED micPosted
    BY <1>3 DEF DatasolveExit, Unasked
  <2>2. StopCollect \/ UNCHANGED <<audioText, collecting, overrun>>
    BY <1>3 DEF DatasolveExit, RemovePartner
  <2> QED
    BY <1>0, <1>1, <2>1, <2>2, StoppedKnown
<1>4. CASE OpenAudio
  <2>1. /\ micPosted' = Append(micPosted, IF audioText = "open" THEN "start" ELSE "stop")
        /\ audioText' = IF audioText = "open" THEN "close" ELSE "open"
    BY <1>4 DEF OpenAudio
  <2>2. micPosted' # <<>> /\ micPosted'[Len(micPosted')] = IF audioText = "open" THEN "start" ELSE "stop"
    BY <1>0, <2>1 DEF MicType
  <2> QED
    BY <2>1, <2>2 DEF MicKnown, WillCollect
<1>5. CASE Collect
  <2>1. micPosted # <<>> /\ micPosted' = Tail(micPosted) /\ UNCHANGED <<audioText, overrun>>
    BY <1>5 DEF Collect
  <2>2. CASE Len(micPosted) = 1
    <3>1. micPosted' = <<>> /\ Head(micPosted) = micPosted[Len(micPosted)]
      BY <1>0, <2>1, <2>2 DEF MicType
    <3>2. collecting' = (Head(micPosted) = "start")
      BY <1>5, Zenon DEF Collect
    <3>3. WillCollect' => WillCollect
      BY <2>1, <3>1, <3>2 DEF WillCollect
    <3> QED
      BY <2>1, <3>3 DEF MicKnown
  <2>3. CASE Len(micPosted) # 1
    <3>0. micPosted \in Seq({"start", "stop"}) /\ micPosted # <<>>
      BY <1>0, <2>1 DEF MicType
    <3>1. Len(micPosted) \in Nat /\ Len(micPosted) > 1 /\ Len(micPosted') = Len(micPosted) - 1
      <4>1. Len(micPosted) \in Nat /\ Len(micPosted) # 0
        BY <3>0
      <4>2. Len(Tail(micPosted)) = Len(micPosted) - 1
        BY <3>0
      <4> QED
        BY <2>1, <2>3, <4>1, <4>2
    <3>2. micPosted'[Len(micPosted) - 1] = micPosted[Len(micPosted)]
      BY <1>0, <2>1, <3>1 DEF MicType
    <3>3. micPosted' # <<>>
      BY <3>1
    <3> QED
      BY <2>1, <3>1, <3>2, <3>3 DEF MicKnown, WillCollect
  <2> QED
    BY <2>2, <2>3
<1>6. CASE \/ DatasolveImg \/ DatasolveJoin \/ DatasolveShow \/ DatasolveAsks \/ AnsweredCreated
           \/ AnsweredJoined \/ AnsweredMissing
  BY <1>1, <1>6 DEF DatasolveImg, DatasolveJoin, DatasolveShow, DatasolveAsks, AnsweredCreated,
     AnsweredJoined, AnsweredMissing, Unasked
<1>7. CASE \/ Connect \/ ConnectedSeen \/ CreateMeeting \/ JoinMeeting \/ OpenVedio \/ Sendmsg
           \/ CameraImageCapture \/ TextGone \/ FrameDropped \/ TextSend \/ Server \/ UNCHANGED vars
  BY <1>1, <1>7 DEF Connect, ConnectedSeen, CreateMeeting, JoinMeeting, OpenVedio, Sendmsg,
     CameraImageCapture, TextGone, FrameDropped, TextSend, Server, Answer, AnswerJoined,
     MemberSends, Lose, TakeNews, ServerUnchanged, vars
<1> QED
  BY <1>2, <1>3, <1>4, <1>5, <1>6, <1>7 DEF Next, Button, Datasolve, Event

\* A microphone that is read says so on its button, or is about to be stopped,
\* but for a startAudio that stopCollect() overtook; for any number of signals
\* on their way (widget.cpp 802-812, 1161, 1189-1191).
THEOREM Microphone == Spec => []MicIsShown
<1>1. Init => Typed /\ MicKnown
  <2>1. ASSUME Init PROVE MicKnown
    <3>1. collecting = FALSE
      BY <2>1, Zenon DEF Init
    <3>2. micPosted = <<>>
      BY <2>1 DEF Init
    <3> QED
      BY <3>1, <3>2 DEF MicKnown, WillCollect
  <2> QED
    BY <2>1, InitTyped
<1>2. Typed /\ MicKnown /\ [Next]_vars => (Typed /\ MicKnown)'
  BY NextTyped, NextKnown
<1>3. Typed /\ MicKnown => MicIsShown
  <2> SUFFICES ASSUME Typed, MicKnown, collecting, ~Posted("stop"), ~overrun
               PROVE  audioText = "close"
    BY DEF MicIsShown
  <2>1. CASE micPosted = <<>>
    BY <2>1 DEF MicKnown, WillCollect
  <2>2. CASE micPosted # <<>>
    <3>1. Len(micPosted) \in 1..Len(micPosted) /\ micPosted[Len(micPosted)] \in {"start", "stop"}
      BY <2>2 DEF Typed, MicType
    <3>2. micPosted[Len(micPosted)] # "stop"
      BY <3>1 DEF Posted
    <3> QED
      BY <2>2, <3>1, <3>2 DEF MicKnown, WillCollect
  <2> QED
    BY <2>1, <2>2
<1> QED
  BY <1>1, <1>2, <1>3, PTL DEF Spec
=============================================================================
