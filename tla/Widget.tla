------------------------------- MODULE Widget -------------------------------
(***************************************************************************)
(* The main window of the client: its buttons, the tiles of the room's      *)
(* members, microphone, speaker and camera, as the buttons and the          *)
(* messages handed over by RecvSolve (datasolve) change them.               *)
(*                                                                          *)
(* A message box runs an event loop of its own: what follows the box in its *)
(* handler is a later action, and frames of the camera, textSend and, under *)
(* the box of a button, whole messages are handled before it.  A box that   *)
(* nothing follows is a user who presses nothing.  Session models the       *)
(* threads behind connect and disconnect, which are single steps here.      *)
(***************************************************************************)
EXTENDS Integers, Sequences, FiniteSets

CONSTANTS
  Others,           \* addresses the server names to this client
  Own,              \* this client's address while it is connected
  Unconnected,      \* 0, that of an open socket whose connection is lost
  NoSocket,         \* -1, which stands for that of a closed socket
  MaxAsked,         \* bound: requests on their way to the server
  MaxMic            \* bound: signals on their way to AudioInput

\* A client on the same machine has this client's own address.
ASSUME WidgetAssumption ==
  /\ Own # Unconnected /\ Own # NoSocket /\ Unconnected # NoSocket
  /\ IsFiniteSet(Others) /\ MaxAsked \in Nat /\ MaxMic \in Nat

VARIABLES
  enabled,          \* the buttons that can be pressed
  createmeet, joinmeet,
  partner,          \* address |-> "tile", or "null" for a null pointer
  iplist,           \* how often each address is offered after an '@'
  audioText,        \* label of openAudio: "open" or "close"
  collecting,       \* AudioInput reads the microphone
  micPosted,        \* startAudio and stopAudio on their way to its thread
  playing,          \* AudioOutput has a device
  camera,           \* "off", "on", or "late": stopped with a frame on its way
  text,             \* "sending": on its way to the server; "over": sent, and
                    \* textSend is due
  net,              \* the socket: "closed", "open", "lost" and told so, or
                    \* "silent": lost and not told
  place,            \* what the server takes the client for, or took it for
  asked,            \* requests on their way to the server
  handed,           \* the message RecvSolve hands over
  news,             \* that of a loss, queued behind it
  modal,            \* the message box of a button
  solving,          \* the message box of datasolve
  overrun,          \* stopCollect() overtook a startAudio (history)
  early,            \* the camera has been on without this client's entry, since
                    \* the tiles were last cleared (history)
  broken            \* what left connServer disabled, if anything (history)

audioVars == <<audioText, collecting, micPosted, playing, overrun>>
roomVars == <<createmeet, joinmeet, partner, iplist, early>>
netVars == <<net, place, asked, news>>
boxVars == <<modal, solving>>
vars == <<enabled, roomVars, audioVars, camera, netVars, text, handed,
          boxVars, broken>>

Buttons == {"createmeetBtn", "joinmeetBtn", "exitmeetBtn", "connServer",
            "openAudio", "openVedio", "sendmsg"}

Requests == {"create", "join"}

Nothing == [kind |-> "none"]
FromMember == [kind : {"img", "join", "exit"}, ip : Others]
              \cup [kind : {"join2"}, ips : SUBSET Others \ {{}}]
              \cup [kind : {"show"}]
Responses == [kind : {"created", "joined", "missing"}]
Losses == [kind : {"closed", "error"}]
Messages == FromMember \cup Responses \cup Losses

\* The user reaches the buttons only when no message box is open.
UserFree == modal = "none" /\ solving = "none"

Pressed(b) == UserFree /\ b \in enabled

Lost == net \in {"lost", "silent"}

getlocalip == CASE net = "open" -> Own
                [] Lost -> Unconnected
                [] net = "closed" -> NoSocket

Init ==
  /\ enabled = {"connServer"}
  /\ createmeet = FALSE /\ joinmeet = FALSE
  /\ partner = [k \in {} |-> "tile"] /\ iplist = [ip \in Others |-> 0]
  /\ audioText = "open" /\ collecting = FALSE /\ micPosted = <<>>
  /\ playing = FALSE /\ overrun = FALSE
  /\ camera = "off" /\ early = FALSE
  /\ net = "closed" /\ place = "none" /\ asked = <<>>
  /\ text = "none"
  /\ handed = Nothing /\ news = Nothing /\ modal = "none" /\ solving = "none"
  /\ broken = "no"

-----------------------------------------------------------------------------
(* Tiles.                                                                   *)

Shown == DOMAIN partner

\* addPartner for each address: with two tiles there is sound.
Added(ips) == [k \in Shown \cup ips |-> IF k \in Shown THEN partner[k] ELSE "tile"]

Company(ips) == ips \ Shown # {} /\ Cardinality(Shown \cup ips) > 1

ForCompany(ips) == IF Company(ips) THEN {"openAudio", "sendmsg"} ELSE {}

AddPartners(ips) ==
  /\ partner' = Added(ips)
  /\ playing' = (playing \/ Company(ips))
  /\ UNCHANGED early

Posted(signal) == \E i \in 1..Len(micPosted) : micPosted[i] = signal

\* AudioInput::stopCollect(), called from this thread.
StopCollect ==
  /\ collecting' = FALSE
  /\ overrun' = Posted("start")

MutantRemovePartner(ip) ==
  IF ip \in Shown
    THEN /\ partner' = [k \in Shown \ {ip} |-> partner[k]]
         /\ early' = (early \/ (ip = getlocalip /\ camera # "off"))
         /\ IF Cardinality(Shown \ {ip}) < 1
              THEN /\ StopCollect /\ playing' = FALSE /\ audioText' = "open"
                   /\ enabled' = enabled \ {"openAudio"}
              ELSE UNCHANGED <<collecting, overrun, playing, audioText, enabled>>
    ELSE UNCHANGED <<partner, early, collecting, overrun, playing, audioText,
                     enabled>>

MutantRemoveListening(ip) ==
  IF ip \in Shown
    THEN /\ partner' = [k \in Shown \ {ip} |-> partner[k]]
         /\ early' = (early \/ (ip = getlocalip /\ camera # "off"))
         /\ IF Cardinality(Shown \ {ip}) <= 1
              THEN /\ playing' = FALSE /\ audioText' = "open"
                   /\ enabled' = enabled \ {"openAudio"}
                   /\ UNCHANGED <<collecting, overrun>>
              ELSE UNCHANGED <<collecting, overrun, playing, audioText, enabled>>
    ELSE UNCHANGED <<partner, early, collecting, overrun, playing, audioText,
                     enabled>>

\* The one who is left alone neither speaks nor hears.
RemovePartner(ip) ==
  IF ip \in Shown
    THEN /\ partner' = [k \in Shown \ {ip} |-> partner[k]]
         /\ early' = (early \/ (ip = getlocalip /\ camera # "off"))
         /\ IF Cardinality(Shown \ {ip}) <= 1
              THEN /\ StopCollect
                   /\ playing' = FALSE
                   /\ audioText' = "open"
                   /\ enabled' = enabled \ {"openAudio"}
              ELSE UNCHANGED <<collecting, overrun, playing, audioText, enabled>>
    ELSE UNCHANGED <<partner, early, collecting, overrun, playing, audioText,
                     enabled>>

\* clearPartner returns at once when there are no tiles.  The label it leaves
\* on openAudio is CLOSEAUDIO.
ClearPartner ==
  /\ partner' = [k \in {} |-> "tile"]
  /\ early' = (camera' # "off")
  /\ IF Shown = {}
       THEN UNCHANGED <<audioText, collecting, playing, overrun>>
       ELSE /\ StopCollect
            /\ playing' = FALSE
            /\ audioText' = "close"

Cleared == IF Shown = {} THEN {} ELSE {"openAudio", "openVedio"}

\* disconnectFromHost clears the queues; the last of the requests, which SendText
\* still holds, come later.
Disconnect ==
  /\ net' = "closed" /\ place' = "none" /\ news' = Nothing
  /\ asked' \in {SubSeq(asked, n, Len(asked)) : n \in 1..(Len(asked) + 1)}
  /\ text' \in {text} \cup IF text = "sending" THEN {"none"} ELSE {}

-----------------------------------------------------------------------------
(* Buttons.                                                                 *)

\* Sending what is left of the last session, or failing, may emit
\* sendTextOver or report an error before the connection is there (bound: such
\* an error comes when no message is in hand).
Connect ==
  /\ Pressed("connServer")
  /\ text' \in {text, "over"}
  /\ \/ /\ net' = "open" /\ place' = "lobby" /\ modal' = "connected"
        /\ enabled' = (enabled \cup {"createmeetBtn", "joinmeetBtn"})
                        \ {"openAudio", "openVedio", "exitmeetBtn"}
        /\ early' = (early \/ camera # "off")
        /\ UNCHANGED handed
     \/ /\ net' = "closed"
        /\ handed' \in {handed} \cup IF handed = Nothing THEN Losses ELSE {}
        /\ UNCHANGED <<place, enabled, modal, early>>
  /\ UNCHANGED <<createmeet, joinmeet, partner, iplist, audioVars, camera, asked,
                 news, solving, broken>>

MutantConnectedSeen ==
  /\ modal = "connected" /\ solving = "none"
  /\ modal' = "none"
  /\ enabled' = enabled \cup {"sendmsg"}
  /\ UNCHANGED <<roomVars, audioVars, camera, netVars, text, handed, solving, broken>>

\* The box that announces the connection is closed; what follows it takes the
\* client for connected still.
ConnectedSeen ==
  /\ modal = "connected" /\ solving = "none"
  /\ modal' = "none"
  /\ enabled' = (enabled \cup {"sendmsg"}) \ {"connServer"}
  /\ UNCHANGED <<roomVars, audioVars, camera, netVars, text, handed, solving,
                 broken>>

CreateMeeting ==
  /\ Pressed("createmeetBtn")
  /\ ~createmeet
  /\ Len(asked) < MaxAsked
  /\ asked' = Append(asked, "create")
  /\ enabled' = enabled \ {"createmeetBtn", "openAudio", "openVedio", "exitmeetBtn"}
  /\ UNCHANGED <<roomVars, audioVars, camera, net, place, news, text,
                 handed, boxVars, broken>>

\* The button stays enabled: the request can be made twice.
JoinMeeting ==
  /\ Pressed("joinmeetBtn")
  /\ Len(asked) < MaxAsked
  /\ asked' = Append(asked, "join")
  /\ UNCHANGED <<enabled, roomVars, audioVars, camera, net, place, news, text,
                 handed, boxVars, broken>>

CameraStops == camera' \in IF camera = "on" THEN {"off", "late"} ELSE {camera}

MutantExitMeeting ==
  /\ Pressed("exitmeetBtn")
  /\ CameraStops
  /\ createmeet' = FALSE /\ joinmeet' = FALSE
  /\ ClearPartner
  /\ Disconnect
  /\ enabled' = (enabled \ (Cleared \cup {"createmeetBtn", "exitmeetBtn"}))
                  \cup {"connServer"}
  /\ broken' = "no"
  /\ handed' \in {Nothing, handed}
  /\ UNCHANGED <<iplist, micPosted, boxVars>>

ExitMeeting ==
  /\ Pressed("exitmeetBtn")
  /\ CameraStops
  /\ createmeet' = FALSE /\ joinmeet' = FALSE
  /\ ClearPartner
  /\ Disconnect
  /\ enabled' = (enabled \ (Cleared \cup {"createmeetBtn", "exitmeetBtn"}))
                  \cup {"connServer"}
  /\ iplist' = [ip \in Others |-> 0]
  /\ broken' = "no"
  /\ handed' \in {Nothing, handed}
  /\ UNCHANGED <<micPosted, boxVars>>

\* CLOSE_CAMERA may be dropped unconnected, as in FrameDropped.
OpenVedio ==
  /\ Pressed("openVedio")
  /\ IF camera = "on"
       THEN CameraStops /\ UNCHANGED early
       ELSE camera' = "on" /\ early' = (early \/ getlocalip \notin Shown)
  /\ text' \in {text} \cup
       IF camera = "on" /\ Lost /\ text = "none" THEN {"over"} ELSE {}
  /\ UNCHANGED <<enabled, createmeet, joinmeet, partner, iplist, audioVars, netVars,
                 handed, boxVars, broken>>

OpenAudio ==
  /\ Pressed("openAudio")
  /\ createmeet \/ joinmeet
  /\ Len(micPosted) < MaxMic
  /\ micPosted' = Append(micPosted, IF audioText = "open" THEN "start" ELSE "stop")
  /\ audioText' = IF audioText = "open" THEN "close" ELSE "open"
  /\ UNCHANGED <<enabled, roomVars, collecting, playing, overrun, camera,
                 netVars, text, handed, boxVars, broken>>

\* The button is pressed again after textSend only (bound: one text at a time).
Sendmsg ==
  /\ Pressed("sendmsg")
  /\ text = "none"
  /\ text' = "sending"
  /\ enabled' = enabled \ {"sendmsg"}
  /\ UNCHANGED <<roomVars, audioVars, camera, netVars, handed, boxVars, broken>>

-----------------------------------------------------------------------------
(* datasolve: a message that needs no answer of the user.                   *)

Unasked == UNCHANGED <<createmeet, joinmeet, camera, netVars, text,
                       boxVars, broken, micPosted>>

\* RecvSolve goes on when datasolve returns.
Handing(kind) == solving = "none" /\ handed.kind = kind

MutantDatasolveImg ==
  /\ Handing("img")
  /\ partner' = [k \in Shown \cup {handed.ip} |-> IF k \in Shown THEN partner[k] ELSE "null"]
  /\ handed' = Nothing
  /\ Unasked
  /\ UNCHANGED <<enabled, iplist, early, audioText, collecting, overrun, playing>>

\* A picture of somebody unknown adds the tile, and no name to iplist.
DatasolveImg ==
  /\ Handing("img")
  /\ AddPartners({handed.ip})
  /\ enabled' = enabled \cup ForCompany({handed.ip})
  /\ handed' = Nothing
  /\ Unasked /\ UNCHANGED <<iplist, audioText, collecting, overrun>>

\* PARTNER_JOIN and PARTNER_JOIN2; the latter also enables the camera.
DatasolveJoin ==
  /\ \/ Handing("join") \/ Handing("join2")
  /\ LET ips == IF handed.kind = "join" THEN {handed.ip} ELSE handed.ips
         camerabutton == IF handed.kind = "join2" THEN {"openVedio"} ELSE {}
     IN /\ AddPartners(ips)
        /\ enabled' = enabled \cup ForCompany(ips) \cup camerabutton
        /\ iplist' = [ip \in Others |-> iplist[ip] + IF ip \in ips \ Shown THEN 1 ELSE 0]
  /\ handed' = Nothing
  /\ Unasked /\ UNCHANGED <<audioText, collecting, overrun>>

MutantDatasolveExit ==
  /\ Handing("exit")
  /\ RemovePartner(handed.ip)
  /\ iplist' = [iplist EXCEPT ![handed.ip] = @ - 1]
  /\ handed' = Nothing
  /\ Unasked

DatasolveExit ==
  /\ Handing("exit")
  /\ RemovePartner(handed.ip)
  /\ iplist' = [iplist EXCEPT ![handed.ip] = IF @ = 0 THEN 0 ELSE @ - 1]
  /\ handed' = Nothing
  /\ Unasked

\* CLOSE_CAMERA changes the picture of a tile, if there is one; a text is
\* listed; that the room is full is said in a box, and nothing follows it.
DatasolveShow ==
  /\ solving = "none" /\ handed.kind = "show"
  /\ handed' = Nothing
  /\ Unasked /\ UNCHANGED <<enabled, partner, iplist, early, audioText, collecting,
                            playing, overrun>>

MutantDatasolveClosed ==
  /\ Handing("closed")
  /\ UNCHANGED camera
  /\ ClearPartner
  /\ Disconnect
  /\ enabled' = enabled \ (Cleared \cup {"createmeetBtn", "exitmeetBtn", "joinmeetBtn"})
  /\ iplist' = [ip \in Others |-> 0]
  /\ broken' = IF modal = "connected" THEN "underBox" ELSE "no"
  /\ handed' = Nothing
  /\ UNCHANGED <<createmeet, joinmeet, micPosted, boxVars>>

\* The connection is closed by the server.  createmeet, joinmeet and the
\* camera stay as they are.
DatasolveClosed ==
  /\ Handing("closed")
  /\ UNCHANGED camera
  /\ ClearPartner
  /\ Disconnect
  /\ enabled' = (enabled \ (Cleared \cup {"createmeetBtn", "exitmeetBtn", "joinmeetBtn"}))
                  \cup {"connServer"}
  /\ iplist' = [ip \in Others |-> 0]
  /\ broken' = IF modal = "connected" THEN "underBox" ELSE "no"
  /\ handed' = Nothing
  /\ UNCHANGED <<createmeet, joinmeet, micPosted, boxVars>>

-----------------------------------------------------------------------------
(* datasolve: a message that opens a box, and what follows the box.         *)

DatasolveAsks ==
  /\ solving = "none"
  /\ handed.kind \in {"created", "joined", "missing", "error"}
  /\ solving' = handed.kind
  /\ UNCHANGED <<enabled, roomVars, audioVars, camera, netVars, text,
                 handed, modal, broken>>

Answered(kind) == solving = kind /\ solving' = "none" /\ handed' = Nothing

\* createmeet or joinmeet is set when the box is closed; the own tile is added
\* unless a frame of the camera has inserted a null pointer.
AnsweredCreated ==
  /\ Answered("created")
  /\ createmeet' = TRUE
  /\ AddPartners({getlocalip})
  /\ enabled' = (enabled \cup {"exitmeetBtn", "openVedio"}
                   \cup ForCompany({getlocalip})) \ {"joinmeetBtn"}
  /\ UNCHANGED <<joinmeet, iplist, audioText, collecting, micPosted, overrun,
                 camera, netVars, text, modal, broken>>

AnsweredJoined ==
  /\ Answered("joined")
  /\ joinmeet' = TRUE
  /\ AddPartners({getlocalip})
  /\ enabled' = (enabled \cup {"exitmeetBtn"} \cup ForCompany({getlocalip}))
                  \ {"joinmeetBtn", "createmeetBtn"}
  /\ UNCHANGED <<createmeet, iplist, audioText, collecting, micPosted, overrun,
                 camera, netVars, text, modal, broken>>

AnsweredMissing ==
  /\ Answered("missing")
  /\ joinmeet' = FALSE
  /\ enabled' = (enabled \cup {"joinmeetBtn"})
                  \ {"exitmeetBtn", "openVedio", "connServer"}
  /\ UNCHANGED <<createmeet, partner, iplist, early, audioVars, camera, netVars,
                 text, modal, broken>>

\* After a network error the buttons and iplist stay as they are.
AnsweredError ==
  /\ Answered("error")
  /\ UNCHANGED camera
  /\ ClearPartner
  /\ Disconnect
  /\ enabled' = enabled \ Cleared
  /\ broken' = "error"
  /\ UNCHANGED <<createmeet, joinmeet, iplist, micPosted, modal>>

-----------------------------------------------------------------------------
(* Events of the camera and the other threads, handled under a box, too.    *)

\* partner[getlocalip()] inserts a null pointer for an address without a tile.
CameraImageCapture ==
  /\ camera # "off"
  /\ camera' = IF camera = "late" THEN "off" ELSE camera
  /\ partner' = [k \in Shown \cup {getlocalip} |->
                   IF k \in Shown THEN partner[k] ELSE "null"]
  /\ UNCHANGED <<enabled, createmeet, joinmeet, iplist, early, audioVars, netVars,
                 text, handed, boxVars, broken>>

\* startCollect and stopCollect in AudioInput's own thread.
Collect ==
  /\ micPosted # <<>>
  /\ micPosted' = Tail(micPosted)
  /\ collecting' = (Head(micPosted) = "start")
  /\ UNCHANGED <<enabled, roomVars, audioText, playing, overrun, camera,
                 netVars, text, handed, boxVars, broken>>

MutantTextGone ==
  /\ text = "sending" /\ net # "closed"
  /\ text' = "none"
  /\ UNCHANGED <<enabled, roomVars, audioVars, camera, netVars, handed, boxVars, broken>>

\* sendData has written the text, or dropped it unconnected.
TextGone ==
  /\ text = "sending" /\ net # "closed"
  /\ text' = "over"
  /\ UNCHANGED <<enabled, roomVars, audioVars, camera, netVars, handed,
                 boxVars, broken>>

\* sendTextOver is emitted for whatever is dropped unconnected.
FrameDropped ==
  /\ Lost /\ text = "none"
  /\ asked # <<>> \/ collecting \/ (camera = "on" /\ Cardinality(Shown) > 1)
  /\ asked' = IF asked = <<>> THEN <<>> ELSE Tail(asked)
  /\ text' = "over"
  /\ UNCHANGED <<enabled, roomVars, audioVars, camera, net, place, news,
                 handed, boxVars, broken>>

TextSend ==
  /\ text = "over"
  /\ text' = "none"
  /\ enabled' = enabled \cup {"sendmsg"}
  /\ UNCHANGED <<roomVars, audioVars, camera, netVars, handed, boxVars, broken>>

-----------------------------------------------------------------------------
(* The server, as far as this client sees it; RecvSolve has one message in  *)
(* hand and the others are taken as not yet sent.                           *)

ServerUnchanged == UNCHANGED <<enabled, roomVars, audioVars, camera, text,
                               boxVars, broken>>

Idle == handed = Nothing /\ news = Nothing

Sends(kind) == Idle /\ handed' = [kind |-> kind]

Answer ==
  /\ net = "open" /\ asked # <<>>
  /\ asked' = Tail(asked)
  /\ \/ place = "lobby" /\ Head(asked) = "create" /\ place' = "room" /\ Sends("created")
     \/ place = "lobby" /\ Head(asked) = "join" /\ place' = "lobby"
          /\ (Sends("missing") \/ Sends("show"))
     \/ place = "lobby" /\ Head(asked) = "join" /\ place' = "joining" /\ UNCHANGED handed
     \/ place \in {"joining", "room"} /\ UNCHANGED <<place, handed>>
  /\ ServerUnchanged /\ UNCHANGED <<net, news>>

\* The answer to a join may come after the first frames of the room.
AnswerJoined ==
  /\ net = "open" /\ place = "joining"
  /\ place' = "room" /\ Sends("joined")
  /\ ServerUnchanged /\ UNCHANGED <<net, asked, news>>

MemberSends ==
  /\ net = "open" /\ place \in {"joining", "room"}
  /\ Idle
  /\ handed' \in FromMember
  /\ ServerUnchanged /\ UNCHANGED <<net, place, asked, news>>

\* errorDetect queues the news of the loss behind what is in hand, if Qt knows
\* the signal that it is connected to.
Lose ==
  /\ net = "open"
  /\ \/ net' = "lost" /\ place' = "none"
        /\ IF handed = Nothing
             THEN handed' \in Losses /\ UNCHANGED news
             ELSE news' \in Losses /\ UNCHANGED handed
     \/ net' = "silent" /\ place' = (IF place = "room" THEN "room" ELSE "none")
        /\ UNCHANGED <<handed, news>>
  /\ ServerUnchanged /\ UNCHANGED asked

\* RecvSolve takes the news when what it had in hand is done with.
TakeNews ==
  /\ handed = Nothing /\ news # Nothing
  /\ handed' = news /\ news' = Nothing
  /\ ServerUnchanged /\ UNCHANGED <<net, place, asked>>

-----------------------------------------------------------------------------
Button == \/ Connect \/ ConnectedSeen \/ CreateMeeting \/ JoinMeeting \/ ExitMeeting
          \/ OpenVedio \/ OpenAudio \/ Sendmsg
Datasolve == \/ DatasolveImg \/ DatasolveJoin \/ DatasolveExit \/ DatasolveShow
             \/ DatasolveClosed \/ DatasolveAsks \/ AnsweredCreated
             \/ AnsweredJoined \/ AnsweredMissing \/ AnsweredError
Event == CameraImageCapture \/ Collect \/ TextGone \/ FrameDropped \/ TextSend
Server == Answer \/ AnswerJoined \/ MemberSends \/ Lose \/ TakeNews

Next == Button \/ Datasolve \/ Event \/ Server

Spec == Init /\ [][Next]_vars

-----------------------------------------------------------------------------
(* Properties.                                                              *)

\* Types of the variables.
TypeOK ==
  /\ enabled \subseteq Buttons
  /\ createmeet \in BOOLEAN /\ joinmeet \in BOOLEAN
  /\ Shown \subseteq Others \cup {Own, Unconnected, NoSocket}
  /\ partner \in [Shown -> {"tile", "null"}]
  /\ iplist \in [Others -> Nat]
  /\ audioText \in {"open", "close"} /\ collecting \in BOOLEAN
  /\ micPosted \in Seq({"start", "stop"}) /\ Len(micPosted) <= MaxMic
  /\ playing \in BOOLEAN /\ overrun \in BOOLEAN /\ early \in BOOLEAN
  /\ camera \in {"off", "on", "late"}
  /\ net \in {"closed", "open", "lost", "silent"}
  /\ place \in {"none", "lobby", "joining", "room"}
  /\ asked \in Seq(Requests) /\ Len(asked) <= MaxAsked
  /\ text \in {"none", "sending", "over"}
  /\ handed \in Messages \cup {Nothing} /\ news \in Losses \cup {Nothing}
  /\ modal \in {"none", "connected"}
  /\ solving \in {"none", "created", "joined", "missing", "error"}
  /\ broken \in {"no", "error", "underBox"}

\* A connected client is never made to connect again: whatever boxes were open
\* when the connection came and went, connServer can be pressed only when the
\* socket is closed (widget.cpp 862-864, 1081).
OneConnection == Pressed("connServer") => net = "closed"

\* The user is never left without a button that leads on or a message that will
\* enable one, but for a network error outside a room, a connection lost under
\* the box that announces it, and a connection lost outside a room of which no
\* news comes (mytcpsocket.cpp 538; widget.cpp 853-864, 1081, 1095-1102).
WayOn ==
  UserFree =>
    /\ net = "open" => enabled \cap {"joinmeetBtn", "exitmeetBtn"} # {}
    /\ net = "closed" /\ broken = "no" => enabled \cap {"connServer", "exitmeetBtn"} # {}
    /\ net = "lost" => news # Nothing \/ handed.kind \in {"closed", "error"}
    /\ net = "silent" /\ place = "room" =>
         "exitmeetBtn" \in enabled \/ handed.kind \in {"created", "joined"}

\* Sound is played, and the microphone offered, only to somebody who has the
\* tile of another client before him, but for what a frame of the camera or an
\* answer that came without a connection has left under the address 0 or -1,
\* which counts as company (widget.cpp 634, 921, 1133-1141, 1156-1165).
SoundNeedsCompany ==
  playing \/ "openAudio" \in enabled =>
    \/ Shown \cap (Others \ {Own}) # {}
    \/ Shown \cap {Unconnected, NoSocket} # {}

\* While the microphone is read, the button offers to close it, or a stop is
\* on its way; but for a startAudio that stopCollect() overtook (widget.cpp
\* 802-812, 1161, 1189-1191).
MicIsShown ==
  collecting => audioText = "close" \/ Posted("stop") \/ overrun

\* Who is offered after an '@' has a tile, unless a network error has cleared
\* the tiles and not the list (widget.cpp 1014-1042, 1095-1102).
MentionsAreShown == broken # "error" => \A ip \in Others : iplist[ip] > 0 => ip \in Shown

\* Pictures and closed cameras are shown without a test for a null pointer: there
\* is none under any address, a member's or this client's own, as long as the
\* camera is switched on only with this client's entry in place, and off before
\* the entry goes and before the next connection; but for the address 0 when the
\* connection is lost (widget.cpp 634, 787, 815-829, 983-992).
EntriesAreTiles ==
  ~early => \A k \in Shown \ {Unconnected} : partner[k] = "tile"

\* A text that has been sent enables the button again: while connected, it is
\* disabled only until sendTextOver arrives (widget.cpp 1270-1271, 1310-1317).
SendmsgComesBack ==
  UserFree /\ net = "open" /\ "sendmsg" \notin enabled => text # "none"
=============================================================================
