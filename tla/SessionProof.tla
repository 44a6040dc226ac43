---------------------------- MODULE SessionProof ----------------------------
(***************************************************************************)
(* What one session of the client leaves behind does not reach the next,    *)
(* and feeders of queue_send are woken, for any number of sessions, feeders *)
(* and messages and any size of the queues.                                 *)
(***************************************************************************)
EXTENDS Session, FiniteSetTheorems, TLAPS

-----------------------------------------------------------------------------
(* Types, one part for each group of variables.                             *)

UiType == /\ ui \in UiPlaces /\ online \in BOOLEAN /\ handling \in BOOLEAN
          /\ session \in 0..MaxSessions
SockType == /\ conn \in 0..MaxSessions /\ sock \in {"off", "loop", "push"}
            /\ quitting \in BOOLEAN /\ received \in Message /\ count \in 0..MaxReceived
PostedType == posted \in Seq(Event)
RunType == /\ run \in {"off", "start", "test", "pop", "post"}
           /\ serving \in 0..MaxSessions /\ m_isCanRun \in BOOLEAN
SendType == /\ queue_send \in Seq({"message"}) /\ Len(queue_send) <= QUEUE_MAXSIZE + 1
            /\ sendAsleep \subseteq Feeders \cup {Sender}
FeedType == /\ fed \in [Feeders -> 0..MaxAsked] /\ asked \in [Feeders -> 0..MaxAsked]
            /\ feed \in [Feeders -> {"take", "push", "off"}]
            /\ \A f \in Feeders : fed[f] <= asked[f]
RecvType == /\ queue_recv \in Seq(Message) /\ Len(queue_recv) <= QUEUE_MAXSIZE + 1
            /\ recvAsleep \subseteq {Sock, Solver}
SolveType == solve \in {"pop", "emit", "off"} /\ solved \in Message /\ recvCanRun \in BOOLEAN
AudioType == /\ audio_recv \in Seq(Message) /\ Len(audio_recv) <= QUEUE_MAXSIZE + 1
             /\ audioAsleep \subseteq {Sock, Speaker} /\ play \in {"pop", "off"}

Typed == /\ UiType /\ SockType /\ PostedType /\ RunType /\ SendType /\ FeedType
         /\ RecvType /\ SolveType /\ AudioType /\ stranded \in BOOLEAN

\* The parts imply the type invariant.
LEMMA TypedIsTypeOK == Typed => TypeOK
BY DEF Typed, TypeOK, UiType, SockType, PostedType, RunType, SendType, FeedType,
       RecvType, SolveType, AudioType

\* The initial state is well typed.
LEMMA InitTyped == Init => Typed
<1> SUFFICES ASSUME Init PROVE Typed
  OBVIOUS
<1>1. \A S : <<>> \in Seq(S)
  OBVIOUS
<1>2. QUEUE_MAXSIZE \in Nat /\ MaxSessions \in Nat /\ MaxAsked \in Nat /\ MaxReceived \in Nat
  BY SessionAssumption
<1>3. NoMessage \in Message
  BY <1>2 DEF NoMessage, Message
<1>a. ui = "idle" /\ session = 0 /\ conn = 0 /\ sock = "off" /\ received = NoMessage /\ count = 0
  BY DEF Init
<1>b. online = FALSE /\ handling = FALSE /\ quitting = FALSE
  BY Zenon DEF Init
<1>c. online \in BOOLEAN /\ handling \in BOOLEAN /\ quitting \in BOOLEAN
  BY <1>b
<1>4. UiType
  BY <1>2, <1>a, <1>c DEF UiType, UiPlaces
<1>7. SockType
  BY <1>2, <1>3, <1>a, <1>c DEF SockType
<1>8. PostedType
  BY <1>1 DEF Init, PostedType
<1>5. RunType /\ SendType /\ FeedType
  BY <1>1, <1>2 DEF Init, RunType, SendType, FeedType
<1>6. RecvType /\ SolveType /\ AudioType
  BY <1>1, <1>2, <1>3 DEF Init, RecvType, SolveType, AudioType
<1> QED
  BY <1>4, <1>5, <1>6, <1>7, <1>8 DEF Init, Typed

\* A queue keeps its type: one message more than its bound is as far as
\* push_msg goes.
LEMMA SendQTyped ==
  ASSUME SendType, NEW t \in Feeders \cup {Sender},
         \/ SendQ!Push(t, "message") \/ SendQ!PushWaits(t) \/ SendQ!Pop(t)
         \/ SendQ!PopWaits(t) \/ SendQ!TimesOut(t) \/ SendQ!Clear
  PROVE  SendType'
<1>1. QUEUE_MAXSIZE \in Nat /\ Len(queue_send) \in Nat /\ "message" \in {"message"}
  BY SessionAssumption DEF SendType
<1>2. CASE SendQ!Push(t, "message")
  BY <1>1, <1>2 DEF SendType, SendQ!Push, SendQ!TooLong, SendQ!WakeOne
<1>3. CASE SendQ!PushWaits(t)
  BY <1>1, <1>3 DEF SendType, SendQ!PushWaits
<1>4. CASE SendQ!Pop(t)
  BY <1>1, <1>4 DEF SendType, SendQ!Pop, SendQ!WakeOne
<1>5. CASE SendQ!PopWaits(t)
  BY <1>1, <1>5 DEF SendType, SendQ!PopWaits
<1>6. CASE SendQ!TimesOut(t)
  BY <1>1, <1>6 DEF SendType, SendQ!TimesOut
<1>7. CASE SendQ!Clear
  BY <1>1, <1>7 DEF SendType, SendQ!Clear
<1> QED
  BY <1>2, <1>3, <1>4, <1>5, <1>6, <1>7

\* The same for queue_recv, of which RecvSolve takes a message.
LEMMA RecvQTyped ==
  ASSUME RecvType, NEW t \in {Sock, Solver}, NEW m \in Message,
         \/ RecvQ!Push(t, m) \/ RecvQ!PushWaits(t) \/ RecvQ!Pop(t)
         \/ RecvQ!PopWaits(t) \/ RecvQ!TimesOut(t) \/ RecvQ!Clear
  PROVE  RecvType'
<1>1. QUEUE_MAXSIZE \in Nat /\ Len(queue_recv) \in Nat
  BY SessionAssumption DEF RecvType
<1>2. CASE RecvQ!Push(t, m)
  BY <1>1, <1>2 DEF RecvType, RecvQ!Push, RecvQ!TooLong, RecvQ!WakeOne
<1>3. CASE RecvQ!PushWaits(t)
  BY <1>1, <1>3 DEF RecvType, RecvQ!PushWaits
<1>4. CASE RecvQ!Pop(t)
  BY <1>1, <1>4 DEF RecvType, RecvQ!Pop, RecvQ!WakeOne
<1>5. CASE RecvQ!PopWaits(t)
  BY <1>1, <1>5 DEF RecvType, RecvQ!PopWaits
<1>6. CASE RecvQ!TimesOut(t)
  BY <1>1, <1>6 DEF RecvType, RecvQ!TimesOut
<1>7. CASE RecvQ!Clear
  BY <1>1, <1>7 DEF RecvType, RecvQ!Clear
<1> QED
  BY <1>2, <1>3, <1>4, <1>5, <1>6, <1>7

AudioQueueType == /\ audio_recv \in Seq(Message) /\ Len(audio_recv) <= QUEUE_MAXSIZE + 1
                  /\ audioAsleep \subseteq {Sock, Speaker}

\* The same for audio_recv.
LEMMA AudioQTyped ==
  ASSUME AudioQueueType, NEW t \in {Sock, Speaker}, NEW m \in Message,
         \/ AudioQ!Push(t, m) \/ AudioQ!PushWaits(t) \/ AudioQ!Pop(t)
         \/ AudioQ!PopWaits(t) \/ AudioQ!TimesOut(t) \/ AudioQ!Clear
  PROVE  AudioQueueType'
<1>1. QUEUE_MAXSIZE \in Nat /\ Len(audio_recv) \in Nat
  BY SessionAssumption DEF AudioQueueType
<1>2. CASE AudioQ!Push(t, m)
  BY <1>1, <1>2 DEF AudioQueueType, AudioQ!Push, AudioQ!TooLong, AudioQ!WakeOne
<1>3. CASE AudioQ!PushWaits(t)
  BY <1>1, <1>3 DEF AudioQueueType, AudioQ!PushWaits
<1>4. CASE AudioQ!Pop(t)
  BY <1>1, <1>4 DEF AudioQueueType, AudioQ!Pop, AudioQ!WakeOne
<1>5. CASE AudioQ!PopWaits(t)
  BY <1>1, <1>5 DEF AudioQueueType, AudioQ!PopWaits
<1>6. CASE AudioQ!TimesOut(t)
  BY <1>1, <1>6 DEF AudioQueueType, AudioQ!TimesOut
<1>7. CASE AudioQ!Clear
  BY <1>1, <1>7 DEF AudioQueueType, AudioQ!Clear
<1> QED
  BY <1>2, <1>3, <1>4, <1>5, <1>6, <1>7

\* The sending thread.
LEMMA SenderTyped ==
  ASSUME Typed, SenderStep
  PROVE  Typed'
<1> USE DEF uiVars, sockVars, runVars, sendVars, feedVars, recvVars, solveVars, audioVars
<1>0. /\ UiType /\ SockType /\ PostedType /\ RunType /\ SendType /\ FeedType
      /\ RecvType /\ SolveType /\ AudioType /\ stranded \in BOOLEAN
  BY DEF Typed
<1>1. CASE SenderBegins
  <2>p1. RunType'
    BY <1>0, <1>1 DEF SenderBegins, SenderUnchanged, RunType
  <2> QED
    BY <1>0, <1>1, <2>p1 DEF SenderBegins, SenderUnchanged, Typed, UiType, SockType, PostedType, SendType, FeedType, RecvType, SolveType, AudioType
<1>2. CASE SenderTests
  <2>p1. RunType'
    BY <1>0, <1>2 DEF SenderTests, SenderUnchanged, RunType
  <2> QED
    BY <1>0, <1>2, <2>p1 DEF SenderTests, SenderUnchanged, Typed, UiType, SockType, PostedType, SendType, FeedType, RecvType, SolveType, AudioType
<1>3. CASE SenderPops
  <2>p1. RunType'
    BY <1>0, <1>3 DEF SenderPops, SenderUnchanged, RunType
  <2>p2. SendType'
    BY <1>0, <1>3, SendQTyped DEF SenderPops
  <2> QED
    BY <1>0, <1>3, <2>p1, <2>p2 DEF SenderPops, SenderUnchanged, Typed, UiType, SockType, PostedType, FeedType, RecvType, SolveType, AudioType
<1>4. CASE SenderWaits
  <2>p1. SendType'
    BY <1>0, <1>4, SendQTyped DEF SenderWaits
  <2> QED
    BY <1>0, <1>4, <2>p1 DEF SenderWaits, SenderUnchanged, Typed, UiType, SockType, PostedType, RunType, FeedType, RecvType, SolveType, AudioType
<1>5. CASE SenderTimesOut
  <2>p1. RunType'
    BY <1>0, <1>5 DEF SenderTimesOut, SenderUnchanged, RunType
  <2>p2. SendType'
    BY <1>0, <1>5, SendQTyped DEF SenderTimesOut
  <2> QED
    BY <1>0, <1>5, <2>p1, <2>p2 DEF SenderTimesOut, SenderUnchanged, Typed, UiType, SockType, PostedType, FeedType, RecvType, SolveType, AudioType
<1>6. CASE SenderPosts
  <2>p1. RunType'
    BY <1>0, <1>6 DEF SenderPosts, SenderUnchanged, RunType
  <2>e. [kind |-> "send", via |-> serving] \in Event
    BY <1>0 DEF RunType, Event
  <2>p2. PostedType'
    BY <1>0, <1>6, <2>e DEF SenderPosts, PostedType
  <2> QED
    BY <1>0, <1>6, <2>p1, <2>p2 DEF SenderPosts, SenderUnchanged, Typed, UiType, SockType, SendType, FeedType, RecvType, SolveType, AudioType
<1> QED
  BY <1>1, <1>2, <1>3, <1>4, <1>5, <1>6 DEF SenderStep

\* The events of the socket thread.
LEMMA SocketTyped ==
  ASSUME Typed, SockStep \/ Receive \/ ErrorDetect
  PROVE  Typed'
<1> USE DEF uiVars, sockVars, runVars, sendVars, feedVars, recvVars, solveVars, audioVars
<1>0. /\ UiType /\ SockType /\ PostedType /\ RunType /\ SendType /\ FeedType
      /\ RecvType /\ SolveType /\ AudioType /\ stranded \in BOOLEAN
  BY DEF Typed
<1>1. CASE ConnectServer
  <2>e. Tail(posted) \in Seq(Event)
    BY <1>0, <1>1 DEF PostedType, ConnectServer
  <2>p1. PostedType'
    BY <1>1, <2>e DEF ConnectServer, PostedType
  <2>p2. UiType'
    BY <1>0, <1>1 DEF ConnectServer, UiType, UiPlaces
  <2>l. ASSUME NEW s \in 0..MaxSessions, PushLost(s)
        PROVE  received' \in Message /\ count' \in 0..MaxReceived /\ sock' = "push"
    <3>1. [kind |-> "closed", in |-> s] \in Message
      BY DEF Message
    <3> QED
      BY <1>0, <2>l, <3>1, SessionAssumption DEF PushLost, SockType
  <2>p3. SockType'
    BY <1>0, <1>1, <2>l, SessionAssumption DEF ConnectServer, SockType, UiType
  <2> QED
    BY <1>0, <1>1, <2>p1, <2>p2, <2>p3 DEF ConnectServer, Typed, RunType, SendType, FeedType, RecvType, SolveType, AudioType
<1>2. CASE SendData
  <2>e. Tail(posted) \in Seq(Event)
    BY <1>0, <1>2 DEF PostedType, SendData
  <2>p1. PostedType'
    BY <1>2, <2>e DEF SendData, PostedType
  <2> QED
    BY <1>0, <1>2, <2>p1 DEF SendData, Typed, UiType, SockType, RunType, SendType, FeedType, RecvType, SolveType, AudioType
<1>3. CASE SockPushes
  <2>p1. UiType'
    BY <1>0, <1>3 DEF SockPushes, UiType, UiPlaces
  <2>n. NoMessage \in Message
    BY SessionAssumption DEF NoMessage, Message
  <2>p2. SockType'
    BY <1>0, <1>3, <2>n DEF SockPushes, SockType
  <2>p3. RecvType'
    BY <1>0, <1>3, RecvQTyped DEF SockPushes, SockType, RecvType
  <2>p4. AudioType'
    BY <1>0, <1>3, AudioQTyped DEF SockPushes, SockType, AudioType, AudioQueueType
  <2> QED
    BY <1>0, <1>3, <2>p1, <2>p2, <2>p3, <2>p4 DEF SockPushes, AudioQueueType, Typed, PostedType, RunType, SendType, FeedType, SolveType
<1>4. CASE SockWaits
  <2>p1. RecvType'
    BY <1>0, <1>4, RecvQTyped DEF SockWaits, SockType, RecvType
  <2>p2. AudioType'
    BY <1>0, <1>4, AudioQTyped DEF SockWaits, SockType, AudioType, AudioQueueType
  <2> QED
    BY <1>0, <1>4, <2>p1, <2>p2 DEF SockWaits, Typed, UiType, SockType, PostedType, RunType, SendType, FeedType, SolveType
<1>5. CASE SockEnds
  <2>p1. SockType'
    BY <1>0, <1>5, SessionAssumption DEF SockEnds, SockType
  <2> QED
    BY <1>0, <1>5, <2>p1 DEF SockEnds, Typed, UiType, PostedType, RunType, SendType, FeedType, RecvType, SolveType, AudioType
<1>6. CASE Receive
  <2>e. \A kind \in {"frame", "audio"} : [kind |-> kind, in |-> conn] \in Message
    BY <1>0 DEF SockType, Message
  <2>p1. SockType'
    BY <1>0, <1>6, <2>e, SessionAssumption DEF Receive, SockType
  <2> QED
    BY <1>0, <1>6, <2>p1 DEF Receive, Typed, UiType, PostedType, RunType, SendType, FeedType, RecvType, SolveType, AudioType
<1>7. CASE ErrorDetect
  <2>l. ASSUME NEW s \in 0..MaxSessions, PushLost(s)
        PROVE  received' \in Message /\ count' \in 0..MaxReceived /\ sock' = "push"
    <3>1. [kind |-> "closed", in |-> s] \in Message
      BY DEF Message
    <3> QED
      BY <1>0, <2>l, <3>1, SessionAssumption DEF PushLost, SockType
  <2>p1. SockType'
    BY <1>0, <1>7, <2>l, SessionAssumption DEF ErrorDetect, SockType
  <2> QED
    BY <1>0, <1>7, <2>p1 DEF ErrorDetect, Typed, UiType, PostedType, RunType, SendType, FeedType, RecvType, SolveType, AudioType
<1> QED
  BY <1>1, <1>2, <1>3, <1>4, <1>5, <1>6, <1>7 DEF SockStep

\* A feeder, or what it is asked.
LEMMA FeederTyped ==
  ASSUME Typed, NEW f \in Feeders, FeederStep(f) \/ Ask(f)
  PROVE  Typed'
<1> USE DEF uiVars, sockVars, runVars, sendVars, feedVars, recvVars, solveVars, audioVars
<1>0. /\ UiType /\ SockType /\ PostedType /\ RunType /\ SendType /\ FeedType
      /\ RecvType /\ SolveType /\ AudioType /\ stranded \in BOOLEAN
  BY DEF Typed
<1>1. CASE FeederTakes(f)
  <2>p1. FeedType'
    BY <1>0, <1>1, SessionAssumption DEF FeederTakes, FeedType
  <2> QED
    BY <1>0, <1>1, <2>p1 DEF FeederTakes, FeedUnchanged, Typed, UiType, SockType, PostedType, RunType, SendType, RecvType, SolveType, AudioType
<1>2. CASE FeederPushes(f)
  <2>p1. FeedType'
    BY <1>0, <1>2 DEF FeederPushes, FeedType
  <2>p2. SendType'
    BY <1>0, <1>2, SendQTyped DEF FeederPushes
  <2> QED
    BY <1>0, <1>2, <2>p1, <2>p2 DEF FeederPushes, FeedUnchanged, Typed, UiType, SockType, PostedType, RunType, RecvType, SolveType, AudioType
<1>3. CASE FeederWaits(f)
  <2>p1. SendType'
    BY <1>0, <1>3, SendQTyped DEF FeederWaits
  <2> QED
    BY <1>0, <1>3, <2>p1 DEF FeederWaits, FeedUnchanged, Typed, UiType, SockType, PostedType, RunType, FeedType, RecvType, SolveType, AudioType
<1>4. CASE FeederEnds(f)
  <2>p1. FeedType'
    BY <1>0, <1>4 DEF FeederEnds, FeedType
  <2> QED
    BY <1>0, <1>4, <2>p1 DEF FeederEnds, FeedUnchanged, Typed, UiType, SockType, PostedType, RunType, SendType, RecvType, SolveType, AudioType
<1>5. CASE Ask(f)
  <2>p1. FeedType'
    BY <1>0, <1>5, SessionAssumption DEF Ask, FeedType
  <2> QED
    BY <1>0, <1>5, <2>p1 DEF Ask, FeedUnchanged, Typed, UiType, SockType, PostedType, RunType, SendType, RecvType, SolveType, AudioType
<1> QED
  BY <1>1, <1>2, <1>3, <1>4, <1>5 DEF FeederStep

\* RecvSolve and what it hands over.
LEMMA SolverTyped ==
  ASSUME Typed, SolverStep \/ Datasolve
  PROVE  Typed'
<1> USE DEF uiVars, sockVars, runVars, sendVars, feedVars, recvVars, solveVars, audioVars
<1>0. /\ UiType /\ SockType /\ PostedType /\ RunType /\ SendType /\ FeedType
      /\ RecvType /\ SolveType /\ AudioType /\ stranded \in BOOLEAN
  BY DEF Typed
<1>1. CASE SolverPops
  <2>p1. RecvType'
    BY <1>0, <1>1, RecvQTyped DEF SolverPops, SolveType
  <2>e. Head(queue_recv) \in Message
    BY <1>0, <1>1 DEF SolverPops, RecvQ!Pop, RecvType
  <2>p2. SolveType'
    BY <1>0, <1>1, <2>e DEF SolverPops, SolveUnchanged, SolveType
  <2> QED
    BY <1>0, <1>1, <2>p1, <2>p2 DEF SolverPops, SolveUnchanged, Typed, UiType, SockType, PostedType, RunType, SendType, FeedType, AudioType
<1>2. CASE SolverWaits
  <2>p1. RecvType'
    BY <1>0, <1>2, RecvQTyped DEF SolverWaits, SolveType
  <2> QED
    BY <1>0, <1>2, <2>p1 DEF SolverWaits, SolveUnchanged, Typed, UiType, SockType, PostedType, RunType, SendType, FeedType, SolveType, AudioType
<1>3. CASE SolverTimesOut
  <2>p1. RecvType'
    BY <1>0, <1>3, RecvQTyped DEF SolverTimesOut, SolveType
  <2>p2. SolveType'
    BY <1>0, <1>3 DEF SolverTimesOut, SolverGoesOn, SolveUnchanged, SolveType
  <2> QED
    BY <1>0, <1>3, <2>p1, <2>p2 DEF SolverTimesOut, SolveUnchanged, Typed, UiType, SockType, PostedType, RunType, SendType, FeedType, AudioType
<1>4. CASE Datasolve
  <2>p1. UiType'
    BY <1>0, <1>4 DEF Datasolve, UiType, UiPlaces
  <2>e. NoMessage \in Message
    BY SessionAssumption DEF NoMessage, Message
  <2>p2. SolveType'
    BY <1>0, <1>4, <2>e DEF Datasolve, SolverGoesOn, SolveUnchanged, SolveType
  <2> QED
    BY <1>0, <1>4, <2>p1, <2>p2 DEF Datasolve, SolveUnchanged, Typed, SockType, PostedType, RunType, SendType, FeedType, RecvType, AudioType
<1> QED
  BY <1>1, <1>2, <1>3, <1>4 DEF SolverStep

\* The sound thread.
LEMMA SpeakerTyped ==
  ASSUME Typed, SpeakerStep
  PROVE  Typed'
<1> USE DEF uiVars, sockVars, runVars, sendVars, feedVars, recvVars, solveVars, audioVars
<1>0. /\ UiType /\ SockType /\ PostedType /\ RunType /\ SendType /\ FeedType
      /\ RecvType /\ SolveType /\ AudioType /\ stranded \in BOOLEAN
  BY DEF Typed
<1>1. CASE SpeakerPops
  <2>e. AudioQueueType'
    BY <1>0, <1>1, AudioQTyped DEF SpeakerPops, AudioType, AudioQueueType, SockType
  <2>p1. AudioType'
    BY <1>0, <1>1, <2>e DEF SpeakerPops, SpeakerGoesOn, AudioType, AudioQueueType
  <2> QED
    BY <1>0, <1>1, <2>p1 DEF SpeakerPops, AudioUnchanged, Typed, UiType, SockType, PostedType, RunType, SendType, FeedType, RecvType, SolveType
<1>2. CASE SpeakerWaits
  <2>e. AudioQueueType'
    BY <1>0, <1>2, AudioQTyped DEF SpeakerWaits, AudioType, AudioQueueType, SockType
  <2>p1. AudioType'
    BY <1>0, <1>2, <2>e DEF SpeakerWaits, SpeakerGoesOn, AudioType, AudioQueueType
  <2> QED
    BY <1>0, <1>2, <2>p1 DEF SpeakerWaits, AudioUnchanged, Typed, UiType, SockType, PostedType, RunType, SendType, FeedType, RecvType, SolveType
<1>3. CASE SpeakerTimesOut
  <2>e. AudioQueueType'
    BY <1>0, <1>3, AudioQTyped DEF SpeakerTimesOut, AudioType, AudioQueueType, SockType
  <2>p1. AudioType'
    BY <1>0, <1>3, <2>e DEF SpeakerTimesOut, SpeakerGoesOn, AudioType, AudioQueueType
  <2> QED
    BY <1>0, <1>3, <2>p1 DEF SpeakerTimesOut, AudioUnchanged, Typed, UiType, SockType, PostedType, RunType, SendType, FeedType, RecvType, SolveType
<1> QED
  BY <1>1, <1>2, <1>3 DEF SpeakerStep

\* Connecting and disconnecting.
LEMMA UiTyped ==
  ASSUME Typed, \/ Connect \/ StartSender \/ ExitMeeting \/ Drop \/ ClearQueues \/ Dropped
  PROVE  Typed'
<1> USE DEF uiVars, sockVars, runVars, sendVars, feedVars, recvVars, solveVars, audioVars
<1>0. /\ UiType /\ SockType /\ PostedType /\ RunType /\ SendType /\ FeedType
      /\ RecvType /\ SolveType /\ AudioType /\ stranded \in BOOLEAN
  BY DEF Typed
<1>1. CASE Connect
  <2>p1. UiType'
    BY <1>0, <1>1, SessionAssumption DEF Connect, UiType, UiPlaces
  <2>p2. SockType'
    BY <1>0, <1>1 DEF Connect, SockType
  <2>e. [kind |-> "connect", via |-> session + 1] \in Event
    BY <1>0, <1>1, SessionAssumption DEF Connect, UiType, Event
  <2>p3. PostedType'
    BY <1>0, <1>1, <2>e DEF Connect, PostedType
  <2> QED
    BY <1>0, <1>1, <2>p1, <2>p2, <2>p3 DEF Connect, Typed, RunType, SendType, FeedType, RecvType, SolveType, AudioType
<1>2. CASE StartSender
  <2>p1. UiType'
    BY <1>0, <1>2 DEF StartSender, UiType, UiPlaces
  <2>p2. RunType'
    BY <1>0, <1>2 DEF StartSender, RunType, UiType
  <2> QED
    BY <1>0, <1>2, <2>p1, <2>p2 DEF StartSender, Typed, SockType, PostedType, SendType, FeedType, RecvType, SolveType, AudioType
<1>3. CASE ExitMeeting
  <2>p1. UiType'
    BY <1>0, <1>3 DEF ExitMeeting, UiType, UiPlaces
  <2> QED
    BY <1>0, <1>3, <2>p1 DEF ExitMeeting, Typed, SockType, PostedType, RunType, SendType, FeedType, RecvType, SolveType, AudioType
<1>4. CASE Drop
  <2>p1. UiType'
    BY <1>0, <1>4 DEF Drop, UiType, UiPlaces
  <2>q. quitting' \in BOOLEAN
    BY <1>4, Zenon DEF Drop, StopThreads
  <2>c. m_isCanRun' \in BOOLEAN
    BY <1>0, <1>4 DEF Drop, StopThreads, RunType
  <2>p2. SockType'
    BY <1>0, <1>4, <2>q DEF Drop, SockType
  <2>p3. RunType'
    BY <1>0, <1>4, <2>c DEF Drop, RunType
  <2> QED
    BY <1>0, <1>4, <2>p1, <2>p2, <2>p3 DEF Drop, Typed, PostedType, SendType, FeedType, RecvType, SolveType, AudioType
<1>5. CASE ClearQueues
  <2>p1. UiType'
    BY <1>0, <1>5 DEF ClearQueues, UiType, UiPlaces
  <2>p2. stranded' \in BOOLEAN
    BY <1>5, Zenon DEF ClearQueues
  <2>p3. SendType'
    BY <1>0, <1>5, SendQTyped DEF ClearQueues
  <2>n. NoMessage \in Message
    BY SessionAssumption DEF NoMessage, Message
  <2>p4. RecvType'
    BY <1>0, <1>5, <2>n, RecvQTyped DEF ClearQueues
  <2>p5. AudioType'
    BY <1>0, <1>5, <2>n, AudioQTyped DEF ClearQueues, AudioType, AudioQueueType
  <2> QED
    BY <1>0, <1>5, <2>p1, <2>p2, <2>p3, <2>p4, <2>p5 DEF ClearQueues, AudioQueueType, Typed, SockType, PostedType, RunType, FeedType, SolveType
<1>6. CASE Dropped
  <2>p1. UiType'
    BY <1>0, <1>6 DEF Dropped, UiType, UiPlaces
  <2>n. NoMessage \in Message
    BY SessionAssumption DEF NoMessage, Message
  <2>p2. SolveType'
    BY <1>0, <1>6, <2>n DEF Dropped, SolverGoesOn, SolveType
  <2> QED
    BY <1>0, <1>6, <2>p1, <2>p2 DEF Dropped, Typed, SockType, PostedType, RunType, SendType, FeedType, RecvType, AudioType
<1> QED
  BY <1>1, <1>2, <1>3, <1>4, <1>5, <1>6

\* Closing the window.
LEMMA CloseTyped ==
  ASSUME Typed, \/ CloseWindow \/ SockEnded \/ SenderEnded \/ SolverEnded \/ FeedersEnded
         \/ SpeakerEnded \/ StopSolver
  PROVE  Typed'
<1> USE DEF uiVars, sockVars, runVars, sendVars, feedVars, recvVars, solveVars, audioVars
<1>0. /\ UiType /\ SockType /\ PostedType /\ RunType /\ SendType /\ FeedType
      /\ RecvType /\ SolveType /\ AudioType /\ stranded \in BOOLEAN
  BY DEF Typed
<1>1. CASE CloseWindow
  <2>p1. UiType'
    BY <1>0, <1>1 DEF CloseWindow, CloseUnchanged, UiType, UiPlaces
  <2>q. quitting' \in BOOLEAN
    <3>1. CASE run # "off"
      BY <1>1, <3>1, Zenon DEF CloseWindow, StopThreads
    <3>2. CASE run = "off"
      BY <1>0, <1>1, <3>2 DEF CloseWindow, SockType
    <3> QED
      BY <3>1, <3>2
  <2>c. m_isCanRun' \in BOOLEAN
    BY <1>0, <1>1 DEF CloseWindow, StopThreads, RunType
  <2>p2. SockType'
    BY <1>0, <1>1, <2>q DEF CloseWindow, CloseUnchanged, SockType
  <2>p3. RunType'
    BY <1>0, <1>1, <2>c DEF CloseWindow, CloseUnchanged, RunType
  <2> QED
    BY <1>0, <1>1, <2>p1, <2>p2, <2>p3 DEF CloseWindow, CloseUnchanged, Typed, PostedType, SendType, FeedType, RecvType, SolveType, AudioType
<1>2. CASE SockEnded
  <2>p1. UiType'
    BY <1>0, <1>2 DEF SockEnded, CloseUnchanged, UiType, UiPlaces
  <2> QED
    BY <1>0, <1>2, <2>p1 DEF SockEnded, CloseUnchanged, Typed, SockType, PostedType, RunType, SendType, FeedType, RecvType, SolveType, AudioType
<1>3. CASE SenderEnded
  <2>p1. UiType'
    BY <1>0, <1>3 DEF SenderEnded, CloseUnchanged, UiType, UiPlaces
  <2> QED
    BY <1>0, <1>3, <2>p1 DEF SenderEnded, CloseUnchanged, Typed, SockType, PostedType, RunType, SendType, FeedType, RecvType, SolveType, AudioType
<1>4. CASE SolverEnded
  <2>p1. UiType'
    BY <1>0, <1>4 DEF SolverEnded, CloseUnchanged, UiType, UiPlaces
  <2> QED
    BY <1>0, <1>4, <2>p1 DEF SolverEnded, CloseUnchanged, Typed, SockType, PostedType, RunType, SendType, FeedType, RecvType, SolveType, AudioType
<1>5. CASE FeedersEnded
  <2>p1. UiType'
    BY <1>0, <1>5 DEF FeedersEnded, CloseUnchanged, UiType, UiPlaces
  <2> QED
    BY <1>0, <1>5, <2>p1 DEF FeedersEnded, CloseUnchanged, Typed, SockType, PostedType, RunType, SendType, FeedType, RecvType, SolveType, AudioType
<1>6. CASE SpeakerEnded
  <2>p1. UiType'
    BY <1>0, <1>6 DEF SpeakerEnded, CloseUnchanged, UiType, UiPlaces
  <2> QED
    BY <1>0, <1>6, <2>p1 DEF SpeakerEnded, CloseUnchanged, Typed, SockType, PostedType, RunType, SendType, FeedType, RecvType, SolveType, AudioType
<1>7. CASE StopSolver
  <2>p1. UiType'
    BY <1>0, <1>7 DEF StopSolver, CloseUnchanged, UiType, UiPlaces
  <2>p2. SolveType'
    BY <1>0, <1>7 DEF StopSolver, CloseUnchanged, SolveType
  <2> QED
    BY <1>0, <1>7, <2>p1, <2>p2 DEF StopSolver, CloseUnchanged, Typed, SockType, PostedType, RunType, SendType, FeedType, RecvType, AudioType
<1> QED
  BY <1>1, <1>2, <1>3, <1>4, <1>5, <1>6, <1>7

\* Every step keeps the types.
LEMMA NextTyped == Typed /\ [Next]_vars => Typed'
<1> SUFFICES ASSUME Typed, [Next]_vars PROVE Typed'
  OBVIOUS
<1>1. CASE SenderStep
  BY <1>1, SenderTyped
<1>2. CASE SockStep \/ Receive \/ ErrorDetect
  BY <1>2, SocketTyped
<1>3. ASSUME NEW f \in Feeders, FeederStep(f) \/ Ask(f) PROVE Typed'
  BY <1>3, FeederTyped
<1>4. CASE SolverStep \/ Datasolve
  BY <1>4, SolverTyped
<1>5. CASE SpeakerStep
  BY <1>5, SpeakerTyped
<1>6. CASE UiStep \/ Connect \/ ExitMeeting \/ CloseWindow
  BY <1>4, <1>6, UiTyped, CloseTyped DEF UiStep
<1>7. CASE UNCHANGED vars
  BY <1>7 DEF vars, uiVars, sockVars, runVars, sendVars, feedVars, recvVars, solveVars, audioVars,
     Typed, UiType, SockType, PostedType, RunType, SendType, FeedType, RecvType, SolveType, AudioType
<1> QED
  BY <1>1, <1>2, <1>3, <1>4, <1>5, <1>6, <1>7 DEF Next, Environment

\* The variables have their types, and no queue ever holds more than one
\* message above its bound, for any number of feeders (netheader.h 84-113).
THEOREM Types == Spec => []TypeOK
<1>1. Init => Typed
  BY InitTyped
<1>2. Typed /\ [Next]_vars => Typed'
  BY NextTyped
<1>3. Typed => TypeOK
  BY TypedIsTypeOK
<1> QED
  BY <1>1, <1>2, <1>3, PTL DEF Spec
-----------------------------------------------------------------------------
(* Feeders of queue_send are woken.                                         *)

Held == sendAsleep \cap Feeders
Woken == stranded \/ Cardinality(Held) <= Len(queue_send)

\* The sleepers of queue_send are finitely many, feeders among them at most
\* as many as fill it.
LEMMA HeldFinite ==
  ASSUME SendType
  PROVE  /\ IsFiniteSet(sendAsleep) /\ IsFiniteSet(Held)
         /\ Cardinality(Held) \in Nat /\ Cardinality(Held) <= QUEUE_MAXSIZE + 1
<1>1. IsFiniteSet(Feeders) /\ Cardinality(Feeders) \in Nat
      /\ Cardinality(Feeders) <= QUEUE_MAXSIZE + 1 /\ QUEUE_MAXSIZE \in Nat
  BY SessionAssumption, FS_CardinalityType
<1>2. IsFiniteSet(Held) /\ Cardinality(Held) <= Cardinality(Feeders)
  BY <1>1, FS_Subset DEF Held
<1>3. IsFiniteSet(Feeders \cup {Sender})
  BY <1>1, FS_AddElement
<1>4. IsFiniteSet(sendAsleep)
  BY <1>3, FS_Subset DEF SendType
<1> QED
  BY <1>1, <1>2, <1>4, FS_CardinalityType

\* Fewer sleepers and no message less keep the balance.
LEMMA WokenKept ==
  ASSUME SendType, SendType', Woken, sendAsleep' \subseteq sendAsleep \cup {Sender},
         Len(queue_send') >= Len(queue_send), UNCHANGED stranded
  PROVE  Woken'
<1>1. Held' \subseteq Held
  BY SessionAssumption DEF Held
<1>2. Cardinality(Held') <= Cardinality(Held)
  BY <1>1, HeldFinite, FS_Subset
<1>3. Cardinality(Held') \in Nat /\ Cardinality(Held) \in Nat
  BY <1>1, HeldFinite, FS_Subset, FS_CardinalityType
<1>4. Len(queue_send) \in Nat /\ Len(queue_send') \in Nat
  BY DEF SendType
<1>5. Cardinality(Held)' = Cardinality(Held')
  BY DEF Held
<1> QED
  BY <1>2, <1>3, <1>4, <1>5 DEF Woken

\* The sending thread wakes one feeder with each message it takes.
LEMMA PopWakes ==
  ASSUME SendType, SendType', Woken, SendQ!Pop(Sender), UNCHANGED stranded
  PROVE  Woken'
<1>1. Held = sendAsleep
  BY DEF SendQ!Pop, SendType, Held
<1>2. Len(queue_send) \in Nat /\ Len(queue_send') = Len(queue_send) - 1 /\ Len(queue_send) > 0
  BY DEF SendQ!Pop, SendType
<1>3. CASE sendAsleep = {}
  <2>1. Held' = {}
    BY <1>3 DEF SendQ!Pop, SendQ!WakeOne, Held
  <2>2. Cardinality(Held') = 0
    BY <2>1, FS_EmptySet
  <2>3. Cardinality(Held)' = Cardinality(Held')
    BY DEF Held
  <2> QED
    BY <1>2, <2>2, <2>3 DEF Woken
<1>4. CASE sendAsleep # {}
  <2>1. PICK t \in sendAsleep : sendAsleep' = sendAsleep \ {t}
    BY <1>4 DEF SendQ!Pop, SendQ!WakeOne
  <2>2. Held' = Held \ {t}
    BY <1>1, <2>1 DEF Held
  <2>3. t \in Held
    BY <1>1, <2>1
  <2>4. Cardinality(Held') = Cardinality(Held) - 1
    BY <2>2, <2>3, HeldFinite, FS_RemoveElement
  <2>5. Cardinality(Held)' = Cardinality(Held')
    BY DEF Held
  <2> QED
    BY <1>2, <2>4, <2>5, HeldFinite DEF Woken
<1> QED
  BY <1>3, <1>4

\* clear() wakes nobody: what it leaves asleep is recorded.
LEMMA ClearStrands ==
  ASSUME SendType, SendType', Woken, ClearQueues
  PROVE  Woken'
<1>1. CASE Held = {}
  <2>1. Held' = {}
    BY <1>1 DEF ClearQueues, SendQ!Clear, Held
  <2>2. Cardinality(Held') = 0 /\ Len(queue_send') = 0
    BY <2>1, FS_EmptySet DEF ClearQueues, SendQ!Clear
  <2>3. Cardinality(Held)' = Cardinality(Held')
    BY DEF Held
  <2> QED
    BY <2>2, <2>3 DEF Woken
<1>2. CASE Held # {}
  <2>1. stranded'
    BY <1>2, Zenon DEF ClearQueues, Held
  <2> QED
    BY <2>1, Zenon DEF Woken
<1> QED
  BY <1>1, <1>2

\* Every step keeps the balance.
LEMMA NextWoken ==
  ASSUME Typed, Typed', Woken, [Next]_vars
  PROVE  Woken'
<1> USE DEF uiVars, sockVars, runVars, sendVars, feedVars, recvVars, solveVars, audioVars
<1>0. SendType /\ SendType' /\ Len(queue_send) \in Nat
  BY DEF Typed, SendType
<1>1. ASSUME UNCHANGED <<queue_send, sendAsleep, stranded>> PROVE Woken'
  BY <1>1 DEF Woken, Held
<1>2. CASE SenderStep
  <2>1. CASE SenderPops
    BY <1>0, <2>1, PopWakes DEF SenderPops, SenderUnchanged
  <2>2. CASE SenderWaits
    BY <1>0, <2>2, WokenKept DEF SenderWaits, SenderUnchanged, SendQ!PopWaits
  <2>3. CASE SenderTimesOut
    BY <1>0, <2>3, WokenKept DEF SenderTimesOut, SenderUnchanged, SendQ!TimesOut
  <2>4. CASE SenderBegins \/ SenderTests \/ SenderPosts
    BY <1>1, <2>4 DEF SenderBegins, SenderTests, SenderPosts, SenderUnchanged
  <2> QED
    BY <1>2, <2>1, <2>2, <2>3, <2>4 DEF SenderStep
<1>3. ASSUME NEW f \in Feeders, FeederStep(f) \/ Ask(f) PROVE Woken'
  <2>1. CASE FeederPushes(f)
    <3>1. UNCHANGED stranded /\ SendQ!Push(f, "message")
      BY <2>1 DEF FeederPushes, FeedUnchanged
    <3>2. sendAsleep' \subseteq sendAsleep /\ Len(queue_send') = Len(queue_send) + 1
      BY <1>0, <3>1 DEF SendQ!Push, SendQ!WakeOne, SendType
    <3> QED
      BY <1>0, <3>1, <3>2, WokenKept
  <2>2. CASE FeederWaits(f)
    <3>1. SendQ!PushWaits(f) /\ Len(queue_send') = Len(queue_send)
      BY <2>2 DEF FeederWaits, SendQ!PushWaits
    <3>2. Len(queue_send) >= QUEUE_MAXSIZE + 1 /\ QUEUE_MAXSIZE \in Nat
      BY <1>0, <3>1, SessionAssumption DEF SendQ!PushWaits, SendQ!TooLong
    <3>3. Cardinality(Held)' <= QUEUE_MAXSIZE + 1 /\ Cardinality(Held)' \in Nat
      <4>1. sendAsleep' \cap Feeders \subseteq Feeders
        OBVIOUS
      <4>2. Cardinality(sendAsleep' \cap Feeders) <= Cardinality(Feeders)
            /\ IsFiniteSet(sendAsleep' \cap Feeders)
        BY <4>1, SessionAssumption, FS_Subset
      <4> QED
        BY <4>2, SessionAssumption, FS_CardinalityType DEF Held
    <3> QED
      BY <1>0, <3>1, <3>2, <3>3 DEF Woken
  <2>3. CASE FeederTakes(f) \/ FeederEnds(f) \/ Ask(f)
    BY <1>1, <2>3 DEF FeederTakes, FeederEnds, Ask, FeedUnchanged
  <2> QED
    BY <1>3, <2>1, <2>2, <2>3 DEF FeederStep
<1>4. CASE SockStep \/ Receive \/ ErrorDetect
  BY <1>1, <1>4 DEF SockStep, ConnectServer, SendData, SockPushes, SockWaits, SockEnds, Receive, ErrorDetect
<1>5. CASE SolverStep \/ Datasolve
  BY <1>1, <1>5 DEF SolverStep, SolverPops, SolverWaits, SolverTimesOut, Datasolve, SolveUnchanged
<1>6. CASE SpeakerStep
  BY <1>1, <1>6 DEF SpeakerStep, SpeakerPops, SpeakerWaits, SpeakerTimesOut, AudioUnchanged
<1>7. CASE ClearQueues
  BY <1>0, <1>7, ClearStrands
<1>8. CASE StartSender \/ Drop \/ Dropped \/ Connect \/ ExitMeeting
  BY <1>1, <1>8 DEF StartSender, Drop, Dropped, Connect, ExitMeeting
<1>9. CASE \/ CloseWindow \/ SockEnded \/ SenderEnded \/ StopSolver \/ SolverEnded
           \/ FeedersEnded \/ SpeakerEnded
  BY <1>1, <1>9 DEF CloseWindow, SockEnded, SenderEnded, StopSolver, SolverEnded, FeedersEnded,
     SpeakerEnded, CloseUnchanged
<1>10. CASE UNCHANGED vars
  BY <1>1, <1>10 DEF vars
<1> QED
  BY <1>2, <1>3, <1>4, <1>5, <1>6, <1>7, <1>8, <1>9, <1>10 DEF Next, Environment, UiStep

\* As long as clear() has found no feeder asleep, each sleeping feeder has a
\* message of its own in queue_send whose removal will wake it, however many
\* feeders and messages there are (netheader.h 83-124).
THEOREM Wake == Spec => []FeedersWillWake
<1>1. Init => Typed /\ Woken
  <2>1. Init => Typed
    BY InitTyped
  <2>2. ASSUME Init PROVE Woken
    <3>1. Held = {} /\ Len(queue_send) = 0
      BY <2>2 DEF Init, Held
    <3>2. Cardinality(Held) = 0
      BY <3>1, FS_EmptySet
    <3> QED
      BY <3>1, <3>2 DEF Woken
  <2> QED
    BY <2>1, <2>2
<1>2. Typed /\ Woken /\ [Next]_vars => (Typed /\ Woken)'
  BY NextTyped, NextWoken
<1>3. Typed /\ Woken => FeedersWillWake
  BY DEF Woken, Held, FeedersWillWake
<1> QED
  BY <1>1, <1>2, <1>3, PTL DEF Spec
-----------------------------------------------------------------------------
(* Nothing of one session reaches the next.                                 *)

MineIn(s) == {m \in Message : m.kind # "closed" => m.in = s}
Closings == {m \in Message : m.kind = "closed"}

\* The user interface has left a session and not yet entered the next.
Between == ui = "waitRun" \/ (~online /\ ui # "start")

Connected == conn \in {0, session} /\ (sock = "off" => conn = 0)
Running == /\ run # "off" => serving = session /\ online
           /\ ui \in {"connecting", "start"} => ~online
           /\ ui = "waitRun" => sock = "off"
Sends == conn # 0 => \A i \in 1..Len(posted) :
                       posted[i].kind = "send" => posted[i].via = session
Connects == \A i \in 1..Len(posted) :
              posted[i].kind = "connect" => i = Len(posted) /\ ui = "connecting"
Silent == Between => /\ conn = 0
                     /\ sock = "push" => /\ ui = "connecting" /\ posted = <<>>
                                         /\ received.kind = "closed"
Emptied == Between => queue_recv \in Seq(Closings) /\ audio_recv \in Seq(Closings)
Present == sock = "push" => received \in MineIn(session)
Queued == queue_recv \in Seq(MineIn(session)) /\ audio_recv \in Seq(MineIn(session))
Parted == /\ Connected /\ Running /\ Sends /\ Connects
          /\ Silent /\ Emptied /\ Present /\ Queued

\* An operation of a queue adds nothing but the message it is given.
LEMMA RecvQHolds ==
  ASSUME NEW S, queue_recv \in Seq(S), NEW t, NEW m \in S,
         \/ RecvQ!Push(t, m) \/ RecvQ!PushWaits(t) \/ RecvQ!Pop(t)
         \/ RecvQ!PopWaits(t) \/ RecvQ!TimesOut(t) \/ RecvQ!Clear
  PROVE  queue_recv' \in Seq(S)
<1>1. CASE RecvQ!Push(t, m)
  BY <1>1 DEF RecvQ!Push
<1>2. CASE RecvQ!Pop(t)
  BY <1>2 DEF RecvQ!Pop
<1>3. CASE RecvQ!PushWaits(t) \/ RecvQ!PopWaits(t) \/ RecvQ!TimesOut(t)
  BY <1>3 DEF RecvQ!PushWaits, RecvQ!PopWaits, RecvQ!TimesOut
<1>4. CASE RecvQ!Clear
  BY <1>4 DEF RecvQ!Clear
<1> QED
  BY <1>1, <1>2, <1>3, <1>4

\* The same for audio_recv.
LEMMA AudioQHolds ==
  ASSUME NEW S, audio_recv \in Seq(S), NEW t, NEW m \in S,
         \/ AudioQ!Push(t, m) \/ AudioQ!PushWaits(t) \/ AudioQ!Pop(t)
         \/ AudioQ!PopWaits(t) \/ AudioQ!TimesOut(t) \/ AudioQ!Clear
  PROVE  audio_recv' \in Seq(S)
<1>1. CASE AudioQ!Push(t, m)
  BY <1>1 DEF AudioQ!Push
<1>2. CASE AudioQ!Pop(t)
  BY <1>2 DEF AudioQ!Pop
<1>3. CASE AudioQ!PushWaits(t) \/ AudioQ!PopWaits(t) \/ AudioQ!TimesOut(t)
  BY <1>3 DEF AudioQ!PushWaits, AudioQ!PopWaits, AudioQ!TimesOut
<1>4. CASE AudioQ!Clear
  BY <1>4 DEF AudioQ!Clear
<1> QED
  BY <1>1, <1>2, <1>3, <1>4

\* A report that a connection was lost may stay for the next session.
LEMMA ClosingsStay ==
  ASSUME NEW s, NEW q \in Seq(Closings)
  PROVE  q \in Seq(MineIn(s))
<1>1. Closings \subseteq MineIn(s)
  BY DEF Closings, MineIn
<1> QED
  BY <1>1

\* A report of loss is in both sets; what a queue holds in MineIn is fresh.
LEMMA MineIsFresh ==
  /\ \A s : [kind |-> "closed", in |-> 0] \in MineIn(s) \cap Closings
  /\ \A q : q \in Seq(MineIn(session)) => Fresh(q)
<1>1. [kind |-> "closed", in |-> 0] \in Message
  BY SessionAssumption DEF Message
<1>2. ASSUME NEW q \in Seq(MineIn(session)) PROVE Fresh(q)
  BY <1>2 DEF Fresh, MineIn
<1> QED
  BY <1>1, <1>2 DEF MineIn, Closings

\* The initial state.
LEMMA InitParted == Init => Parted
<1> SUFFICES ASSUME Init PROVE Parted
  OBVIOUS
<1>1. \A S : <<>> \in Seq(S)
  OBVIOUS
<1>2. /\ ui = "idle" /\ session = 0 /\ conn = 0 /\ sock = "off" /\ run = "off"
      /\ posted = <<>> /\ queue_recv = <<>> /\ audio_recv = <<>>
  BY DEF Init
<1> QED
  BY <1>1, <1>2 DEF Parted, Connected, Running, Sends, Connects, Silent, Emptied, Present,
     Queued, Between

\* The sending thread posts for the session it serves, which is the present
\* one, and only while the user interface is not connecting.
LEMMA SenderParted ==
  ASSUME Typed, Parted, SenderStep
  PROVE  Parted'
<1> USE DEF uiVars, sockVars, feedVars, solveVars, recvVars, audioVars
<1>1. UNCHANGED <<ui, online, session, conn, sock, received, serving, queue_recv, audio_recv>>
  BY DEF SenderStep, SenderBegins, SenderTests, SenderPops, SenderWaits, SenderTimesOut,
     SenderPosts, SenderUnchanged
<1>2. run # "off"
  BY DEF SenderStep, SenderBegins, SenderTests, SenderPops, SenderWaits, SenderTimesOut, SenderPosts
<1>3. online /\ serving = session /\ ui # "connecting"
  BY <1>2 DEF Parted, Running
<1>4. \/ posted' = posted
      \/ posted' = Append(posted, [kind |-> "send", via |-> serving])
  BY DEF SenderStep, SenderBegins, SenderTests, SenderPops, SenderWaits, SenderTimesOut, SenderPosts
<1>5. posted \in Seq(Event)
  BY DEF Typed, PostedType
<1>6. Connected' /\ Running' /\ Present' /\ Queued' /\ Emptied'
  BY <1>1, <1>2, <1>3 DEF Parted, Connected, Running, Present, Queued, Emptied, Between
<1>7. Sends'
  BY <1>1, <1>3, <1>4, <1>5 DEF Parted, Sends
<1>8. Connects'
  <2>1. \A i \in 1..Len(posted) : posted[i].kind # "connect"
    BY <1>3 DEF Parted, Connects
  <2> QED
    BY <1>4, <1>5, <2>1 DEF Connects
<1>9. Silent'
  <2>1. sock # "push" \/ ~Between
    BY <1>3 DEF Parted, Silent
  <2> QED
    BY <1>1, <2>1 DEF Parted, Silent, Between
<1> QED
  BY <1>6, <1>7, <1>8, <1>9 DEF Parted

\* connectServer is the last event left when it is handled.
LEMMA ConnectServerParted ==
  ASSUME Typed, Parted, ConnectServer
  PROVE  Parted'
<1> USE DEF uiVars, sockVars, runVars, feedVars, solveVars, recvVars, audioVars
<1>1. posted \in Seq(Event) /\ session \in 0..MaxSessions
  BY DEF Typed, PostedType, UiType
<1>2. posted # <<>> /\ posted[1].kind = "connect" /\ posted' = Tail(posted)
  BY <1>1 DEF ConnectServer
<1>3. Len(posted) = 1 /\ ui = "connecting"
  <2>1. 1 \in 1..Len(posted)
    BY <1>1, <1>2
  <2> QED
    BY <1>2, <2>1 DEF Parted, Connects
<1>4. posted' = <<>>
  BY <1>1, <1>2, <1>3
<1>5. ~online /\ run = "off" /\ Between
  BY <1>3 DEF Parted, Running, Between
<1>6. UNCHANGED <<online, session, run, serving, queue_recv, audio_recv>> /\ sock = "loop"
  BY DEF ConnectServer
<1>7. \/ conn' = session /\ ui' = "start" /\ UNCHANGED sock
      \/ conn' = 0 /\ ui' = "idle" /\ UNCHANGED sock
      \/ conn' = 0 /\ ui' = ui /\ sock' = "push" /\ received' = [kind |-> "closed", in |-> session]
  BY DEF ConnectServer, PushLost
<1>8. [kind |-> "closed", in |-> session] \in MineIn(session)
  BY <1>1 DEF MineIn, Message
<1>9. Connected' /\ Running' /\ Present' /\ Queued' /\ Emptied'
  BY <1>3, <1>5, <1>6, <1>7, <1>8 DEF Parted, Connected, Running, Present, Queued, Emptied, Between
<1>10. Sends' /\ Connects'
  BY <1>4 DEF Sends, Connects
<1>11. Silent'
  BY <1>3, <1>4, <1>5, <1>6, <1>7 DEF Silent, Between
<1> QED
  BY <1>9, <1>10, <1>11 DEF Parted

\* The other events of the socket thread.
LEMMA SocketParted ==
  ASSUME Typed, Parted, \/ SendData \/ SockPushes \/ SockWaits \/ SockEnds \/ Receive \/ ErrorDetect
  PROVE  Parted'
<1> USE DEF uiVars, sockVars, runVars, feedVars, solveVars, recvVars, audioVars
<1>1. posted \in Seq(Event) /\ session \in 0..MaxSessions
  BY DEF Typed, PostedType, UiType
<1>2. CASE SendData
  <2>1. posted # <<>> /\ posted[1].kind = "send" /\ posted' = Tail(posted)
    BY <1>1, <1>2 DEF SendData
  <2>2. Len(posted') = Len(posted) - 1 /\ \A i \in 1..Len(posted') : posted'[i] = posted[i + 1]
    BY <1>1, <2>1
  <2>3. UNCHANGED <<ui, session, conn>> /\ Len(posted) \in Nat
    BY <1>1, <1>2 DEF SendData
  <2>6. \A i \in 1..Len(posted') : i + 1 \in 1..Len(posted)
    BY <2>2, <2>3
  <2>7. Sends'
    BY <2>2, <2>3, <2>6 DEF Parted, Sends
  <2>8. Connects'
    <3>1. ASSUME NEW i \in 1..Len(posted'), posted'[i].kind = "connect"
          PROVE  i = Len(posted') /\ ui = "connecting"
      <4>1. posted[i + 1].kind = "connect" /\ i + 1 \in 1..Len(posted)
        BY <2>2, <2>6, <3>1
      <4>2. i + 1 = Len(posted) /\ ui = "connecting"
        BY <4>1 DEF Parted, Connects
      <4> QED
        BY <2>2, <2>3, <4>2
    <3> QED
      BY <2>3, <3>1 DEF Connects
  <2>4. sock = "loop" /\ UNCHANGED <<ui, online, session, conn, sock, received, run, serving,
                                     queue_recv, audio_recv>>
    BY <1>2 DEF SendData
  <2>5. Connected' /\ Running' /\ Present' /\ Queued' /\ Emptied' /\ Silent'
    BY <2>4 DEF Parted, Connected, Running, Present, Queued, Emptied, Silent, Between
  <2> QED
    BY <2>5, <2>7, <2>8 DEF Parted
<1>3. CASE SockPushes
  <2>1. sock = "push" /\ sock' = "loop" /\ UNCHANGED <<online, session, conn, posted, run, serving>>
        /\ ui' = IF ui = "connecting" THEN "idle" ELSE ui
    BY <1>3 DEF SockPushes
  <2>2. received \in MineIn(session)
    BY <2>1 DEF Parted, Present
  <2>3. Queued'
    BY <1>3, <2>1, <2>2, RecvQHolds, AudioQHolds DEF SockPushes, Parted, Queued
  <2>4. Between' <=> Between
    BY <2>1 DEF Parted, Running, Between
  <2>5. Emptied'
    <3>1. Between => received \in Closings
      BY <2>1, <2>2 DEF Parted, Silent, Closings, MineIn
    <3> QED
      BY <1>3, <2>4, <3>1, RecvQHolds, AudioQHolds DEF SockPushes, Parted, Emptied
  <2>6. Connected' /\ Running' /\ Present' /\ Silent'
    BY <2>1, <2>4 DEF Parted, Connected, Running, Present, Silent
  <2>7. Sends'
    BY <2>1 DEF Parted, Sends
  <2>8. Connects'
    <3>1. CASE ui = "connecting"
      <4>1. posted = <<>>
        BY <2>1, <3>1 DEF Parted, Running, Silent, Between
      <4> QED
        BY <2>1, <4>1 DEF Connects
    <3>2. CASE ui # "connecting"
      BY <2>1, <3>2 DEF Parted, Connects
    <3> QED
      BY <3>1, <3>2
  <2> QED
    BY <2>3, <2>5, <2>6, <2>7, <2>8 DEF Parted
<1>4. CASE SockWaits
  <2>1. UNCHANGED <<ui, online, session, conn, sock, received, posted, run, serving,
                    queue_recv, audio_recv>>
    BY <1>4 DEF SockWaits, RecvQ!PushWaits, AudioQ!PushWaits
  <2> QED
    BY <2>1 DEF Parted, Connected, Running, Sends, Connects, Silent, Emptied, Present, Queued, Between
<1>5. CASE SockEnds
  <2>1. sock' = "off" /\ conn' = 0 /\ UNCHANGED <<ui, online, session, posted, run, serving,
                                                  queue_recv, audio_recv>>
    BY <1>5 DEF SockEnds
  <2> QED
    BY <2>1 DEF Parted, Connected, Running, Sends, Connects, Silent, Emptied, Present, Queued, Between
<1>6. CASE Receive
  <2>1. sock' = "push" /\ conn # 0 /\ sock = "loop"
        /\ UNCHANGED <<ui, online, session, conn, posted, run, serving, queue_recv, audio_recv>>
    BY <1>6 DEF Receive
  <2>2. conn = session /\ ~Between
    BY <2>1 DEF Parted, Connected, Silent
  <2>3. PICK kind \in {"frame", "audio"} : received' = [kind |-> kind, in |-> conn]
    BY <1>6 DEF Receive
  <2>4. received' \in MineIn(session)
    BY <1>1, <2>2, <2>3 DEF MineIn, Message
  <2>5. Connected' /\ Running' /\ Present' /\ Queued' /\ Emptied' /\ Silent'
    BY <2>1, <2>2, <2>4 DEF Parted, Connected, Running, Present, Queued, Emptied, Silent, Between
  <2>6. Sends' /\ Connects'
    BY <2>1 DEF Parted, Sends, Connects
  <2> QED
    BY <2>5, <2>6 DEF Parted
<1>7. CASE ErrorDetect
  <2>1. conn' = 0 /\ conn # 0 /\ sock = "loop"
        /\ UNCHANGED <<ui, online, session, posted, run, serving, queue_recv, audio_recv>>
    BY <1>7 DEF ErrorDetect
  <2>2. conn = session /\ ~Between
    BY <2>1 DEF Parted, Connected, Silent
  <2>3. sock' = "loop" \/ (sock' = "push" /\ received' = [kind |-> "closed", in |-> session])
    BY <1>7, <2>1, <2>2 DEF ErrorDetect, PushLost
  <2>4. [kind |-> "closed", in |-> session] \in MineIn(session)
    BY <1>1 DEF MineIn, Message
  <2>5. Connected' /\ Running' /\ Present' /\ Queued' /\ Emptied' /\ Silent'
    BY <2>1, <2>2, <2>3, <2>4 DEF Parted, Connected, Running, Present, Queued, Emptied, Silent, Between
  <2>6. Sends' /\ Connects'
    BY <2>1 DEF Parted, Sends, Connects
  <2> QED
    BY <2>5, <2>6 DEF Parted
<1> QED
  BY <1>2, <1>3, <1>4, <1>5, <1>6, <1>7
\* RecvSolve and the sound thread only take from the queues.
LEMMA TakersParted ==
  ASSUME Typed, Parted, SolverStep \/ Datasolve \/ SpeakerStep
  PROVE  Parted'
<1> USE DEF uiVars, sockVars, runVars, feedVars, solveVars, recvVars, audioVars
<1>1. UNCHANGED <<online, session, conn, sock, received, posted, run, serving>>
  BY DEF SolverStep, SolverPops, SolverWaits, SolverTimesOut, Datasolve, SolveUnchanged,
     SpeakerStep, SpeakerPops, SpeakerWaits, SpeakerTimesOut, AudioUnchanged
<1>2. UNCHANGED ui \/ (ui = "idle" /\ ui' = "drop")
  BY DEF SolverStep, SolverPops, SolverWaits, SolverTimesOut, Datasolve,
     SpeakerStep, SpeakerPops, SpeakerWaits, SpeakerTimesOut, AudioUnchanged
<1>3. ASSUME NEW S, NEW m \in S, queue_recv \in Seq(S), audio_recv \in Seq(S)
      PROVE  queue_recv' \in Seq(S) /\ audio_recv' \in Seq(S)
  <2>1. CASE SolverStep \/ Datasolve
    <3>1. UNCHANGED audio_recv
      BY <2>1 DEF SolverStep, SolverPops, SolverWaits, SolverTimesOut, Datasolve, SolveUnchanged
    <3>2. UNCHANGED queue_recv \/ RecvQ!Pop(Solver) \/ RecvQ!PopWaits(Solver) \/ RecvQ!TimesOut(Solver)
      BY <2>1 DEF SolverStep, SolverPops, SolverWaits, SolverTimesOut, Datasolve
    <3> QED
      BY <1>3, <3>1, <3>2, RecvQHolds
  <2>2. CASE SpeakerStep
    <3>1. UNCHANGED queue_recv
      BY <2>2 DEF SpeakerStep, SpeakerPops, SpeakerWaits, SpeakerTimesOut, AudioUnchanged
    <3>2. AudioQ!Pop(Speaker) \/ AudioQ!PopWaits(Speaker) \/ AudioQ!TimesOut(Speaker)
      BY <2>2 DEF SpeakerStep, SpeakerPops, SpeakerWaits, SpeakerTimesOut
    <3> QED
      BY <1>3, <3>1, <3>2, AudioQHolds
  <2> QED
    BY <2>1, <2>2
<1>4. Between' <=> Between
  BY <1>1, <1>2 DEF Between
<1>5. Queued'
  BY <1>1, <1>3, MineIsFresh DEF Parted, Queued
<1>6. Emptied'
  BY <1>3, <1>4, MineIsFresh DEF Parted, Emptied
<1>7. Connected' /\ Running' /\ Present' /\ Silent'
  BY <1>1, <1>2, <1>4 DEF Parted, Connected, Running, Present, Silent
<1>8. Sends' /\ Connects'
  BY <1>1, <1>2 DEF Parted, Sends, Connects
<1> QED
  BY <1>5, <1>6, <1>7, <1>8 DEF Parted

\* The user interface connects and disconnects; it enters a session only when
\* both threads of the last one have ended.
LEMMA UiParted ==
  ASSUME Typed, Parted, \/ Connect \/ StartSender \/ ExitMeeting \/ Drop \/ ClearQueues \/ Dropped
  PROVE  Parted'
<1> USE DEF uiVars, sockVars, runVars, feedVars, solveVars, recvVars, audioVars
<1>1. posted \in Seq(Event) /\ session \in 0..MaxSessions /\ queue_recv \in Seq(Message)
      /\ audio_recv \in Seq(Message) /\ online \in BOOLEAN
  BY DEF Typed, PostedType, UiType, RecvType, AudioType
<1>2. CASE Connect
  <2>1. /\ ui = "idle" /\ ~online /\ session' = session + 1 /\ ui' = "connecting"
        /\ posted' = Append(posted, [kind |-> "connect", via |-> session + 1])
        /\ sock' = IF sock = "off" THEN "loop" ELSE sock
        /\ UNCHANGED <<online, conn, received, run, serving, queue_recv, audio_recv>>
    BY <1>2 DEF Connect
  <2>2. Between /\ conn = 0 /\ run = "off" /\ sock # "push" /\ Between'
    BY <2>1 DEF Parted, Silent, Running, Between
  <2>3. queue_recv \in Seq(Closings) /\ audio_recv \in Seq(Closings)
    BY <2>2 DEF Parted, Emptied
  <2>4. Queued' /\ Emptied'
    BY <2>1, <2>3, ClosingsStay DEF Queued, Emptied
  <2>5. sock' # "push"
    BY <2>1, <2>2
  <2>6. Connected' /\ Running' /\ Present' /\ Silent'
    BY <2>1, <2>2, <2>5 DEF Connected, Running, Present, Silent
  <2>7. Sends'
    BY <2>1, <2>2 DEF Sends
  <2>8. Connects'
    <3>1. \A i \in 1..Len(posted) : posted[i].kind # "connect"
      BY <2>1 DEF Parted, Connects
    <3> QED
      BY <1>1, <2>1, <3>1 DEF Connects
  <2> QED
    BY <2>4, <2>6, <2>7, <2>8 DEF Parted
<1>3. CASE StartSender
  <2>1. ui = "start" /\ ui' = "idle" /\ ~Between /\ run = "off"
    BY <1>3 DEF StartSender, Parted, Running, Between
  <2>o. online'
    BY <1>3, Zenon DEF StartSender
  <2>2. run' = "start" /\ serving' = session
        /\ UNCHANGED <<session, conn, sock, received, posted, queue_recv, audio_recv>>
    BY <1>3, <2>1 DEF StartSender
  <2>3. ~Between'
    BY <2>o, <2>1 DEF Between
  <2>4. Connected' /\ Running' /\ Present' /\ Silent' /\ Queued' /\ Emptied'
    BY <2>o, <2>1, <2>2, <2>3 DEF Parted, Connected, Running, Present, Silent, Queued, Emptied
  <2>5. Sends' /\ Connects'
    BY <2>1, <2>2 DEF Parted, Sends, Connects
  <2> QED
    BY <2>4, <2>5 DEF Parted
<1>4. CASE ExitMeeting \/ Drop
  <2>1. /\ ui \in {"idle", "drop"} /\ ui' \in {"drop", "waitSock"}
        /\ UNCHANGED <<online, session, conn, sock, received, posted, run, serving,
                       queue_recv, audio_recv>>
    BY <1>4 DEF ExitMeeting, Drop
  <2>2. Between' <=> Between
    BY <2>1 DEF Between
  <2>3. Connected' /\ Running' /\ Present' /\ Silent' /\ Queued' /\ Emptied'
    BY <2>1, <2>2 DEF Parted, Connected, Running, Present, Silent, Queued, Emptied
  <2>4. Sends' /\ Connects'
    BY <2>1 DEF Parted, Sends, Connects
  <2> QED
    BY <2>3, <2>4 DEF Parted
<1>5. CASE ClearQueues
  <2>1. /\ ui = "waitSock" /\ ui' = "waitRun" /\ sock = "off"
        /\ UNCHANGED <<online, session, conn, sock, received, posted, run, serving>>
    BY <1>5 DEF ClearQueues
  <2>2. queue_recv' = <<>> /\ audio_recv' = <<>>
    BY <1>5 DEF ClearQueues, RecvQ!Clear, AudioQ!Clear
  <2>3. \A S : <<>> \in Seq(S)
    OBVIOUS
  <2>4. conn = 0
    BY <2>1 DEF Parted, Connected
  <2>5. Connected' /\ Running' /\ Present' /\ Silent' /\ Queued' /\ Emptied'
    BY <2>1, <2>2, <2>3, <2>4 DEF Parted, Connected, Running, Present, Silent, Queued, Emptied
  <2>6. Sends' /\ Connects'
    BY <2>1 DEF Parted, Sends, Connects
  <2> QED
    BY <2>5, <2>6 DEF Parted
<1>6. CASE Dropped
  <2>1. /\ ui = "waitRun" /\ ui' = "idle" /\ run = "off"
        /\ UNCHANGED <<session, conn, sock, received, posted, run, serving,
                       queue_recv, audio_recv>>
    BY <1>6 DEF Dropped
  <2>2. Between /\ sock = "off"
    BY <2>1 DEF Parted, Running, Between
  <2>3. Connected' /\ Running' /\ Present' /\ Silent' /\ Queued' /\ Emptied'
    BY <2>1, <2>2 DEF Parted, Connected, Running, Present, Silent, Queued, Emptied
  <2>4. Sends' /\ Connects'
    BY <2>1 DEF Parted, Sends, Connects
  <2> QED
    BY <2>3, <2>4 DEF Parted
<1> QED
  BY <1>2, <1>3, <1>4, <1>5, <1>6

\* Closing the window opens no session.
LEMMA CloseParted ==
  ASSUME Parted, \/ CloseWindow \/ SockEnded \/ SenderEnded \/ SolverEnded \/ FeedersEnded
         \/ SpeakerEnded \/ StopSolver
  PROVE  Parted'
<1>1. /\ UNCHANGED <<online, session, conn, sock, received, posted, run, serving>>
      /\ UNCHANGED <<queue_recv, audio_recv>>
  BY DEF CloseWindow, SockEnded, SenderEnded, SolverEnded, FeedersEnded, SpeakerEnded,
     StopSolver, CloseUnchanged, recvVars, audioVars
<1>2. /\ ui \notin {"connecting", "start", "waitRun"}
      /\ ui' \notin {"connecting", "start", "waitRun"}
  BY DEF CloseWindow, SockEnded, SenderEnded, SolverEnded, FeedersEnded, SpeakerEnded, StopSolver
<1>3. Between' <=> Between
  BY <1>1, <1>2 DEF Between
<1>4. Connected' /\ Running' /\ Present' /\ Silent' /\ Queued' /\ Emptied'
  BY <1>1, <1>2, <1>3 DEF Parted, Connected, Running, Present, Silent, Queued, Emptied
<1>5. Sends' /\ Connects'
  BY <1>1, <1>2 DEF Parted, Sends, Connects
<1> QED
  BY <1>4, <1>5 DEF Parted

\* Every step keeps the sessions apart.
LEMMA NextParted == Typed /\ Parted /\ [Next]_vars => Parted'
<1> SUFFICES ASSUME Typed, Parted, [Next]_vars PROVE Parted'
  OBVIOUS
<1>1. ASSUME UNCHANGED <<ui, online, session, conn, sock, received, posted, run, serving,
                         queue_recv, audio_recv>>
      PROVE  Parted'
  BY <1>1 DEF Parted, Connected, Running, Sends, Connects, Silent, Emptied, Present, Queued, Between
<1>2. CASE SenderStep
  BY <1>2, SenderParted
<1>3. CASE SockStep \/ Receive \/ ErrorDetect
  BY <1>3, ConnectServerParted, SocketParted DEF SockStep
<1>4. ASSUME NEW f \in Feeders, FeederStep(f) \/ Ask(f) PROVE Parted'
  BY <1>1, <1>4 DEF FeederStep, FeederTakes, FeederPushes, FeederWaits, FeederEnds, Ask,
     FeedUnchanged, uiVars, sockVars, runVars, recvVars, audioVars
<1>5. CASE SolverStep \/ Datasolve \/ SpeakerStep
  BY <1>5, TakersParted
<1>6. CASE UiStep \/ Connect \/ ExitMeeting \/ CloseWindow
  BY <1>5, <1>6, UiParted, CloseParted DEF UiStep
<1>7. CASE UNCHANGED vars
  BY <1>1, <1>7 DEF vars, uiVars, sockVars, runVars, recvVars, audioVars
<1> QED
  BY <1>2, <1>3, <1>4, <1>5, <1>6, <1>7 DEF Next, Environment

\* The types and the parting of the sessions hold together.
LEMMA AlwaysParted == Spec => [](Typed /\ Parted)
<1>1. Init => Typed /\ Parted
  BY InitTyped, InitParted
<1>2. Typed /\ Parted /\ [Next]_vars => (Typed /\ Parted)'
  BY NextTyped, NextParted
<1> QED
  BY <1>1, <1>2, PTL DEF Spec

\* What the socket thread writes while it is connected was queued in that
\* session: events left behind are handled before connectServer, which is the
\* last of them (mytcpsocket.cpp 83-89, 566-592).
THEOREM SentOnce == Spec => []SentInItsSession
<1>1. Typed /\ Parted => SentInItsSession
  BY DEF Parted, Connected, Sends, SentInItsSession
<1> QED
  BY <1>1, AlwaysParted, PTL

\* What waits to be shown or played came in the present session, for any
\* number of sessions and messages (mytcpsocket.cpp 581-590).
THEOREM ReceivedOnce == Spec => []ReceivedInThisSession
<1>1. Typed /\ Parted => ReceivedInThisSession
  BY MineIsFresh DEF Parted, Queued, ReceivedInThisSession
<1> QED
  BY <1>1, AlwaysParted, PTL
=============================================================================
