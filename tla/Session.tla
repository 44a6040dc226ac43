------------------------------ MODULE Session ------------------------------
(***************************************************************************)
(* The threads of the client and how they connect, disconnect and end: the  *)
(* user interface (Widget), the socket thread in which MyTcpSocket lives,   *)
(* the sending thread (MyTcpSocket::run), the thread that hands received    *)
(* messages to the user interface (RecvSolve), the sound thread             *)
(* (AudioOutput) and the threads that feed queue_send (SendText, SendImg).  *)
(*                                                                          *)
(* One action per critical section or event; a thread inside a blocking     *)
(* call is where its program counter says and takes no other step.          *)
(***************************************************************************)
EXTENDS Naturals, Sequences, FiniteSets

CONSTANTS
  QUEUE_MAXSIZE,    \* bound of each queue
  Feeders,          \* SendText, SendImg: threads that push to queue_send
  Sock, Sender, Solver, Speaker,    \* the other threads, as waiters
  MaxSessions,      \* bound: calls of connectToServer
  MaxAsked,         \* bound: messages given to each feeder
  MaxReceived       \* bound: messages received in all

ASSUME SessionAssumption ==
  /\ QUEUE_MAXSIZE \in Nat
  /\ IsFiniteSet(Feeders) /\ Cardinality(Feeders) <= QUEUE_MAXSIZE + 1
  /\ Sock \notin Feeders /\ Sender \notin Feeders
  /\ MaxSessions \in Nat /\ MaxAsked \in Nat /\ MaxReceived \in Nat

VARIABLES
  ui,               \* what the user interface thread is about to do
  online,           \* it takes the client for connected
  handling,         \* it is inside datasolve for a closed connection
  session,          \* calls of connectToServer so far
  conn,             \* the session _socktcp is connected in, or 0
  sock,             \* the socket thread: "off", "loop" or pushing "push"
  quitting,         \* _sockThread->quit() has been called
  posted,           \* events posted to the object that lives in it
  received,         \* the message it is pushing
  run,              \* the sending thread
  serving,          \* the session it was started for
  m_isCanRun,
  queue_send, sendAsleep,
  fed,              \* messages waiting in textqueue, imgqueue
  asked,            \* messages given to each feeder so far
  feed,             \* each feeder: "take", "push", "off"
  queue_recv, recvAsleep,
  solve,            \* RecvSolve: "pop", "emit", "off"
  solved,           \* the message it hands over
  recvCanRun,       \* RecvSolve::m_isCanRun
  audio_recv, audioAsleep,
  play,             \* AudioOutput: "pop", "off"
  count,            \* messages received so far (bound)
  stranded          \* clear() found feeders asleep (history)

uiVars == <<ui, online, handling, session>>
sockVars == <<conn, sock, quitting, received, count>>
runVars == <<run, serving, m_isCanRun>>
sendVars == <<queue_send, sendAsleep>>
feedVars == <<fed, asked, feed>>
recvVars == <<queue_recv, recvAsleep>>
solveVars == <<solve, solved, recvCanRun>>
audioVars == <<audio_recv, audioAsleep, play>>
vars == <<uiVars, sockVars, posted, runVars, sendVars, feedVars, recvVars,
          solveVars, audioVars, stranded>>

SendQ == INSTANCE QueueData WITH queue <- queue_send, asleep <- sendAsleep
RecvQ == INSTANCE QueueData WITH queue <- queue_recv, asleep <- recvAsleep
AudioQ == INSTANCE QueueData WITH queue <- audio_recv, asleep <- audioAsleep

Event == [kind : {"connect", "send"}, via : 0..MaxSessions]
Message == [kind : {"frame", "audio", "closed"}, in : 0..MaxSessions]
NoMessage == [kind |-> "frame", in |-> 0]

\* The constructor of Widget starts the solving, sound and feeding threads.
Init ==
  /\ ui = "idle" /\ online = FALSE /\ handling = FALSE /\ session = 0
  /\ conn = 0 /\ sock = "off" /\ quitting = FALSE /\ posted = <<>>
  /\ received = NoMessage /\ count = 0
  /\ run = "off" /\ serving = 0 /\ m_isCanRun \in BOOLEAN
  /\ queue_send = <<>> /\ sendAsleep = {}
  /\ fed = [f \in Feeders |-> 0] /\ asked = [f \in Feeders |-> 0]
  /\ feed = [f \in Feeders |-> "take"]
  /\ queue_recv = <<>> /\ recvAsleep = {}
  /\ solve = "pop" /\ solved = NoMessage /\ recvCanRun = TRUE
  /\ audio_recv = <<>> /\ audioAsleep = {} /\ play = "pop"
  /\ stranded = FALSE

-----------------------------------------------------------------------------
(* Connecting.                                                              *)

\* errorDetect has a message for the user interface.
PushLost(s) ==
  /\ count < MaxReceived
  /\ count' = count + 1
  /\ received' = [kind |-> "closed", in |-> s]
  /\ sock' = "push"

\* on_connServer_clicked up to the blocking call; start() of a running
\* thread does nothing.
Connect ==
  /\ ui = "idle" /\ ~online
  /\ session < MaxSessions
  /\ session' = session + 1
  /\ sock' = IF sock = "off" THEN "loop" ELSE sock
  /\ quitting' = FALSE
  /\ posted' = Append(posted, [kind |-> "connect", via |-> session + 1])
  /\ ui' = "connecting"
  /\ UNCHANGED <<online, handling, conn, received, count, runVars, sendVars,
                 feedVars, recvVars, solveVars, audioVars, stranded>>

\* The slot connectServer; waitForConnected succeeds or gives up, and may
\* have called errorDetect then, which pushes before the slot returns.
ConnectServer ==
  /\ sock = "loop"
  /\ posted # <<>> /\ Head(posted).kind = "connect"
  /\ posted' = Tail(posted)
  /\ \/ conn' = session /\ ui' = "start" /\ UNCHANGED <<sock, received, count>>
     \/ conn' = 0 /\ ui' = "idle" /\ UNCHANGED <<sock, received, count>>
     \/ conn' = 0 /\ UNCHANGED ui /\ PushLost(session)
  /\ UNCHANGED <<online, handling, session, quitting, runVars, sendVars,
                 feedVars, recvVars, solveVars, audioVars, stranded>>

\* connectToServer starts the sending thread when it has been connected.
StartSender ==
  /\ ui = "start"
  /\ ui' = "idle"
  /\ online' = TRUE
  /\ IF run = "off" THEN run' = "start" /\ serving' = session
                    ELSE UNCHANGED <<run, serving>>
  /\ UNCHANGED <<handling, session, sockVars, posted, m_isCanRun, sendVars,
                 feedVars, recvVars, solveVars, audioVars, stranded>>

-----------------------------------------------------------------------------
(* MyTcpSocket::run.                                                        *)

SenderUnchanged == UNCHANGED <<uiVars, sockVars, feedVars, recvVars, solveVars,
                               audioVars, stranded, serving>>

\* run() marks itself runnable without the lock, whatever was set before.
SenderBegins ==
  /\ run = "start"
  /\ m_isCanRun' = TRUE
  /\ run' = "test"
  /\ SenderUnchanged /\ UNCHANGED <<posted, sendVars>>

SenderTests ==
  /\ run = "test"
  /\ run' = IF m_isCanRun THEN "pop" ELSE "off"
  /\ SenderUnchanged /\ UNCHANGED <<posted, m_isCanRun, sendVars>>

SenderPops ==
  /\ run = "pop"
  /\ SendQ!Pop(Sender)
  /\ run' = "post"
  /\ SenderUnchanged /\ UNCHANGED <<posted, m_isCanRun>>

SenderWaits ==
  /\ run = "pop"
  /\ SendQ!PopWaits(Sender)
  /\ SenderUnchanged /\ UNCHANGED <<posted, m_isCanRun, run>>

MutantSenderTimesOut ==
  /\ run = "pop"
  /\ SendQ!TimesOut(Sender)
  /\ SenderUnchanged /\ UNCHANGED <<posted, m_isCanRun, run>>

SenderTimesOut ==
  /\ run = "pop"
  /\ SendQ!TimesOut(Sender)
  /\ run' = "test"
  /\ SenderUnchanged /\ UNCHANGED <<posted, m_isCanRun>>

\* invokeMethod(this, "sendData") posts to the socket thread, running or not.
SenderPosts ==
  /\ run = "post"
  /\ posted' = Append(posted, [kind |-> "send", via |-> serving])
  /\ run' = "test"
  /\ SenderUnchanged /\ UNCHANGED <<m_isCanRun, sendVars>>

-----------------------------------------------------------------------------
(* The socket thread.                                                       *)

\* sendData writes the message, or frees it when the socket is unconnected.
SendData ==
  /\ sock = "loop"
  /\ posted # <<>> /\ Head(posted).kind = "send"
  /\ posted' = Tail(posted)
  /\ UNCHANGED <<uiVars, sockVars, runVars, sendVars, feedVars, recvVars,
                 solveVars, audioVars, stranded>>

\* recvFromSocket has a whole frame to push; sound has a queue of its own.
Receive ==
  /\ sock = "loop" /\ conn # 0
  /\ count < MaxReceived
  /\ count' = count + 1
  /\ \E kind \in {"frame", "audio"} :
       received' = [kind |-> kind, in |-> conn]
  /\ sock' = "push"
  /\ UNCHANGED <<uiVars, conn, quitting, posted, runVars, sendVars, feedVars,
                 recvVars, solveVars, audioVars, stranded>>

\* The connection is lost; errorDetect is called, if Qt knows the signal.
ErrorDetect ==
  /\ sock = "loop" /\ conn # 0
  /\ conn' = 0
  /\ PushLost(conn) \/ UNCHANGED <<received, count, sock>>
  /\ UNCHANGED <<uiVars, quitting, posted, runVars, sendVars, feedVars,
                 recvVars, solveVars, audioVars, stranded>>

SockPushes ==
  /\ sock = "push"
  /\ IF received.kind = "audio"
       THEN AudioQ!Push(Sock, received) /\ UNCHANGED recvVars
       ELSE RecvQ!Push(Sock, received) /\ UNCHANGED <<audio_recv, audioAsleep>>
  /\ sock' = "loop"
  /\ received' = NoMessage
  /\ ui' = IF ui = "connecting" THEN "idle" ELSE ui
  /\ UNCHANGED <<online, handling, session, conn, quitting, count, posted,
                 runVars, sendVars, feedVars, solveVars, play, stranded>>

SockWaits ==
  /\ sock = "push"
  /\ IF received.kind = "audio"
       THEN AudioQ!PushWaits(Sock) /\ UNCHANGED recvVars
       ELSE RecvQ!PushWaits(Sock) /\ UNCHANGED <<audio_recv, audioAsleep>>
  /\ UNCHANGED <<uiVars, sockVars, posted, runVars, sendVars, feedVars,
                 solveVars, play, stranded>>

\* The event loop returns and finished() closes the socket; what is still
\* posted stays posted until the thread is started again.
SockEnds ==
  /\ sock = "loop" /\ quitting
  /\ sock' = "off"
  /\ conn' = 0
  /\ UNCHANGED <<uiVars, quitting, received, count, posted, runVars, sendVars,
                 feedVars, recvVars, solveVars, audioVars, stranded>>

-----------------------------------------------------------------------------
(* SendText and SendImg.                                                    *)

FeedUnchanged == UNCHANGED <<uiVars, sockVars, posted, runVars, recvVars,
                             solveVars, audioVars, stranded>>

\* A slot of Widget has a text, a request or a picture for the feeder's own
\* queue.
Ask(f) ==
  /\ ui = "idle"
  /\ asked[f] < MaxAsked
  /\ asked' = [asked EXCEPT ![f] = @ + 1]
  /\ fed' = [fed EXCEPT ![f] = @ + 1]
  /\ FeedUnchanged /\ UNCHANGED <<feed, sendVars>>

FeederTakes(f) ==
  /\ feed[f] = "take" /\ fed[f] > 0
  /\ fed' = [fed EXCEPT ![f] = @ - 1]
  /\ feed' = [feed EXCEPT ![f] = "push"]
  /\ FeedUnchanged /\ UNCHANGED <<asked, sendVars>>

FeederPushes(f) ==
  /\ feed[f] = "push"
  /\ SendQ!Push(f, "message")
  /\ feed' = [feed EXCEPT ![f] = "take"]
  /\ FeedUnchanged /\ UNCHANGED <<fed, asked>>

FeederWaits(f) ==
  /\ feed[f] = "push"
  /\ SendQ!PushWaits(f)
  /\ FeedUnchanged /\ UNCHANGED feedVars

\* The stop flag is looked at only when the wait for a message has timed out.
FeederEnds(f) ==
  /\ feed[f] = "take" /\ fed[f] = 0
  /\ ui = "endFeeders"
  /\ feed' = [feed EXCEPT ![f] = "off"]
  /\ FeedUnchanged /\ UNCHANGED <<fed, asked, sendVars>>

-----------------------------------------------------------------------------
(* RecvSolve and AudioOutput.                                               *)

SolveUnchanged == UNCHANGED <<sockVars, posted, runVars, sendVars, feedVars,
                              audioVars, stranded, recvCanRun>>

\* m_isCanRun, which ~Widget clears, is tested every round.
SolverGoesOn == solve' = IF recvCanRun THEN "pop" ELSE "off"

\* datarecv is a blocking queued signal: the thread waits from here on for
\* the user interface.
SolverPops ==
  /\ solve = "pop"
  /\ RecvQ!Pop(Solver)
  /\ solved' = Head(queue_recv)
  /\ solve' = "emit"
  /\ SolveUnchanged /\ UNCHANGED uiVars

SolverWaits ==
  /\ solve = "pop"
  /\ RecvQ!PopWaits(Solver)
  /\ SolveUnchanged /\ UNCHANGED <<uiVars, solve, solved>>

SolverTimesOut ==
  /\ solve = "pop"
  /\ RecvQ!TimesOut(Solver)
  /\ SolverGoesOn
  /\ SolveUnchanged /\ UNCHANGED <<uiVars, solved>>

\* The user interface takes the event from its loop.  A closed connection
\* makes datasolve disconnect before it returns.
Datasolve ==
  /\ ui = "idle" /\ solve = "emit"
  /\ IF solved.kind = "closed"
       THEN ui' = "drop" /\ handling' = TRUE /\ UNCHANGED <<solve, solved>>
       ELSE SolverGoesOn /\ solved' = NoMessage /\ UNCHANGED <<ui, handling>>
  /\ SolveUnchanged /\ UNCHANGED <<online, session, recvVars>>

AudioUnchanged == UNCHANGED <<uiVars, sockVars, posted, runVars, sendVars,
                              feedVars, recvVars, solveVars, stranded>>

\* is_canRun, which the last step of ~Widget clears, is tested every round.
SpeakerGoesOn == play' = IF ui = "endSpeaker" THEN "off" ELSE "pop"

\* The sound thread also ends when the device refuses what it writes.
SpeakerPops ==
  /\ play = "pop"
  /\ AudioQ!Pop(Speaker)
  /\ SpeakerGoesOn \/ play' = "off"
  /\ AudioUnchanged

SpeakerWaits ==
  /\ play = "pop"
  /\ AudioQ!PopWaits(Speaker)
  /\ AudioUnchanged /\ UNCHANGED play

SpeakerTimesOut ==
  /\ play = "pop"
  /\ AudioQ!TimesOut(Speaker)
  /\ SpeakerGoesOn
  /\ AudioUnchanged

-----------------------------------------------------------------------------
(* Disconnecting: the exit button, or datasolve for a closed connection.    *)

ExitMeeting ==
  /\ ui = "idle" /\ online
  /\ ui' = "drop"
  /\ UNCHANGED <<online, handling, session, sockVars, posted, runVars,
                 sendVars, feedVars, recvVars, solveVars, audioVars, stranded>>

\* Both threads are told to stop; nothing is said to one that has ended.
StopThreads ==
  /\ m_isCanRun' = IF run # "off" THEN FALSE ELSE m_isCanRun
  /\ quitting' = (sock # "off")

Drop ==
  /\ ui = "drop"
  /\ StopThreads
  /\ ui' = "waitSock"
  /\ UNCHANGED <<online, handling, session, conn, sock, received, count,
                 posted, run, serving, sendVars, feedVars, recvVars,
                 solveVars, audioVars, stranded>>

MutantClearQueues ==
  /\ ui = "waitSock"
  /\ SendQ!Clear /\ RecvQ!Clear /\ AudioQ!Clear
  /\ stranded' = (stranded \/ sendAsleep \cap Feeders # {})
  /\ ui' = "waitRun"
  /\ UNCHANGED <<online, handling, session, sockVars, posted, runVars,
                 feedVars, solveVars, play>>

\* The second half of disconnectFromHost: the socket thread has ended, and
\* the three queues are cleared.
ClearQueues ==
  /\ ui = "waitSock"
  /\ sock = "off"
  /\ SendQ!Clear /\ RecvQ!Clear /\ AudioQ!Clear
  /\ stranded' = (stranded \/ sendAsleep \cap Feeders # {})
  /\ ui' = "waitRun"
  /\ UNCHANGED <<online, handling, session, sockVars, posted, runVars,
                 feedVars, solveVars, play>>

MutantDropped ==
  /\ ui = "waitRun"
  /\ ui' = "idle" /\ online' = FALSE /\ handling' = FALSE
  /\ IF handling THEN SolverGoesOn /\ solved' = NoMessage ELSE UNCHANGED <<solve, solved>>
  /\ UNCHANGED <<session, sockVars, posted, runVars, sendVars, feedVars,
                 recvVars, recvCanRun, audioVars, stranded>>

\* The caller waits for the sending thread, and datasolve returns.
Dropped ==
  /\ ui = "waitRun"
  /\ run = "off"
  /\ ui' = "idle"
  /\ online' = FALSE
  /\ handling' = FALSE
  /\ IF handling THEN SolverGoesOn /\ solved' = NoMessage
                 ELSE UNCHANGED <<solve, solved>>
  /\ UNCHANGED <<session, sockVars, posted, runVars, sendVars, feedVars,
                 recvVars, recvCanRun, audioVars, stranded>>

-----------------------------------------------------------------------------
(* Closing the window: ~Widget ends one thread after the other.             *)

CloseUnchanged == UNCHANGED <<online, handling, session, conn, sock, received,
                              count, posted, run, serving, sendVars, feedVars,
                              recvVars, solved, audioVars, stranded>>

CloseWindow ==
  /\ ui = "idle"
  /\ IF run # "off" THEN StopThreads /\ ui' = "endSock"
                    ELSE ui' = "endSolver" /\ UNCHANGED <<m_isCanRun, quitting>>
  /\ CloseUnchanged /\ UNCHANGED <<solve, recvCanRun>>

SockEnded ==
  /\ ui = "endSock" /\ sock = "off"
  /\ ui' = "endSender"
  /\ CloseUnchanged /\ UNCHANGED <<m_isCanRun, quitting, solve, recvCanRun>>

SenderEnded ==
  /\ ui = "endSender" /\ run = "off"
  /\ ui' = "endSolver"
  /\ CloseUnchanged /\ UNCHANGED <<m_isCanRun, quitting, solve, recvCanRun>>

MutantStopSolver ==
  /\ ui = "endSolver"
  /\ ui' = "waitSolver"
  /\ CloseUnchanged /\ UNCHANGED <<m_isCanRun, quitting, solve, recvCanRun>>

StopSolver ==
  /\ ui = "endSolver"
  /\ recvCanRun' = FALSE
  /\ ui' = "waitSolver"
  /\ CloseUnchanged /\ UNCHANGED <<m_isCanRun, quitting, solve>>

SolverEnded ==
  /\ ui = "waitSolver" /\ solve = "off"
  /\ ui' = "endFeeders"
  /\ CloseUnchanged /\ UNCHANGED <<m_isCanRun, quitting, solve, recvCanRun>>

FeedersEnded ==
  /\ ui = "endFeeders"
  /\ \A f \in Feeders : feed[f] = "off"
  /\ ui' = "endSpeaker"
  /\ CloseUnchanged /\ UNCHANGED <<m_isCanRun, quitting, solve, recvCanRun>>

SpeakerEnded ==
  /\ ui = "endSpeaker" /\ play = "off"
  /\ ui' = "gone"
  /\ CloseUnchanged /\ UNCHANGED <<m_isCanRun, quitting, solve, recvCanRun>>

-----------------------------------------------------------------------------
SenderStep == \/ SenderBegins \/ SenderTests \/ SenderPops \/ SenderWaits
              \/ SenderTimesOut \/ SenderPosts
SockStep == \/ ConnectServer \/ SendData \/ SockPushes \/ SockWaits \/ SockEnds
FeederStep(f) == \/ FeederTakes(f) \/ FeederPushes(f) \/ FeederWaits(f)
                 \/ FeederEnds(f)
SolverStep == SolverPops \/ SolverWaits \/ SolverTimesOut
SpeakerStep == SpeakerPops \/ SpeakerWaits \/ SpeakerTimesOut
UiStep == \/ StartSender \/ Datasolve \/ Drop \/ ClearQueues \/ Dropped
          \/ SockEnded \/ SenderEnded \/ StopSolver \/ SolverEnded
          \/ FeedersEnded \/ SpeakerEnded

\* What the user and the server choose to do.
Environment == \/ Connect \/ ExitMeeting \/ CloseWindow
               \/ Receive \/ ErrorDetect
               \/ \E f \in Feeders : Ask(f)

Next == \/ SenderStep \/ SockStep \/ SolverStep \/ SpeakerStep \/ UiStep
        \/ \E f \in Feeders : FeederStep(f)
        \/ Environment

Spec == Init /\ [][Next]_vars

\* Every thread of the client goes on; nothing is owed by user and server.
Fairness ==
  /\ WF_vars(SenderStep) /\ WF_vars(SockStep) /\ WF_vars(SolverStep)
  /\ WF_vars(SpeakerStep) /\ WF_vars(UiStep)
  /\ \A f \in Feeders : WF_vars(FeederStep(f))

FairSpec == Spec /\ Fairness

-----------------------------------------------------------------------------
(* Properties.                                                              *)

UiPlaces == {"idle", "connecting", "start", "drop", "waitSock", "waitRun",
             "endSock", "endSender", "endSolver", "waitSolver", "endFeeders",
             "endSpeaker", "gone"}

\* Types of the variables; a queue holds one message more than its bound.
TypeOK ==
  /\ ui \in UiPlaces /\ online \in BOOLEAN /\ handling \in BOOLEAN
  /\ session \in 0..MaxSessions /\ conn \in 0..MaxSessions
  /\ sock \in {"off", "loop", "push"} /\ quitting \in BOOLEAN
  /\ posted \in Seq(Event) /\ received \in Message /\ count \in 0..MaxReceived
  /\ run \in {"off", "start", "test", "pop", "post"}
  /\ serving \in 0..MaxSessions /\ m_isCanRun \in BOOLEAN
  /\ queue_send \in Seq({"message"}) /\ Len(queue_send) <= QUEUE_MAXSIZE + 1
  /\ sendAsleep \subseteq Feeders \cup {Sender}
  /\ fed \in [Feeders -> 0..MaxAsked] /\ asked \in [Feeders -> 0..MaxAsked]
  /\ feed \in [Feeders -> {"take", "push", "off"}]
  /\ queue_recv \in Seq(Message) /\ Len(queue_recv) <= QUEUE_MAXSIZE + 1
  /\ recvAsleep \subseteq {Sock, Solver}
  /\ solve \in {"pop", "emit", "off"} /\ solved \in Message
  /\ recvCanRun \in BOOLEAN
  /\ audio_recv \in Seq(Message) /\ Len(audio_recv) <= QUEUE_MAXSIZE + 1
  /\ audioAsleep \subseteq {Sock, Speaker} /\ play \in {"pop", "off"}
  /\ stranded \in BOOLEAN

\* While the socket is connected, nothing that the sending thread posted in an
\* earlier session is left for it to write: what a session leaves behind is
\* handled before the next one connects, and freed (mytcpsocket.cpp 83-89).
SentInItsSession ==
  conn # 0 => \A i \in 1..Len(posted) : posted[i].kind = "send" => posted[i].via = conn

\* What waits in the queues to be shown or played belongs to the present
\* session: they are cleared after the last push of the old one
\* (mytcpsocket.cpp 581-590).  A lost connection may be reported late.
Fresh(q) == \A i \in 1..Len(q) : q[i].kind # "closed" => q[i].in = session

ReceivedInThisSession == Fresh(queue_recv) /\ Fresh(audio_recv)

\* Sleeping feeders are never more than the messages whose removal will wake
\* them, as long as clear() has found none of them asleep (netheader.h 83-112).
FeedersWillWake ==
  ~stranded => Cardinality(sendAsleep \cap Feeders) <= Len(queue_send)

\* The user interface waits for the socket thread, which waits for a place in
\* queue_recv, which waits for RecvSolve, which waits for the user interface.
Circle == /\ sock = "push" /\ received.kind # "audio" /\ RecvQ!TooLong
          /\ solve = "emit"

\* The socket thread waits for a sound thread that has ended.
Deaf == sock = "push" /\ received.kind = "audio" /\ AudioQ!TooLong /\ play = "off"

\* The sending thread took its first step after it had been told to stop.
Restarted == run # "off" /\ m_isCanRun

\* Disconnecting comes to an end, but for the three ways it may hang
\* (widget.cpp 746, 1076; mytcpsocket.cpp 572-591).
DisconnectReturns ==
  ui \in {"drop", "waitSock", "waitRun"} ~>
    ui = "idle" \/ Circle \/ Deaf \/ (ui = "waitRun" /\ Restarted)

\* RecvSolve waits for a user interface that waits for its end.
HandedTooLate == ui = "waitSolver" /\ solve = "emit"

\* A feeder waits for a place in queue_send and nobody pops any more.
FeederHeld == run = "off" /\ \E f \in Feeders : feed[f] = "push" /\ (SendQ!TooLong \/ f \in sendAsleep)

\* A closed window ends the program, but for these ways to hang (widget.cpp 638-700).
WindowCloses ==
  ui \in {"endSock", "endSender", "endSolver", "waitSolver", "endFeeders", "endSpeaker"} ~>
    \/ ui = "gone" \/ Circle \/ Deaf \/ (ui = "endSender" /\ Restarted)
    \/ HandedTooLate \/ FeederHeld
=============================================================================
