CONSTANTS
  text = text
  Sock = Sock
  Sender = Sender
  Solver = Solver
  Speaker = Speaker
  QUEUE_MAXSIZE = 0
  MaxSessions = 2
  MaxAsked = 2
  MaxReceived = 3
  Feeders <- MCFeeders
SPECIFICATION FairSpec
INVARIANTS
  TypeOK
  SentInItsSession
  ReceivedInThisSession
  FeedersWillWake
CHECK_DEADLOCK FALSE
PROPERTIES
  DisconnectReturns
  WindowCloses
