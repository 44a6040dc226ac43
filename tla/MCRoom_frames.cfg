CONSTANTS
  a = a
  b = b
  c = c
  s1 = s1
  Pill = Pill
  NoConn = NoConn
  NoIp = NoIp
  RoomThread = RoomThread
  AcceptThread = AcceptThread
  Conns <- OneJoiner
  Creator = a
  IpOf <- NamelessJoiner
  Ips <- AllIps
  SendThreads <- OneSender
  MAXSIZE = 3
  SENDTHREADSIZE = 1
  ROOMLIMIT = 2
  MaxFrames = 1
  IdsSecret = FALSE
  Kinds = {"MEDIA", "CAMERA", "OTHER", "GARBAGE", "STUB"}
SPECIFICATION FairSpec
CHECK_DEADLOCK FALSE
INVARIANTS
  NeverJams
PROPERTIES
  GoneMemberIsClosed
  HandedIsRegistered
