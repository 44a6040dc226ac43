CONSTANTS
  a = a
  b = b
  c = c
  s1 = s1
  Pill = Pill
  NoConn = NoConn
  NoIp = NoIp
  RoomThread = RoomThread
  AcceptThread = AcceptThread
  Conns <- OneJoiner
  Creator = a
  IpOf <- OwnIp
  Ips <- AllIps
  SendThreads <- OneSender
  MAXSIZE = 3
  SENDTHREADSIZE = 1
  ROOMLIMIT = 2
  MaxFrames = 2
  IdsSecret = TRUE
  Kinds = {"MEDIA"}
SPECIFICATION FairSpec
CHECK_DEADLOCK FALSE
PROPERTIES
  ClosedRoomEnds
