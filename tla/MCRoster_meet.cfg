CONSTANTS
  a = a
  b = b
  c = c
  s1 = s1
  s2 = s2
  Pill = Pill
  NoConn = NoConn
  NoIp = NoIp
  RoomThread = RoomThread
  AcceptThread = AcceptThread
  Conns <- OneJoiner
  Creator = a
  IpOf <- OwnIp
  Ips <- AllIps
  SendThreads <- TwoSenders
  MAXSIZE = 4
  SENDTHREADSIZE = 2
  ROOMLIMIT = 3
  MaxFrames = 0
  IdsSecret = TRUE
  Kinds = {}
SPECIFICATION RosterFairSpec
CHECK_DEADLOCK FALSE
PROPERTIES
  MembersMeet
