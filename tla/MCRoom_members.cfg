CONSTANTS
  a = a
  b = b
  c = c
  s1 = s1
  Pill = Pill
  NoConn = NoConn
  NoIp = NoIp
  RoomThread = RoomThread
  AcceptThread = AcceptThread
  Conns <- TwoJoiners
  Creator = a
  IpOf <- OwnIp
  Ips <- AllIps
  SendThreads <- OneSender
  MAXSIZE = 3
  SENDTHREADSIZE = 1
  ROOMLIMIT = 2
  MaxFrames = 0
  IdsSecret = TRUE
  Kinds = {}
SPECIFICATION Spec
CHECK_DEADLOCK FALSE
SYMMETRY Joiners
INVARIANTS
  TypeOK
  SelectSafe
  Bookkeeping
  ClosedStaysEmpty
  StaleOnlyAfterClear
  OnePlace
PROPERTIES
  ImplementsMeeting
