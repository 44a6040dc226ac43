CONSTANTS
  a1 = a1
  a2 = a2
  c1 = c1
  c2 = c2
  c3 = c3
  None = None
  Acceptors <- MCAcceptors
  Clients <- MCClients
  Numbers <- MCNumbers
  HEAD = 2
  MaxSent = 2
SPECIFICATION FairSpec
INVARIANTS
  TypeOK
  MapAgrees
PROPERTIES
  EveryoneAccepted
  EveryoneAnswered
CHECK_DEADLOCK FALSE
