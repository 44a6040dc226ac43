CONSTANTS
  p1 = p1
  p2 = p2
  c1 = c1
  c2 = c2
  m1 = m1
  m2 = m2
  Pill = Pill
  Idle = Idle
  MAXSIZE = 4
  SENDTHREADSIZE = 2
  Producers <- MCProducers
  Consumers <- MCConsumers
  Messages <- MCTwoMessages
SPECIFICATION FairSpec
INVARIANTS
  TypeOK
  NoLostWakeup
  DrainedBeforeRetiring
PROPERTIES
  ImplementsFrameQueue
  EveryConsumerRetires
  FullIsRelieved
