CONSTANTS
  MSG_HEADER = 2
  CAP = 6
  MaxByte = 5
  Dollar = 4
  Hash = 5
  MaxFrames = 3
  MaxNoise = 2
  Bodies <- MCBodies
  Noise <- MCNoise
SPECIFICATION Spec
INVARIANTS
  TypeOK
  RoomToRead
  InOrder
  NoneLost
CHECK_DEADLOCK FALSE
