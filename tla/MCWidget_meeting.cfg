CONSTANTS
  me = me
  zero = zero
  minus = minus
  a = a
  Own = me
  Unconnected = zero
  NoSocket = minus
  Others <- MCOthers
  MaxAsked = 1
  MaxMic = 1
SPECIFICATION Spec
INVARIANTS
  TypeOK
  OneConnection
  WayOn
  SoundNeedsCompany
  MicIsShown
  MentionsAreShown
  EntriesAreTiles
  SendmsgComesBack
CONSTRAINT Within
CHECK_DEADLOCK FALSE
