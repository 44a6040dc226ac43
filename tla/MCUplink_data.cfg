CONSTANTS
  Dollar = 36
  Hash = 35
  MEDIA = 4
  CLOSE_CAMERA = 9
  MaxMessages = 3
  Texts <- MCTexts
SPECIFICATION Spec
INVARIANT SaidIsForwarded
CHECK_DEADLOCK FALSE
