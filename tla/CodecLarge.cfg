SPECIFICATION Spec
CONSTANTS
  Base = 4
  HeaderLength = 2
  Packets <- MCLargeCodes
  MaxSent = 2
  PushesPerFrame = 1
INVARIANT
  DecodesWhatWasSent
CHECK_DEADLOCK FALSE
