SPECIFICATION Spec
CONSTANTS
  Base = 4
  HeaderLength = 2
  Packets <- MCPackets
  MaxSent = 3
  PushesPerFrame = 2
INVARIANTS
  TypeOK
  StaysInStep
PROPERTY
  DeliversInOrder
CHECK_DEADLOCK FALSE
