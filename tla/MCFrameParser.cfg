SPECIFICATION Spec
CONSTANTS
  Base = 3
  FRAME_HEADER_CLIENT = 1
  FRAME_HEADER_SERVER = 2
  Payloads <- MCPayloads
  Noise <- MCNoise
  MaxFrames = 3
CHECK_DEADLOCK FALSE
INVARIANTS
  InOrder
  NothingHeldBack
PROPERTIES
  EachTurnConsumes
  FeedReturns
