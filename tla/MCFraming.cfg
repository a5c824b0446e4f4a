SPECIFICATION FramingSpec
CONSTANTS
  HEADER_SIZE = 2
  MaxPayload = 2
  ReadSize = 3
  Word = 16
  Sizes = {0, 2, 3, 13, 15}
  MaxFrames = 3
CHECK_DEADLOCK FALSE
INVARIANTS
  FramesInOrder NothingLeftBehind BufferBounded ClosedByLongFrame
PROPERTIES
  EveryFrameHandled
