CONSTANTS
  MaxStarts = 3
  MaxTicks = 1
  MaxDepth = 2
  Env <- Uninterrupted
SPECIFICATION ComSpec
INVARIANTS
  ComTypeOK
  SessionOwned
  HandlerHasStream
  SessionEndsWithFrame
  FrameCompletesItsOwn
CHECK_DEADLOCK FALSE
