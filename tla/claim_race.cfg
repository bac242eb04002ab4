CONSTANTS
  MaxStarts = 1
  MaxTicks = 1
  Env <- Orderly
  Workers <- OneWorker
SPECIFICATION ThreadsSpec
INVARIANT NoHandlerAfterClose
CHECK_DEADLOCK FALSE
