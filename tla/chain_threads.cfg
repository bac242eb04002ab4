CONSTANTS
  MaxStarts = 2
  MaxTicks = 2
  Env <- Restarts
  Workers <- OneWorker
SPECIFICATION ThreadsSpec
INVARIANTS
  ThreadsTypeOK
  HeaderFirst
  SafeWhileSerial
PROPERTY AtomicWhileSerial
CHECK_DEADLOCK FALSE
