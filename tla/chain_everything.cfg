CONSTANTS
  MaxStarts = 2
  MaxTicks = 2
  Env <- Everything
SPECIFICATION Spec
INVARIANTS
  TypeOK
  PairedSamples
  ChainHasImpl
  NeverKilled
  SessionCollects
  NothingLeft
PROPERTY ImplementsSession
CHECK_DEADLOCK FALSE
