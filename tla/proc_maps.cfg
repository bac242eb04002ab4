CONSTANTS
  InodeWidth = 2
  KBufSize = 18
  MapsFiles <- Files
  ReadMayFail = TRUE
SPECIFICATION Spec
INVARIANTS
  TypeOK
  PointersOrdered
  EntriesInOrder
  TrailerComplete
PROPERTY LoopEnds
CHECK_DEADLOCK FALSE
