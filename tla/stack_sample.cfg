CONSTANTS
  KMaxStackDepth = 3
  Addresses <- ProgramAddresses
  MaxRecords = 1
  DiskMayFill = FALSE
  Program <- Bytes
  Functions <- Entries
  Bare <- WithReturn
  Pushed <- WithPointer
  Framed <- WithFrame
  MaxCalls = 4
SPECIFICATION SampleSpec
INVARIANTS
  SampleTypeOK
  ReadsMapped
  NoFalseEdge
CHECK_DEADLOCK FALSE
