CONSTANTS
  KMaxStackDepth = 3
  Addresses <- LowAddresses
  MaxRecords = 2
  DiskMayFill = TRUE
SPECIFICATION Spec
INVARIANTS
  TypeOK
  NothingInvented
  NothingLost
CHECK_DEADLOCK FALSE
