CONSTANTS
  KMaxStackDepth = 3
  Addresses <- LowAddresses
  MaxRecords = 1
  DiskMayFill = FALSE
SPECIFICATION Spec
INVARIANT PcOnce
CHECK_DEADLOCK FALSE
