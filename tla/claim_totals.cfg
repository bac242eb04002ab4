CONSTANTS
  MaxStarts = 1
  MaxTicks = 1
  Env <- Nothing
SPECIFICATION Spec
INVARIANT TotalsAgree
CHECK_DEADLOCK FALSE
