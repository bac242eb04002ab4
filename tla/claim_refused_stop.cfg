CONSTANTS
  MaxStarts = 1
  MaxTicks = 1
  Env <- OnlyOfsFails
SPECIFICATION Spec
INVARIANT RefusedStopMeansRprofOff
CHECK_DEADLOCK FALSE
