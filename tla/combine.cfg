CONSTANT
  Runs <- ShortRuns
SPECIFICATION Spec
INVARIANTS
  TypeOK
  StacksSurvive
  PairedIfAdjacent
  FailsOnlyIfMissed
  CallsReplaced
CHECK_DEADLOCK FALSE
