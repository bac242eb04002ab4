CONSTANT
  Runs <- ShortRuns
SPECIFICATION Spec
INVARIANT SampledSimultaneously
CHECK_DEADLOCK FALSE
