CONSTANTS
  MaxTyped = 2
  MaxHeard = 0
  MaxCuts = 0
  Input <- EveryInput
  Stray <- SomeStray
SPECIFICATION Spec
CHECK_DEADLOCK FALSE
INVARIANT DaemonStays
