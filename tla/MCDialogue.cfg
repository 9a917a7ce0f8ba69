CONSTANTS
  MaxTyped = 3
  MaxHeard = 1
  MaxCuts = 1
  Input <- FewInput
  Stray <- SomeStray
SPECIFICATION FairSpec
CHECK_DEADLOCK FALSE
INVARIANTS
  TypeOK
  
  InOrder
PROPERTIES
  ByeEndsBoth
  ServiceEnds
