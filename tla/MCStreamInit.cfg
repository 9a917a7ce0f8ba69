CONSTANTS
  MaxClient = 3
  MaxThreads = 2
  MaxStops = 1
  MaxGone = 1
SPECIFICATION FairSpec
CHECK_DEADLOCK FALSE
INVARIANTS
  TypeOK
  OwnDialogue
  StaysUp
  ZombiesAreMerged
  WaitReturns
PROPERTIES
  InterruptWaits
  ClientsEnd
