CONSTANTS
  n1 = n1  n2 = n2  n3 = n3
  s1 = s1  s2 = s2  s3 = s3
  MaxUser = 2
  MaxConn = 2
  MaxInFlight = 2
  Name <- OneName
  Socket <- TwoSockets
SPECIFICATION FairSpec
CHECK_DEADLOCK FALSE
INVARIANTS
  TypeOK
  UniqueIds
  NoGhostRows
  PartnersArrived
PROPERTY RequestsEnd
