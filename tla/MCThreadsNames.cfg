CONSTANTS
  n1 = n1  n2 = n2  n3 = n3
  s1 = s1  s2 = s2  s3 = s3
  MaxUser = 2
  MaxConn = 3
  MaxInFlight = 2
  Name <- TwoNames
  Socket <- ThreeSockets
SPECIFICATION Spec
CHECK_DEADLOCK FALSE
SYMMETRY MCSymmetry
INVARIANT UniqueNames
