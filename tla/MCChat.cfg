CONSTANTS
  n1 = n1  n2 = n2  n3 = n3
  s1 = s1  s2 = s2  s3 = s3
  MaxUser = 2
  MaxConn = 4
  Name <- MCName
  Socket <- MCSocket
SPECIFICATION Spec
SYMMETRY MCSymmetry
CHECK_DEADLOCK FALSE
INVARIANTS
  TypeOK
  Inv
  UniqueNames
  SizeCounts
  PartnersKnown
  ServerOutlives
  MessagesRouted
  ListTellsWho
  AnswersTruthful
PROPERTY Promise
