CONSTANTS
  Lonely = {c1, c2}
  One = {c3}
  Two = {c4}
  Port = {p1, p2}
  MaxQueue = 2
  MaxStarts = 1
SPECIFICATION FairSpec
CHECK_DEADLOCK FALSE
INVARIANTS
  TypeOK
  CleanPrint
  AnswerIsOwn
PROPERTY LonelyAnswered
