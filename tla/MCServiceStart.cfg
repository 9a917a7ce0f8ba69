CONSTANT MaxConn = 4
SPECIFICATION Spec
CHECK_DEADLOCK FALSE
INVARIANTS
  PromptServesOwn
  NeverEarlier
