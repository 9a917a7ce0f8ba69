CONSTANT MaxConn = 2
SPECIFICATION Spec
CHECK_DEADLOCK FALSE
INVARIANT ServesItsClient
