SPECIFICATION Spec
CONSTANTS
  MaximumReserveCount = 2
  MaxConnections = 4
  Sockets = {s1, s2, s3}
  Secure = FALSE
  CrossUse = TRUE
  MaxDepth = 2
INVARIANTS
  EachInOnePlace
  ReserveRefilled
  OwnSocket
PROPERTY
  SocketsFreed
CHECK_DEADLOCK FALSE
