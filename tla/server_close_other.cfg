SPECIFICATION Spec
CONSTANTS
  MaximumReserveCount = 2
  MaxConnections = 4
  Sockets = {s1, s2, s3, s4}
  Secure = FALSE
  CrossUse = TRUE
  MaxDepth = 3
INVARIANT
  NoReturnIntoDeleted
SYMMETRY SocketSymmetry
CHECK_DEADLOCK FALSE
