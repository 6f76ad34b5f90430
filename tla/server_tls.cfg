SPECIFICATION Spec
CONSTANTS
  MaximumReserveCount = 2
  MaxConnections = 4
  Sockets = {s1, s2, s3, s4}
  Secure = TRUE
  CrossUse = FALSE
  MaxDepth = 3
INVARIANTS
  ServerInductive
  NoReturnIntoDeleted
SYMMETRY SocketSymmetry
CHECK_DEADLOCK FALSE
