SPECIFICATION Spec
CONSTANTS
  IntWidth = 6
  LengthWidth = 8
  MethodLimit = 3
  MaxHeaderSize = 60
  Requests <- WireRequests
  Answers <- UnlistedStatus
  Foreign <- ForeignResponses
  PieceSizes = {1, 2}
INVARIANTS
  ResponseAsWritten
CHECK_DEADLOCK FALSE
