SPECIFICATION Spec
CONSTANTS
  IntWidth = 6
  LengthWidth = 8
  MethodLimit = 3
  MaxHeaderSize = 60
  Requests <- WireRequests
  Answers <- WireAnswers
  Foreign <- ForeignResponses
  PieceSizes = {1, 2}
INVARIANTS
  RequestAsWritten
  ResponseAsWritten
  PersistenceUnderstood
CHECK_DEADLOCK FALSE
