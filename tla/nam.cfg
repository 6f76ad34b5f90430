SPECIFICATION Spec
CONSTANTS
  Requests <- FourRequests
  AuthorityOf <- ThreeToOne
  OperationOf <- Operations
  AbortsInHead = FALSE
  MaxContent = 1
INVARIANTS
  PoolInductive
  OwnResponse
  PoolSound
PROPERTIES
  EveryReplyFinishes
CHECK_DEADLOCK FALSE
