SPECIFICATION Spec
CONSTANTS
  IntWidth = 6
  LengthWidth = 8
  Additions <- SomeRoutes
  Incoming <- SomeRequests
  MaxRoutes = 3
  WordSymbols <- Words
INVARIANTS
  TypeOK
  AllReadable
  NamedPartsMakeThePath
  RefusedForTheReasonGiven
CHECK_DEADLOCK FALSE
