SPECIFICATION Spec
CONSTANTS
  Scripts <- Pipelines
  HeaderSets <- AllHeaders
  Sizes = {0, 1, 2}
  MaxHead = 3
  MaxContent = 2
  MaxSessions = 1
  MaxBody = 2
  MayStopListening = TRUE
  AbortInFlush = FALSE
  CloseInCompleted = FALSE
  BodyOnBodiless = FALSE
  StaleAnswers = FALSE
INVARIANTS
  RequestViewIntact
  LengthHonoured
  NoForeignContent
  PersistenceAgreed
  DeviceInUse
PROPERTIES
  ExchangeRefined
CHECK_DEADLOCK FALSE
