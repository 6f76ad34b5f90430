SPECIFICATION Spec
CONSTANTS
  Scripts <- HeadThenGet
  HeaderSets <- PlainHeaders
  Sizes = {0, 1, 2}
  MaxHead = 3
  MaxContent = 2
  MaxSessions = 1
  MaxBody = 2
  MayStopListening = FALSE
  AbortInFlush = FALSE
  CloseInCompleted = TRUE
  BodyOnBodiless = FALSE
  StaleAnswers = FALSE
INVARIANT
  DeviceInUse
CHECK_DEADLOCK FALSE
