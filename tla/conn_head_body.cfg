SPECIFICATION Spec
CONSTANTS
  Scripts <- HeadThenGet
  HeaderSets <- PlainHeaders
  Sizes = {0, 1, 2}
  MaxHead = 3
  MaxContent = 2
  MaxSessions = 1
  MaxBody = 2
  MayStopListening = FALSE
  AbortInFlush = FALSE
  CloseInCompleted = FALSE
  BodyOnBodiless = TRUE
  StaleAnswers = FALSE
INVARIANT
  NoForeignContent
CHECK_DEADLOCK FALSE
