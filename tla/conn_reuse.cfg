SPECIFICATION Spec
CONSTANTS
  Scripts <- ShortPipelines
  HeaderSets <- PlainHeaders
  Sizes = {0, 1, 2}
  MaxHead = 3
  MaxContent = 2
  MaxSessions = 2
  MaxBody = 2
  MayStopListening = FALSE
  AbortInFlush = FALSE
  CloseInCompleted = FALSE
  BodyOnBodiless = FALSE
  StaleAnswers = FALSE
INVARIANTS
  ParamsOfCurrent
  FramedAsSent
PROPERTIES
  RequestTakenUp
  FlushingEnds
CHECK_DEADLOCK FALSE
