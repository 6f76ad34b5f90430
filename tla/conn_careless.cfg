SPECIFICATION Spec
CONSTANTS
  Scripts <- RoughPipelines
  HeaderSets <- AllHeaders
  Sizes = {0, 1, 2}
  MaxHead = 3
  MaxContent = 2
  MaxSessions = 1
  MaxBody = 2
  MayStopListening = FALSE
  AbortInFlush = TRUE
  CloseInCompleted = TRUE
  BodyOnBodiless = TRUE
  StaleAnswers = TRUE
INVARIANTS
  Inductive
  OneAtATime
  WireInductive
CHECK_DEADLOCK FALSE
