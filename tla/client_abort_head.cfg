SPECIFICATION Spec
CONSTANTS
  Servers = {A, B}
  Answers <- Delimited
  KeepAliveTimeout <- NoTimeout
  ReadBufferSize = 0
  Expansion = 2
  Interrupts = TRUE
  AbortsHead = TRUE
  AsksTwice = FALSE
  MaxRequests = 2
  MaxTimers = 1
INVARIANT
  FinishedOnce
CHECK_DEADLOCK FALSE
