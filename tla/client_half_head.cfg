SPECIFICATION Spec
CONSTANTS
  Servers = {A, B}
  Answers <- Delimited
  KeepAliveTimeout <- NoTimeout
  ReadBufferSize = 0
  Expansion = 2
  Interrupts = TRUE
  AbortsHead = FALSE
  AsksTwice = FALSE
  MaxRequests = 2
  MaxTimers = 1
INVARIANT
  HeadersOwn
CHECK_DEADLOCK FALSE
