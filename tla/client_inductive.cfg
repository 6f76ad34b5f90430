SPECIFICATION Spec
CONSTANTS
  Servers = {A, B}
  Answers <- Delimited
  KeepAliveTimeout = 1
  ReadBufferSize = 0
  Expansion = 2
  Interrupts = TRUE
  AbortsHead = FALSE
  AsksTwice = FALSE
  MaxRequests = 3
  MaxTimers = 1
INVARIANTS
  ConservedInductive
  EndedInductive
CHECK_DEADLOCK FALSE
