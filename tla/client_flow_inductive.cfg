SPECIFICATION Spec
CONSTANTS
  Servers = {A}
  Answers <- Long
  KeepAliveTimeout <- NoTimeout
  ReadBufferSize = 2
  Expansion = 2
  Interrupts = FALSE
  AbortsHead = FALSE
  AsksTwice = FALSE
  MaxRequests = 3
  MaxTimers = 2
INVARIANT
  FaithfulInductive
CHECK_DEADLOCK FALSE
