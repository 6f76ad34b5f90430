SPECIFICATION Spec
CONSTANTS
  Pipelines <- MCPipelines
  BufferSize = 2
  MinimumBufferSize = 3
  TraceRequests = TRUE
  FileChanges <- Shrinks
  RepliesPerManager = 1
INVARIANTS
  LoggedOnce
  ServedIntact
  PipeHasItsRequest
  NothingLeaks
PROPERTIES
  EveryRequestIsAnswered
CHECK_DEADLOCK FALSE
