SPECIFICATION Spec
CONSTANTS
  Pipelines <- MCPipelines
  BufferSize = 2
  MinimumBufferSize = 3
  TraceRequests = TRUE
  FileChanges <- Shrinks
  RepliesPerManager = 1
INVARIANTS
  TypeOK
  StackShape
  InOrder
  PipesInOrder
  LeavesNothing
  Intact
CHECK_DEADLOCK FALSE
