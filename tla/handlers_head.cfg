SPECIFICATION Spec
CONSTANTS
  Pipelines <- HeadPipelines
  BufferSize = 2
  MinimumBufferSize = 3
  TraceRequests = FALSE
  FileChanges = {}
  RepliesPerManager = 1
INVARIANTS
  ServedIntact
CHECK_DEADLOCK FALSE
