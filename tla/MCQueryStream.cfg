CONSTANTS
  Requests <- MCRequests
  Sizes = {0, 1}
  Gaps = {0, 1}
  MaxTokens = 5
  MaxDepth = 2
  Faults = {"io", "json", "factory", "write", "finalize", "cleanup", "callback"}
SPECIFICATION Spec
INVARIANTS
  NoReadPastLimit
  StopReasonExact
  ReportedExactly
  WholePayload
  BytesExact
  BadInputReported
PROPERTIES
  CancelEndsScan
  SinksInOrder
