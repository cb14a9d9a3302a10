SPECIFICATION Spec
CONSTANTS
  Paths = {"a", "b"}
  MaxAuditPaths = 2
  MaxOverflowReports = 2
  Errors = {"retryable"}
  CleanSnap = TRUE
  TornCapture = FALSE
  MaxWrites = 2
  MaxCommands = 3
  MaxFaults = 1
CHECK_DEADLOCK FALSE
INVARIANTS PendingStaysNext
