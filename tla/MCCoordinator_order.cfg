SPECIFICATION Spec
CONSTANTS
  Paths = {"a", "b"}
  MaxAuditPaths = 1
  MaxOverflowReports = 2
  Errors = {"retryable"}
  CleanSnap = FALSE
  TornCapture = FALSE
  MaxWrites = 2
  MaxCommands = 3
  MaxFaults = 2
CHECK_DEADLOCK FALSE
INVARIANTS PendingStaysNext NamesLastCheckpoint OpsAreIndexed WatermarkIsCheckpoint
