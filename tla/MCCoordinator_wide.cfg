SPECIFICATION Spec
CONSTANTS
  Paths = {"a", "b"}
  MaxAuditPaths = 1
  MaxOverflowReports = 1
  Errors = {"retryable"}
  CleanSnap = TRUE
  TornCapture = TRUE
  MaxWrites = 2
  MaxCommands = 3
  MaxFaults = 2
CHECK_DEADLOCK FALSE
INVARIANTS TypeOK JournalContiguous NoLostChange AuditConserved OverflowForcesFullScan
PROPERTIES PendingRetriedExactly ImplementsTimeline
