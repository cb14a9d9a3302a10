SPECIFICATION HandleFairSpec
CONSTANTS
  Paths = {"a"}
  MaxAuditPaths = 1
  MaxOverflowReports = 2
  Errors = {"retryable", "fatal"}
  CleanSnap = TRUE
  TornCapture = FALSE
  MaxWrites = 2
  MaxCommands = 20
  MaxFaults = 2
  Clients = {"c1", "c2"}
  ClientCommands <- Roles
  MaxAsks = 2
CHECK_DEADLOCK FALSE
INVARIANTS PauseAgrees
PROPERTIES EventuallyPublished RequestsAnswered
