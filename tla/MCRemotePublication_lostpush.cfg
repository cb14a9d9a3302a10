SPECIFICATION Spec
CONSTANTS
  MaxBatch = 2
  MaxBytes = 2
  Sizes = {1}
  MaxRetries = 1
  Cursors = {0}
  LostPushReply = TRUE
  ForeignWriter = FALSE
  MaxSnapshots = 2
  MaxFlushes = 2
  MaxFaults = 1
CHECK_DEADLOCK FALSE
INVARIANTS NoSelfConflict
