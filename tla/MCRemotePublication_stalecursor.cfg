SPECIFICATION Spec
CONSTANTS
  MaxBatch = 2
  MaxBytes = 2
  Sizes = {1}
  MaxRetries = 1
  Cursors = {0, 2}
  LostPushReply = FALSE
  ForeignWriter = FALSE
  MaxSnapshots = 2
  MaxFlushes = 2
  MaxFaults = 0
CHECK_DEADLOCK FALSE
PROPERTIES FlushMeansDurable
