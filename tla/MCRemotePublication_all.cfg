SPECIFICATION Spec
CONSTANTS
  MaxBatch = 2
  MaxBytes = 2
  Sizes = {1, 2, 3}
  MaxRetries = 1
  Cursors = {0}
  LostPushReply = TRUE
  ForeignWriter = TRUE
  MaxSnapshots = 3
  MaxFlushes = 3
  MaxFaults = 3
CHECK_DEADLOCK FALSE
INVARIANTS TypeOK EventsNameStoredCommits WatermarkEndsAtFlush CursorIsHonest
PROPERTIES FlushMeansDurable RefAdvancesOnly ImplementsTimeline
