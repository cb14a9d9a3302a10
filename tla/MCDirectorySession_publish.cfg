SPECIFICATION Spec
CONSTANTS
  LinksSynced = TRUE
  TornSync = FALSE
  MaxOps = 3
  MaxEvents = 6
  MaxFaults = 2
CHECK_DEADLOCK FALSE
INVARIANTS TypeOK ReaderNeverFails FlushSurvives
PROPERTIES ImplementsTimeline
