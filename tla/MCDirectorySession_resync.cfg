SPECIFICATION Spec
CONSTANTS
  LinksSynced = TRUE
  TornSync = TRUE
  MaxOps = 2
  MaxEvents = 4
  MaxFaults = 1
CHECK_DEADLOCK FALSE
INVARIANTS FlushSurvives
