SPECIFICATION JournalSpec
CONSTANTS
  Backends = {"remote"}
  Bodies = {"b1"}
  MaxSpool = 4
  MaxRuns = 1
  MaxEvents = 3
  MaxFaults = 1
  Torn = Torn
  None = None
CHECK_DEADLOCK FALSE
INVARIANTS SpoolHoldsAccepted
