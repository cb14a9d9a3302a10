SPECIFICATION FeedSpec
CONSTANTS
  Backends = {"spool", "remote", "local"}
  Bodies = {b1, b2}
  MaxSpool = 3
  MaxRuns = 2
  MaxEvents = 3
  MaxFaults = 1
  Torn = Torn
  None = None
  Capacity = 1
  MaxLoads = 1
SYMMETRY BodySymmetry
CHECK_DEADLOCK FALSE
INVARIANTS FeedTypeOK AcceptedStayReadable NumberedIsOneRecording JournalOfOneDaemon SpoolWithinLimit ViewIsSegment ShownIsRecorded LiveViewComplete
