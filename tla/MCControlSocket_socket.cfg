SPECIFICATION Spec
CONSTANTS
  Daemons = {d1, d2}
  Shadows = {s1, s2}
  Clients = {c1, c2}
  ChannelCap = 1
  MaxLaunches = 3
  Nobody = Nobody
CHECK_DEADLOCK FALSE
INVARIANTS TypeOK OneRecorderPerShadow ActiveSocketIsKept LoneDaemonServes OrderlyLeavesNothing
PROPERTIES RequestsEnd StopEnds
