CONSTANTS
  Probe = {p1, p2}
  Retry = 2
  MaxUint = 3
  Room = 1
SPECIFICATION AgentFairSpec
INVARIANTS
  NoneLeftRunning
  RestartsAreBounded
PROPERTIES
  ReadIsSent
CHECK_DEADLOCK FALSE
