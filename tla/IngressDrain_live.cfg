CONSTANTS
  Event = {1, 2}
  LaneOf <- OneLane
  process = process  lane = lane
  Drain = {d1}
  ProcessOf <- OneProcess
  Token = {t1}
  HoldsLane = TRUE
  Supersedes = FALSE
  EventsAge = TRUE
  Pauses = FALSE
  MaxAttempts = 2
  WriteAttempts = 2
  MaxFaults = 1
  MaxLapses = 0
  MaxResubmits = 0
  Nil = Nil
SPECIFICATION LiveSpec
PROPERTY EventsResolve
CHECK_DEADLOCK FALSE
