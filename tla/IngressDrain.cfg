CONSTANTS
  Event = {1, 2}
  LaneOf <- OneLane
  process = process  lane = lane
  Drain = {d1}
  ProcessOf <- OneProcess
  Token = {t1, t2}
  HoldsLane = FALSE
  Supersedes = TRUE
  EventsAge = FALSE
  Pauses = TRUE
  MaxAttempts = 1
  WriteAttempts = 1
  MaxFaults = 1
  MaxLapses = 0
  MaxResubmits = 1
  Nil = Nil
SPECIFICATION Spec
SYMMETRY TokenSymmetry
INVARIANTS AdoptionIsDurable
CHECK_DEADLOCK FALSE
