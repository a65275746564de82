CONSTANTS
  Event = {1}
  LaneOf <- OneLane
  process = process  lane = lane
  Drain = {d1, d2}
  ProcessOf <- TwoProcesses
  Token = {t1, t2}
  HoldsLane = TRUE
  Supersedes = FALSE
  EventsAge = FALSE
  Pauses = FALSE
  MaxAttempts = 1
  WriteAttempts = 1
  MaxFaults = 1
  MaxLapses = 1
  MaxResubmits = 0
  Nil = Nil
SPECIFICATION Spec
INVARIANTS ClaimsHeld LaneSerialized AdoptionIsDurable
SYMMETRY OwnerSymmetry
CONSTRAINT OneTrouble
CHECK_DEADLOCK FALSE
