\* A stable intent whose send failed without saying whether it was delivered.
SPECIFICATION FairSpec
CONSTANTS
  Process = {p1}
  Id = {c1, c2}
  Stamp = {t1, t2, t3}
  Nil = Nil
  Deliveries <- OnlyUnreconciled
  MaxRetries = 1
  MaxSubmits = 1
  MaxCrashes = 0
  MaxFaults = 0
CHECK_DEADLOCK FALSE
PROPERTIES RowsResolve
