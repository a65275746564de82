\* Deliveries of every kind in one process that crashes, with storage errors.
SPECIFICATION FairSpec
CONSTANTS
  Process = {p1}
  Id = {c1, c2, c3}
  Stamp = {t1, t2, t3}
  Nil = Nil
  Deliveries <- AllButUnreconciled
  MaxRetries = 2
  MaxSubmits = 3
  MaxCrashes = 2
  MaxFaults = 2
CHECK_DEADLOCK FALSE
INVARIANTS RecordsTruthful VisibleAtMostOnce
PROPERTIES UnfencedRowsResolve
