\* A stable intent that its producer submits again, in two processes that share the database.
SPECIFICATION Spec
CONSTANTS
  Process = {p1, p2}
  Id = {c1, c2, c3, c4}
  Stamp = {t1, t2, t3, t4}
  Nil = Nil
  Deliveries <- OnlyStable
  MaxRetries = 1
  MaxSubmits = 2
  MaxCrashes = 1
  MaxFaults = 0
CHECK_DEADLOCK FALSE
SYMMETRY Symmetry
INVARIANTS TypeOK
PROPERTIES NoReplayWithoutProof LiveOwnerUndisturbed
