SPECIFICATION Spec
CONSTANTS
  Lane = {session}
  ScopedLane = {session}
  ProbeLane = {}
  Object = {o1, o2, o3}
  Entry = {e1, e2, e3}
  TimedEntry = {e1, e2}
  Waiter = {}
  Priority <- TwoPriorities
  Concurrency <- SomeLimits
  Signal <- BothSignals
  CloseReason = {}
  MaxGeneration = 1
  Nil = Nil
SYMMETRY Interchangeable
CHECK_DEADLOCK FALSE
INVARIANTS TypeOK EntriesAccounted LanesSound
PROPERTIES StaleCompletionInert StartOrder
