SPECIFICATION FairSpec
CONSTANTS
  Lane = {session}
  ScopedLane = {session}
  ProbeLane = {session}
  Object = {o1, o2}
  Entry = {e1, e2, e3}
  TimedEntry = {e1}
  Waiter = {w1}
  Priority <- OnePriority
  Concurrency = {0, 1}
  Signal <- NoSignal
  CloseReason = {"draining", "fenced"}
  MaxGeneration = 1
  Nil = Nil
CHECK_DEADLOCK FALSE
PROPERTIES QueuedWorkProgresses WaitersResolve
