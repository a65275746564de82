CONSTANTS
  Root = {s1, w1, w2}
  SuspendRoot = {s1}
  MaxLeases = 2
  MaxSignal = 3
  Entry = {e1, e2}
  NoEntry = NoEntry
  NoRoot = NoRoot
  MaxSuspension = 3
  MaxLifecycle = 2
SPECIFICATION LiveSpec
INVARIANTS SuspensionOwned SchedulerAccounted Quiescence
PROPERTIES FenceKeptForOwner SuspensionEnds ParkedRootsProceed
