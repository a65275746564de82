CONSTANTS
  Target = {t1, t2}
  Request = {r1, r2}
  EventPriority = {2}
  MaxGeneration = 3
SPECIFICATION LiveSpec
CHECK_DEADLOCK FALSE
INVARIANTS LoopOwned RequestsCarriedOnce
PROPERTIES ReplacedHandlerStopsNow RequestsAnswered
