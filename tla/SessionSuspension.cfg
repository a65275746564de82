SPECIFICATION FairSpec
CONSTANTS
  Configurable = {main}
  Nested = nested
  Custom = {custom}
  Session = {s1, s2}
  Suspension = {u1, u2}
  Limit = {1, 2}
  MaxGeneration = 7
  Nil = Nil
INVARIANTS TypeOK ThrottledLaneHasResumer StoredMeansThrottled
PROPERTIES CloseRespected RecordsNotErased LanesResume
