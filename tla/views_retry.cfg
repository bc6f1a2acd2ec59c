SPECIFICATION FairSpec
CONSTANTS
  Keys = {k1, k2}
  Ids = {i1, i2, i3}
  NoId = NoId
  Requests = {q1, q2, q3}
  MaxFaults = 2
INVARIANTS
  TypeOK
  CountedOnce
PROPERTIES
  RefinesViewLog
  EventuallyAcknowledged
CHECK_DEADLOCK FALSE
