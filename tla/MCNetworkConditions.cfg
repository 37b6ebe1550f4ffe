SPECIFICATION Spec
CONSTANTS
  Sub = {s1, s2}
  Device = {d1}
  Task = {t1, t2}
  Event = {1, 2}
  None = None
  TTL = 1
  Retention = 0
  MaxPerOwner = 2
  MaxPerDevice = 1
  QueryGap = 1
  EventAge = 1
  MaxEvents = 1
  Batch = 1
  Lag = 1
  MaxTime = 2
SYMMETRY Symmetry
INVARIANTS RemoteIsAccountedFor
PROPERTIES QueriesArePaced LatestReadingStands
CHECK_DEADLOCK FALSE
