SPECIFICATION Spec
CONSTANTS
  Consent = {c1, c2, c3}
  Owner = {o1, o2}
  Request = {r1, r2, r3}
  None = None
  TTL = 2
  Retention = 2
  MaxPerOwner = 2
  MaxRecords = 2
  MaxFlight = 1
  SweepEvery = 1
  MaxTime = 8
SYMMETRY Symmetry
INVARIANTS OneCodeOneToken RecordsStandTheirTime
PROPERTIES OnlyExpiryIsRevised
CHECK_DEADLOCK FALSE
