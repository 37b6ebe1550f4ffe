SPECIFICATION Spec
CONSTANTS
  Attempt = {a1, a2}
  Key = {k1}
  Body = {b1}
  None = None
  IdempotencyTTL = 1
  Lease = 0
  UncertainRetention = 3
  BatchSize = 1
  MaxFlight = 1
  MaxTime = 4
  CacheDurable = FALSE
INVARIANTS UnresolvedSpendIsKept
CHECK_DEADLOCK FALSE
