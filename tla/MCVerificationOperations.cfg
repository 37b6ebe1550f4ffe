SPECIFICATION FairSpec
CONSTANTS
  Attempt = {a1, a2}
  Key = {k1}
  Body = {b1, b2}
  None = None
  IdempotencyTTL = 1
  Lease = 0
  UncertainRetention = 2
  BatchSize = 1
  MaxFlight = 1
  MaxTime = 5
  CacheDurable = FALSE
INVARIANTS OneChargePerWindow ReplayIsTheOriginal MappingIffChain
PROPERTIES UncertainIsKept ImplementsLedger EveryRequestEnds
CHECK_DEADLOCK FALSE
