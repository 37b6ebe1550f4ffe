SPECIFICATION Spec
CONSTANTS
  judge = judge
  swap = swap
  other = other
  Call = {judge, swap, other}
  Workers = 1
  OperationsOf <- Operations
  Judged = {judge}
  Deployments = {"mock", "hybrid", "nac", "nac_fake"}
INVARIANTS LinksAreHonest
PROPERTIES EveryCallEnds
CHECK_DEADLOCK FALSE
