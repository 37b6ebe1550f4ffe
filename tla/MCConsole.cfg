SPECIFICATION Spec
CONSTANTS
  judge = judge
  other = other
  owner1 = owner1
  owner2 = owner2
  first = first
  repeat = repeat
  second = second
  Page = {judge, other}
  Request = {first, repeat, second}
  OwnerOf <- Owners
  PageOf <- Senders
  RunOf <- Runs
  Emits <- Lengths
  Judged = {first}
  Attempts = 2
  QueueMax = 1
  MaxSubscribers = 1
  MaxKeys = 1
  MaxTokens = 1
  MaxTokensPerOwner = 1
  ReplayPage = 2
INVARIANTS NumbersNameOneEvent TraceIsOfItsRun
CHECK_DEADLOCK FALSE
