SPECIFICATION Spec
CONSTANTS
  None = None
  Req = {q1, q2, q3}
  PhoneRetention = 1
  FlowRetention = 3
  PilotSessions = 2
  PilotTime = 3
  Run = {r1, r2}
  Session = {s1, s2}
  Checks = 2
  PerRun = 2
  PerSession = 3
  PerHour = 3
  MaxConcurrent = 2
  MaxSessions = 1
  TTL = 2
  Hour = 2
  JudgeTime = 3
  Request = {1, 2, 3, 4, 5, 6, 7, 8, 9, 10, 11, 12, 13, 14, 15}
  Mixes <- MixesOf
  Sends <- SendsOf
  ApiKeys = {k1, k2, k3}
  Minted = {demoKey, judge}
  Sessions = {judge}
  Tokens = {demoKey}
  ServerKey = server
  Limit <- LimitOf
  Planner = "greedy"
  MaxBuckets = 2
  MaxInFlight = 2
  Slots = 1
  Ceiling = 1
  PerInvestigation = 1
  Window = 1
  ModelHour = 2
  AdmissionTime = 1
  server = server
  own = own
  k1 = k1
  k2 = k2
  k3 = k3
  demoKey = demoKey
  judge = judge
  venue = venue
SYMMETRY Symmetry
INVARIANTS OneVerifyAtATime SpendIsBounded SignedCountIsFinal LimiterHolds BudgetHolds
PROPERTIES SessionStaysBound
CHECK_DEADLOCK FALSE
