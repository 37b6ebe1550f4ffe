SPECIFICATION FairSpec
CONSTANTS
  None = None
  c1 = c1
  c2 = c2
  r1 = r1
  r2 = r2
  k1 = k1
  k2 = k2
  otp = otp
  PASSED = PASSED
  FAILED = FAILED
  Creator = {c1, c2}
  Reporter = {r1, r2}
  Key = {k1, k2}
  Method = {otp}
  Asks <- MCAsks
  Result = {PASSED, FAILED}
  AttemptTTL = 1
  EventRetention = 1
  KeyTTL = 2
  ChallengeTime = 2
  Session = {s1, s2}
  Owner = {o1}
  MaxTTL = 3
  Poll = 2
  Retention = 1
  MaxPerOwner = 2
  MaxCall = 1
  SweepEvery = 2
  LastCreate = 2
  SessionTime = 10
INVARIANTS OneResultInTime AnswersAgree TrustEndsOnTime EndingIsToldOnce
PROPERTIES ResolvedOnce EveryAttemptResolves NoCallAfterTrust EverySessionIsReclaimed
CHECK_DEADLOCK FALSE
