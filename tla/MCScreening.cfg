SPECIFICATION Spec
CONSTANTS
  bank = bank
  rival = rival
  bankKey = bankKey
  t1 = t1
  t2 = t2
  alice = alice
  bob = bob
  None = None
  Tenant = {bankKey, t1, t2}
  Institution = {bank, rival}
  Callee = {alice, bob}
  Check = {c1, c2, c3}
  Files <- Configured
  InstitutionOf <- Keys
  Asks <- Questions
  Claims <- Named
  Stage = {t1}
  Announces <- Calls
  MaxAnnouncements = 2
  DefaultTtl = 1
  MaxTtl = 2
  VelocityWindow = 1
  Threshold = 2
  DemoMode = TRUE
  Act7Institution = Act7Institution
  Switchboard <- Line
  Hotline <- Hot
  Customer = alice
  Stranger = bob
  MaxTime = 1
SYMMETRY Alike
INVARIANTS AnnouncementsAreUsedOnce NobodySpeaksForAnother
CHECK_DEADLOCK FALSE
