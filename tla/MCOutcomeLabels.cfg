SPECIFICATION Spec
CONSTANTS
  Tab = {t1}
  Merchant = {m1, m2}
  Value = {v1, v2}
  OutcomeEvent = {e1, e2, e3}
  NoEvent = NoEvent
  Retention = 1
  KeyTTL = 1
  MaxTime = 1
SYMMETRY Symmetry
INVARIANTS LabelsFormALine AnswersAreHonest
CHECK_DEADLOCK FALSE
