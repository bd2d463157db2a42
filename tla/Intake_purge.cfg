SPECIFICATION Spec
CONSTANTS
  Accounts = {a}
  Texts = {t1, t2}
  Calls = {c1, c2}
  PendingLimit = 2
  DailyLimit = 2
  IntakeLimit = 2
  RetentionDays = 2
  MaxDay = 3
  MaxCharges = 3
  MaxRenewed = 1
SYMMETRY Symmetry
INVARIANTS TypeOK RacedQuestionIsThere
CHECK_DEADLOCK FALSE
