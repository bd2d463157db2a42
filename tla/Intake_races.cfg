SPECIFICATION Spec
CONSTANTS
  Accounts = {a}
  Texts = {t1, t2, t3}
  Calls = {c1, c2}
  PendingLimit = 2
  DailyLimit = 1
  IntakeLimit = 3
  RetentionDays = 2
  MaxDay = 2
  MaxCharges = 4
  MaxRenewed = 1
SYMMETRY Symmetry
INVARIANTS IInv DailyOvershootBounded PendingOvershootBounded
CHECK_DEADLOCK FALSE
