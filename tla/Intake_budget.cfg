SPECIFICATION Spec
CONSTANTS
  Accounts = {a, b}
  Texts = {t1}
  Calls = {c1, c2}
  PendingLimit = 2
  DailyLimit = 2
  IntakeLimit = 1
  RetentionDays = 2
  MaxDay = 3
  MaxCharges = 2
  MaxRenewed = 1
SYMMETRY Symmetry
INVARIANT BudgetBounds
CHECK_DEADLOCK FALSE
