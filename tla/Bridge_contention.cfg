SPECIFICATION Spec
CONSTANTS
  Jobs = {j1}
  Services = {a, b}
  OpIds = {o1}
  Calls = {c1, c2}
  Sweepers = {}
  NoService = NoService
  MaxAttempts = 2
  LeaseSeconds = 2
  FirstBackoff = 1
  LaterBackoff = 3
  RetryWindow = 4
  TombstoneWindow = 1
  SweepBatch = 1
  MaxClock = 4
SYMMETRY Symmetry
INVARIANTS LiveLeaseHonoured OperationAppliedOnce
CHECK_DEADLOCK FALSE
