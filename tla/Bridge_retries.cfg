SPECIFICATION LinkedSpec
CONSTANTS
  Jobs = {j1}
  Services = {a}
  OpIds = {o1, o2, o3}
  Calls = {c1}
  Sweepers = {s1}
  NoService = NoService
  MaxAttempts = 3
  LeaseSeconds = 1
  FirstBackoff = 1
  LaterBackoff = 2
  RetryWindow = 2
  TombstoneWindow = 2
  SweepBatch = 1
  MaxClock = 5
SYMMETRY Symmetry
INVARIANTS NoStrandedFailure
PROPERTIES ImplementsLifecycle
CHECK_DEADLOCK FALSE
