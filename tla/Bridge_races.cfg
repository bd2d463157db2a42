SPECIFICATION Spec
CONSTANTS
  Jobs = {j1}
  Services = {a, b}
  OpIds = {o1}
  Calls = {c1}
  Sweepers = {s1}
  NoService = NoService
  MaxAttempts = 2
  LeaseSeconds = 2
  FirstBackoff = 1
  LaterBackoff = 3
  RetryWindow = 4
  TombstoneWindow = 2
  SweepBatch = 1
  MaxClock = 5
SYMMETRY Symmetry
INVARIANTS TypeOK IInv LiveLeaseHonoured SettledOnceByHolder NoTransitionAborts NoStrandedFailure PublishedOnEvidence
PROPERTIES ImplementsLifecycle
CHECK_DEADLOCK FALSE
