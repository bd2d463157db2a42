SPECIFICATION SweptSpec
CONSTANTS
  Jobs = {j1}
  Services = {a}
  OpIds = {o1}
  Calls = {c1}
  Sweepers = {s1}
  NoService = NoService
  MaxAttempts = 2
  LeaseSeconds = 1
  FirstBackoff = 1
  LaterBackoff = 2
  RetryWindow = 2
  TombstoneWindow = 2
  SweepBatch = 1
  MaxClock = 3
PROPERTIES ExpiredLeaseIsReleased DueRetryIsRequeued OrphanIsCollected
CHECK_DEADLOCK FALSE
