SPECIFICATION Spec
CONSTANTS
  Services = {s1}
  Calls = {c1, c2}
  Lease = 1
  Backoff = 1
  Day = 3
  MaxAttempts = 2
  MaxGeneration = 1
  MaxTime = 3
  MaxSnapshot = 2
SYMMETRY Symmetry
INVARIANTS TypeOK NoWriteAborts SidecarAgrees NoStrandedLease
PROPERTIES ClarifiedTogether LeaseKeepsProtocol LateAckRefused ProposalIsCurrent QueuedBehindJob
CHECK_DEADLOCK FALSE
