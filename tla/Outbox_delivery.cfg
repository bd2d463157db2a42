SPECIFICATION Spec
CONSTANTS
  Calls = {c1, c2}
  Lease = 1
  Day = 1
  MaxTime = 1
  MaxChanges = 3
  MaxTouches = 5
  LocalChanges = 2
  LocalTouches = 2
  MaxGranted = 5
  MaxEntered = 4
SYMMETRY Symmetry
INVARIANTS TypeOK CreatedOnce
PROPERTY DeliveredIsCurrent
CHECK_DEADLOCK FALSE
