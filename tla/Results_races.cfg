SPECIFICATION Spec
CONSTANTS
  Calls = {c1, c2}
  Lease = 1
  Day = 2
  Retention = 3
  MaxAttempts = 2
  MaxRefresh = 1
  MaxTime = 3
  MaxSnapshot = 2
  MaxCode = 2
  CatalogOf <- OneCatalog
SYMMETRY Symmetry
INVARIANT TypeOK
PROPERTIES ReleasedOnCurrent ViewIsCurrent KeepsPromise
CHECK_DEADLOCK FALSE
