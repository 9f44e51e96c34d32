SPECIFICATION Spec
CONSTANTS
  h1 = h1  h2 = h2  h3 = h3
  Hosts = {h1, h2, h3}
  Scans <- MCScans
  None = None
  MaxFiles = 2
  ReadMax = 2
  MaxTime = 3
  DiskMax = 3
  BrokenMax = 1
INVARIANTS SavedIsListed DeltaExact BaselineNotOlder
CHECK_DEADLOCK FALSE
