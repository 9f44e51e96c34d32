SPECIFICATION FairSpec
CONSTANTS
  h1 = h1  h2 = h2
  Hosts = {h1, h2}
  Reports <- MCReports
  Note = Note
  None = None
  MaxHosts = 2
  BufPieces = 3
  MaxDials = 3
  MaxRequests = 2
INVARIANTS DescriptorsMatchStep ReportIsWhole
PROPERTIES StopReturns
CHECK_DEADLOCK FALSE
