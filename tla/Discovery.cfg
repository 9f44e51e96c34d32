SPECIFICATION FairSpec
CONSTANTS
  Ips = {d1, d2, d3}
  Locations = {l1, l2}
  None = None
  Unparsable = Unparsable
  MaxUpnp = 2
  MaxEvents = 1
  RecvMax = 2
  ConnectTime = 2
  RecvTime = 2
  LongestFrame = 1
  QueryTime = 1
  Pieces = 1
INVARIANTS SocketLedger OneEntryPerDevice DetailsFromDevice
PROPERTIES KnowledgeGrows FetchEnds
