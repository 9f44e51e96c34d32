SPECIFICATION Spec
CONSTANTS
  Ips = {d1, d2}
  Locations = {l1, l2}
  None = None
  Unparsable = Unparsable
  MaxUpnp = 2
  MaxEvents = 2
  RecvMax = 2
  ConnectTime = 2
  RecvTime = 2
  LongestFrame = 2
  QueryTime = 2
  Pieces = 2
INVARIANTS DetailsFromLocation
