SPECIFICATION FairSpec
CONSTANTS
  h1 = h1  h2 = h2  h3 = h3  h4 = h4  http = http  alt = alt  ssh = ssh
  HostLists <- MCHostLists
  WebPorts <- MCWebPorts
  None = None
  QueueMax = 4
  MaxResults = 2
  ConnectTime = 2
  RecvTime = 2
  LongestFrame = 2
  Pieces = 2
  MaxArms = 4
INVARIANTS OneSocket OneResultPerHost ReplyFromHost
PROPERTIES QueueDrains
CHECK_DEADLOCK FALSE
