SPECIFICATION FairSpec
CONSTANTS
  n1 = n1  n2 = n2  web = web  ssh = ssh  printer = printer
  Nets <- MCTwoNets
  LastHost = 3
  AliveSteps = 1
  PortCount = 1
  PortOf <- MCOnePort
  MaxHosts = 1
  MaxHostsArgs = {1}
  MaxEvents = 1
  EventIps <- MCOneEventIp
  EventSources = {"mdns"}
  Names = {}
  NoName = NoName
  None = None
  MaxRounds = 1
INVARIANTS NoHostTwice GatewayFirst HostErrorIsOwn
PROPERTIES RoundCoversSubnet NoIcmpOnceDenied RoundEnds
