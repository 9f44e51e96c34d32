SPECIFICATION Spec
CONSTANTS
  n1 = n1  n2 = n2  web = web  ssh = ssh  printer = printer
  Nets <- MCNets
  LastHost = 2
  AliveSteps = 2
  PortCount = 1
  PortOf <- MCOnePort
  MaxHosts = 2
  MaxHostsArgs = {0, 1}
  MaxEvents = 1
  EventIps <- MCEventIps
  EventSources = {"mdns"}
  Names <- MCNames
  NoName = NoName
  None = None
  MaxRounds = 1
INVARIANTS TypeOK TableIsASet CountersMatchTable RespondersListed GatewayBadge
PROPERTIES ImplementsRounds
