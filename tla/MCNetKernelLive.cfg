SPECIFICATION FairSpec
CONSTANTS
  Nodes = {n1, n2}
  Operated = {}
  MaxNodes = 1
  Loopback = TRUE
  MaxInFlight = 1
  MaxBoots = 2
  MaxTasks = 0
  MaxCommands = 0
CHECK_DEADLOCK FALSE
PROPERTIES DiscoveryConverges GoneForgotten ShutdownEnds
