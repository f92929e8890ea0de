SPECIFICATION Spec
CONSTANTS
  Nodes = {n1, n2, n3}
  Operated = {n1}
  MaxNodes = 2
  Loopback = FALSE
  MaxInFlight = 1
  MaxBoots = 1
  MaxTasks = 1
  MaxCommands = 1
CHECK_DEADLOCK FALSE
PROPERTIES EveryActiveNodeEvaluated
