SPECIFICATION Spec
CONSTANTS
  Nodes = {n1, n2}
  Operated = {n1}
  MaxNodes = 2
  Loopback = TRUE
  MaxInFlight = 1
  MaxBoots = 2
  MaxTasks = 1
  MaxCommands = 2
CHECK_DEADLOCK FALSE
INVARIANTS TypeOK IndexInTable OneNodePerTask RecordedWhereSent
