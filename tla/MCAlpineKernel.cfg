SPECIFICATION FairSpec
CONSTANTS
  Nodes = {n1, n2, n3}
  Named = {}
  Unnamed = 2
  NoId = NoId
  Operated = {n1}
  MaxNodes = 1
  Loopback = FALSE
  MaxInFlight = 1
  MaxBoots = 1
  MaxTasks = 1
  MaxCommands = 2
CHECK_DEADLOCK FALSE
INVARIANTS TypeOK TableSound AssignedKnown
PROPERTIES ExitEnds
