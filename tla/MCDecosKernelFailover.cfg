SPECIFICATION FairSpec
CONSTANTS
  Peers = {p1}
  Local = me
  NoThread = NoThread
  MaxNodes = 1
  MaxTasks = 1
  DataSocket = FALSE
CHECK_DEADLOCK FALSE
PROPERTIES FailedNodesTasksMove
