SPECIFICATION Spec
CONSTANTS
  Peers = {p1}
  Local = me
  NoThread = NoThread
  MaxNodes = 1
  MaxTasks = 1
  DataSocket = TRUE
CHECK_DEADLOCK FALSE
INVARIANTS NoThreadUsesFreedKernel
