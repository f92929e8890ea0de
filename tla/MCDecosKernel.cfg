SPECIFICATION Spec
CONSTANTS
  Peers = {p1, p2}
  Local = me
  NoThread = NoThread
  MaxNodes = 2
  MaxTasks = 2
  DataSocket = TRUE
SYMMETRY Symmetry
CHECK_DEADLOCK FALSE
INVARIANTS TypeOK LockDiscipline TaskAccounting NoOrphanTask HangNeedsFailover CreditBounded
PROPERTIES ImplementsLedger
