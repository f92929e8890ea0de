SPECIFICATION Spec
CONSTANTS
  Clients = {c1, c2}
  NodeCount = 2
  MaxTasks = 1
  MaxBlocks = 2
  MaxReplicas = 2
  MaxAllocs = 2
  Addresses = {a1, a2}
  Given = {"IDLE"}
  Names = {"cp"}
  MaxCheckpoints = 1
  MaxAlterations = 1
SYMMETRY Symmetry
CONSTRAINT OneSide
INVARIANTS TypeOK RelievedOfTasks FailuresCounted
PROPERTIES CompletedStaysDone FreedAtLastReference
