SPECIFICATION Spec
CONSTANTS
    Clients = {c1, c2}
    NoClient = NoClient
    MaxFiles = 2
    BlockSize = 2
    BlockCapacity = 2
    CacheCapacity = 2
    Ranges <- MCRanges
    Values = {v1, v2}
    MaxCalls = 3
CHECK_DEADLOCK FALSE
SYMMETRY Symmetry
INVARIANTS TypeOK BlocksOwned ColdReadsTrue FaultsNeedCause
