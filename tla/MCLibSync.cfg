SPECIFICATION FairSpec
CONSTANTS
    NodeCount = 3
    MaxRounds = 2
    MaxTime = 2
    MaxReplies = 2
CHECK_DEADLOCK FALSE
INVARIANTS TypeOK RoundsTogether OneIsFirst
PROPERTIES AllLeave
