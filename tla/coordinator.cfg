SPECIFICATION FairSpec
CONSTANTS
    N = 3
    Writers = {w1, w2}
CHECK_DEADLOCK FALSE
INVARIANTS TypeOK FallbackInOrder UpdateFailedMeansDown EscapeLeavesNoSession
PROPERTIES PollEnds
