SPECIFICATION FairSpec
CONSTANTS
    Poll = Poll
    Unload = Unload
    Writers = {w1}
    Clients = {k1, k2, k3}
    None = None
    MaxQueue = 1
    MaxOrphans = 0
CHECK_DEADLOCK FALSE
PROPERTY PollEnds
