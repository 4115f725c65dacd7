SPECIFICATION FairSpec
CONSTANTS
    Poll = Poll
    Unload = Unload
    Writers = {w1}
    Conns = {c1, c2}
    None = None
    MaxPackets = 2
    MaxOwed = 1
    MaxInbox = 1
CHECK_DEADLOCK FALSE
PROPERTIES WriteEnds PollEnds ImplementsCoordinator
