SPECIFICATION Spec
CONSTANTS
    Poll = Poll
    Unload = Unload
    Writers = {w1}
    Conns = {c1, c2}
    None = None
    MaxPackets = 2
    MaxOwed = 2
    MaxInbox = 2
CHECK_DEADLOCK FALSE
INVARIANT AnsweredPollSucceeds
