SPECIFICATION Spec
CONSTANTS
    Poll = Poll
    Unload = Unload
    Writers = {w1, w2}
    Conns = {c1, c2}
    None = None
    MaxPackets = 2
    MaxOwed = 2
    MaxInbox = 2
SYMMETRY Symmetry
CHECK_DEADLOCK FALSE
INVARIANTS TypeOK LockDiscipline ConnectedIsAuthenticated SessionKeyMatches OneReader ReaderOwnsSocket NoOrphanSocket
