SPECIFICATION Spec
CONSTANTS
    Poll = Poll
    Unload = Unload
    Writers = {w1, w2}
    Clients = {k1, k2, k3}
    None = None
    MaxQueue = 1
    MaxOrphans = 1
CHECK_DEADLOCK FALSE
SYMMETRY Symmetry
INVARIANTS TypeOK KeyFitsClient HandshakeIsExclusive NoOrphanLink ReadsWithKey
PROPERTY ImplementsCoordinator
