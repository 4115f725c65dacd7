SPECIFICATION Spec
CONSTANTS
    Flows = {f1, f2}
    d1 = d1
    d2 = d2
    one = one
    other = other
    both = both
    Devices = {d1, d2}
    Accounts <- ThreeAccounts
    Owned <- WhoOwnsWhat
    None = None
    MaxVersion = 2
SYMMETRY Symmetry
CHECK_DEADLOCK FALSE
INVARIANTS TypeOK NoFallback AsksForOwnDevice KeysStayCurrent DiscoveredOnce
