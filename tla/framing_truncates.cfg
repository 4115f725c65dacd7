SPECIFICATION Spec
CONSTANTS
    Payloads <- Short
    MaxSent = 2
    MaxScan = 6
CHECK_DEADLOCK FALSE
INVARIANT PacketsArrive
