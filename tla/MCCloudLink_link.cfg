CONSTANTS
    Procs = {p1, p2}
    None = None
    AccessLifetime = 2
    RefreshLifetime = 3
    Margin = 1
    LockAttempts = 2
    DeviceLifetime = 7
    FirstInterval = 1
    SlowDown = 1
    MaxBackoff = 3
    CheckoutTimeout = 1
    Limits <- Both
SPECIFICATION Spec
CHECK_DEADLOCK FALSE
INVARIANTS TokenIsCurrent SlowDownIsHonoured
PROPERTY EveryCallEnds
