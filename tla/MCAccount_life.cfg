CONSTANTS
    Keys = {k1, k2}
    Objects = {o1, o2}
    None = None
    CheckoutLifetime = 1
    Grace = 2
    UrlLifetime = 1
    FenceBatch = 2
    PerSecond = 3
    MaxDelay = 1
    Limits <- Three
SPECIFICATION Spec
CHECK_DEADLOCK FALSE
SYMMETRY Symmetric
INVARIANTS AccessFollowsStripe CheckoutIsAdmitted NothingSurvives
PROPERTY PaidIsKept
