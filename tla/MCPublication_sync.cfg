CONSTANTS
    p1 = p1
    p2 = p2
    Paths = {p1, p2}
    None = None
    Now = Now
    MaxVersion <- OneGrows
    Kinds <- Both
    Workers = 2
    MaxFaults = 1
    Faults <- AllFaults
SPECIFICATION FairSpec
INVARIANTS IndexNamesUploaded MirrorIsBacked
PROPERTIES PublishedIsKept SessionsReachTheMirror

CHECK_DEADLOCK FALSE
