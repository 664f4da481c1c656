SPECIFICATION ReconcileSpec
CONSTANTS
    f1 = f1
    None = None
    Files = {f1}
    MaxClock = 2
    MaxVersion = 2
    Stamp <- Exact
    MaxFaults = 1
    Faults = {"kill", "deleteIndex"}
    Interval = 1
INVARIANTS
    SkipsOnlyArchived
    DoctorIsRight
PROPERTIES
    EverySessionIsArchived
    ArchiveSettles
    IndexIsRepaired
