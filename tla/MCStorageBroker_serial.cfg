CONSTANTS
    m1 = m1
    a1 = a1
    a2 = a2
    s1 = s1
    s2 = s2
    s3 = s3
    c1 = c1
    c2 = c2
    c3 = c3
    w1 = w1
    w2 = w2
    Machines = {m1}
    ArchiveKeys = {a1, a2}
    Index = Index
    Sweeps = {s1, s2}
    Contents = {c1, c2, c3}
    Ciphertexts <- ThreeInTwo
    Nil = Nil
    Bytes <- UnequalBytes
    Quota = 4
    Lifetime = 1
    MaxClock = 1
    Workers = {w1}
    HeadShowsChecksum = TRUE
    LatePuts = FALSE
SPECIFICATION Spec
SYMMETRY KeySymmetry
INVARIANTS
    CommittedIsStored
    AccountingExact
    SweepFrozen
    WithinQuota
PROPERTIES
    CommitsWhatWasReserved
CHECK_DEADLOCK FALSE
