SPECIFICATION FairSpec
CONSTANTS
    p1 = p1
    p2 = p2
    Ghost = Ghost
    Nobody = Nobody
    Processes = {p1, p2}
    Modes = {"skip", "wait", "skipThenWait"}
    MaxPolls = 2
INVARIANTS
    OverlapOnlyByTheft
    RefusedForAnother
PROPERTIES
    EveryCallDecides
CHECK_DEADLOCK FALSE
