SPECIFICATION DatabaseSpec
CONSTANTS
    NoFile = NoFile
    Rotten = Rotten
    Sessions = {s1, s2}
    MaxSnapshots = 2
    MaxDamages = 1
    MaxKills = 2
    MaxRestores = 1
SYMMETRY Symmetry
INVARIANTS SweptIsHeld RestoredIsTheSnapshot
CHECK_DEADLOCK FALSE
