SPECIFICATION Spec
CONSTANTS
    None = None
    Instances <- MCInstances
INVARIANTS RestoredAsRecorded SupersededHoldsNothingMore
PROPERTY UnforcedLosesNothing
CHECK_DEADLOCK FALSE
