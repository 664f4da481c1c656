SPECIFICATION Spec
CONSTANTS
    None = None
    Window = 2
    Instances <- MCInstances
INVARIANTS OneSchedule DoctorSeesTheJob IdentityIsKept LedgerFollowsConfig
PROPERTY SilenceIsReported
CHECK_DEADLOCK FALSE
