CONSTANTS
    Irq <- MCIrq
    MAX_HART_NUM = 1
    CONTEXT_BASE = 32
    CONTEXT_REGS_SIZE = 16
    U32_MAX = 3
    HartId = 0
    MaxOutstanding = 2
    GuestOffsets <- MCOffsets
    GuestValues <- MCValues
    GuestConfigs <- MCConfigs
SPECIFICATION Spec
CHECK_DEADLOCK FALSE
INVARIANTS
    TypeOK
    ClaimIsInService
    InjectedHasClaim
    ClaimIsAnnounced
    OtherContextsSilent
PROPERTIES
    ReleasedOnlyByCompletion
