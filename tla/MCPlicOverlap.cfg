CONSTANTS
    Irq <- MCIrq
    MAX_HART_NUM = 1
    CONTEXT_BASE = 32
    CONTEXT_REGS_SIZE = 16
    U32_MAX = 6
    HartId = 0
    MaxOutstanding = 2
    GuestOffsets <- NoOffsets
    GuestValues <- NoValues
    GuestConfigs <- NoConfigs
SPECIFICATION DriverSpec
INVARIANTS
    NothingLost
