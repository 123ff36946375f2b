CONSTANTS
    GuestPc <- MCGuestPc
    VSTVEC = 100
    HSTRAP_VECTOR = 200
SPECIFICATION FairSpec
CHECK_DEADLOCK FALSE
INVARIANTS
    TypeOK
    LocksFreeInGuest
    SpinsOnlyOnRefusedAccess
PROPERTIES
    ResumeAddress
    PseudoEntry
    TrapEnds
