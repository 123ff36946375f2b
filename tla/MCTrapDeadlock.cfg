CONSTANTS
    GuestPc <- MCGuestPc
    VSTVEC = 100
    HSTRAP_VECTOR = 200
SPECIFICATION Spec
CHECK_DEADLOCK FALSE
INVARIANTS
    NoSelfDeadlock
