CONSTANTS
    PAGE_TABLE_LEN = 2
    PAGE_WORDS = 2
    Tables <- MCTables
    ROOT = 10
    Frames <- MCFrames
    Ra = {1, 2}
    Thread <- MCThread
    Base <- MCBase
    Size <- MCSize
    SwapEntry <- MCSwapEntry
    Pinned = TRUE
    Modes = {"Sv39", "Sv48", "Sv57"}
    Layouts <- MCLayouts
    Users <- MCUsers
SPECIFICATION GuestSpec
INVARIANTS
    TypeOK
    NoFalseAlarm
    ReturnsChecked
    PointerExact
    StopsOnlyOnMissingPage
PROPERTIES
    ImplementsShadowStacks
CHECK_DEADLOCK FALSE
