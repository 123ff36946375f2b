CONSTANTS
    PAGE_TABLE_LEN = 2
    PAGE_WORDS = 2
    Tables <- MCTables
    ROOT = 10
    Frames <- MCFrames
    Ra = {1, 2}
    Thread <- MCThread
    Base <- MCBase
    Size <- MCSize
    SwapEntry <- MCSwapEntry
    Pinned = FALSE
    Modes = {"Sv57"}
    Layouts <- PagesOnly
    Users <- AllUsers
SPECIFICATION GuestSpec
INVARIANT NoFalseAlarm
CHECK_DEADLOCK FALSE
