CONSTANTS
    PAGE_SIZE = 2
    PAGE_TABLE_LEN = 4
    FIRST_LV_PAGE_TABLE_LEN = 4
    DRAM_BASE = 64
    DRAM_SIZE_PER_GUEST = 16
    GUEST_DTB_SIZE_PER_HART = 4
    CONTEXT_BASE = 8
    HartId = 0
    GuestDtbLen = 3
    ROOT = 99
    Heaps <- LargeHeap
    HostTrees <- FarTree
    Elfs <- GapElf
SPECIFICATION Spec
CHECK_DEADLOCK FALSE
INVARIANTS
    WholeMemoryMapped
