CONSTANTS
    HeapStart = 1024
    Configs <- MCConfigs
    ElfPages = 3
    FillPages = 2
    PagesPerTable = 2
    DeviceTables = 3
    MaxFaultPages = 3
SPECIFICATION Spec
INVARIANTS
    TypeOK
    TablesAligned
    PagesDisjoint
    BootStackIntact
    NoStrayTrap
    DmaConfined
PROPERTIES
    BootCompletes
CHECK_DEADLOCK FALSE
