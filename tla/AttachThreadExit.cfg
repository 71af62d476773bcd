SPECIFICATION FairSpec
CONSTANTS
    NThreads = 3
    Main = Main
    Mmio = Mmio
    Nobody = Nobody
    Faults <- ThreadExits
    Modes <- OnlyWrap
    Groups <- OwnGroup
PROPERTY MessageEndsVmsh
CHECK_DEADLOCK FALSE
