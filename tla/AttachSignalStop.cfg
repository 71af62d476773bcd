SPECIFICATION FairSpec
CONSTANTS
    NThreads = 2
    Main = Main
    Mmio = Mmio
    Nobody = Nobody
    Faults <- ThreadSignals
    Modes <- OnlyWrap
    Groups <- OwnGroup
PROPERTY MessageEndsVmsh
CHECK_DEADLOCK FALSE
