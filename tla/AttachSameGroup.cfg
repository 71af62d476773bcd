SPECIFICATION FairSpec
CONSTANTS
    NThreads = 2
    Main = Main
    Mmio = Mmio
    Nobody = Nobody
    Faults <- NoFault
    Modes <- OnlyWrap
    Groups <- SharedGroup
PROPERTY MessageEndsVmsh
CHECK_DEADLOCK FALSE
