SPECIFICATION FairSpec
CONSTANTS
    NThreads = 3
    Main = Main
    Mmio = Mmio
    Nobody = Nobody
    Faults <- EveryFault
    Modes <- BothModes
    Groups <- AnyGroup
INVARIANTS
    TypeOK
    PatchGuarded
    WrapperTracks
    StopsAreHeld
    NothingOrphaned
    CleanExit
PROPERTY EndsUnlessDeadlocked
CHECK_DEADLOCK FALSE
