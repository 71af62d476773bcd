SPECIFICATION FairSpec
CONSTANTS
    block = block
    console = console
    Devices <- TwoDevices
    MaxRetries = 3
    StartMayFail = TRUE
INVARIANTS
    TypeOK
    TerminateMeansQuiet
    DriverStatusHonest
    NoUnexpectedTermination
    DriversNeedDevice
PROPERTIES
    MessageEndsVmsh
    WorkerEnds
CHECK_DEADLOCK FALSE
