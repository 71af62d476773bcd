\* A guest with a driver for one of the devices, and every fault.
SPECIFICATION Spec
CONSTANTS
    Devices = {"blk", "con"}
    Guests <- MCGuests
    Modes = {"wrap"}
    QueueSize = 2
    Submits <- MCSubmits
    Requests <- MCRequests
    DiskBytes = 14
    SectorBytes = 4
    PageBytes = 8
    Word = 256
    Typed = 1
    WithPts = TRUE
INVARIANTS TypeOK NoLostKick InterruptOwed AccessInsideDisk ServerSurvives
PROPERTIES ImplementsBlockIO NoRingWriteAfterReset
CHECK_DEADLOCK FALSE
