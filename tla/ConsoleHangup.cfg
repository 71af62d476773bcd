\* The user closes the terminal that the console is connected to.
SPECIFICATION Spec
CONSTANTS
    Devices = {"blk", "con"}
    Guests <- MCHangupGuests
    Modes = {"ioregion"}
    QueueSize = 1
    Submits <- MCOneSubmit
    Requests <- MCOneRequest
    DiskBytes = 14
    SectorBytes = 4
    PageBytes = 8
    Word = 256
    Typed = 1
    WithPts = TRUE
INVARIANT TxRemovable
CHECK_DEADLOCK FALSE
