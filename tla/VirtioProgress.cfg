\* Both drivers at work on one event thread and one interrupt line that
\* loses interrupts.
SPECIFICATION FairSpec
CONSTANTS
    Devices = {"blk", "con"}
    Guests <- MCBusyGuests
    Modes = {"ioregion"}
    QueueSize = 1
    Submits <- MCOneSubmit
    Requests <- MCOneRequest
    DiskBytes = 14
    SectorBytes = 4
    PageBytes = 8
    Word = 256
    Typed = 1
    WithPts = TRUE

PROPERTIES BlockAnswered ConsoleServed CallsReturn
CHECK_DEADLOCK FALSE
