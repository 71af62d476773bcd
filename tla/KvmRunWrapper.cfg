SPECIFICATION Spec
CONSTANTS
    t1 = t1
    t2 = t2
    Threads <- TwoThreads
INVARIANTS
    TypeOK
    InSyscallTracks
    ServedBeforeSeen
    ForeignUntouched
PROPERTY ServiceSpec
CHECK_DEADLOCK FALSE
