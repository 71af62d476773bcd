SPECIFICATION Spec
CONSTANTS
    block = block
    console = console
    Devices <- TwoDevices
    MaxRetries = 3
    StartMayFail = FALSE
INVARIANT CleanupIsSafe
CHECK_DEADLOCK FALSE
