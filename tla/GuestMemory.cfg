SPECIFICATION Spec
CONSTANTS
    EntryCount = 4
    PageBytes = 4
    PageSize = 4
    Top = 128
    Sizes = {4, 12, 20, 28, 32, 36, 40, 44, 48, 52, 56, 60, 64, 68, 72, 76, 80, 84, 88}
    KaslrStart <- MCKaslrStart
    KaslrEnd <- MCKaslrEnd
    KernelSymbols = {"printk", "filp_open"}
    LibSymbols = {"init"}
    GuestSlots <- MCGuestSlots
    Machines <- MCMachines
    Images <- MCImages
    HvSlots <- MCHvSlots
    Spare = 28
    Faults = {"refuse", "short", "user"}
INVARIANTS TypeOK Disjoint MappedAsAsked LoadedAsLinked NothingLeft IteratorComplete
PROPERTIES HypervisorSlotsKept
