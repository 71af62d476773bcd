SPECIFICATION FairSpec
CONSTANTS
    Guests <- MCGuests
    Kinds = {"net", "user"}
    LastCap = 4
    KeptCaps = {2, 3}
INVARIANTS GuestMountsKept TemporariesRemoved ChildConfined
PROPERTIES EventuallyCleaned
CHECK_DEADLOCK FALSE
