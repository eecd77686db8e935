SPECIFICATION Spec
CONSTANTS
    b512 = b512
    b2k = b2k
    PageSize = 2
    MaxEntries = 2
    Kinds <- MCKinds
    PerPage <- MCPerPage
    Boot = 1
    Sizes <- MCSizes
    Limit = 10
INVARIANTS
    Ordered
    EveryPageOnce
    HeldIsBacked
    UsedIsHeld
    CarvedInside
PROPERTIES
    HeldStays
    StoreSpec
CHECK_DEADLOCK FALSE
