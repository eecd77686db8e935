SPECIFICATION ContainersSpec
CONSTANTS
    HEADER_SIZE = 1
    minMemSize = 1
    maxHeapSize = 18
    Asked = {0, 2, 3, 5}
    MaxHeld = 4
    maxData = 4
    Texts <- MCTexts
    Strings = {s1, s2}
    junk = junk
    MaxPages = 4
INVARIANTS
    BlocksOfTheHeap
    PushedIsKept
    BlocksAreStrings
CHECK_DEADLOCK FALSE
