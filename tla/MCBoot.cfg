SPECIFICATION Spec
CONSTANTS
    PerTable = 8
    Slots = 16
    CopySpan = 2
    HeapStart = 3
    junk = junk
    entry = entry
    StackSlot = 7
    HighSlot = 8
    SharedTables = 2
    KernelTables = 6
    FrameSlot = 15
    BufferPages = 2
    Image = {1, 2}
    Lines = {0, 1, 3, 8, 14}
    Programs <- MCPrograms
    MaxProcesses = 2
    MaxPending = 2
INVARIANTS
    InterruptsFindTable
    KernelInReach
    ProgramsInPlace
PROPERTIES
    DiskIsAnswered
CHECK_DEADLOCK FALSE
