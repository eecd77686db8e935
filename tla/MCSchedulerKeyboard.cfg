SPECIFICATION FairSpec
CONSTANTS
    MaxProcs = 2
    Steps = 3
    MaxKeys = 1
    boot = boot
    nowhere = nowhere
PROPERTIES
    KeyboardIsNoTick
CHECK_DEADLOCK FALSE
