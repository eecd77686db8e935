SPECIFICATION TestSpec
CONSTANTS
    PageWordCount = 6
    Counts = {1, 2, 4, 6}
    Limit = 75
    MaxShrinks = 1
    PlayCounts = {1, 2}
    PlayLimit = 9
PROPERTIES
    ListSpec
    ShrinkKeepsUsed
CHECK_DEADLOCK FALSE
