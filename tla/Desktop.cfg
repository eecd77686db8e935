SPECIFICATION Spec
CONSTANTS
    Bottom = 3
    Messages = 5
    Width = 4
    Height = 4
    MaxWindows = 2
    MaxPuts = 2
INVARIANTS
    LogInOrder
    LetterShown
CHECK_DEADLOCK FALSE
