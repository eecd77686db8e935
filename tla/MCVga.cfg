SPECIFICATION Spec
CONSTANTS
    Width = 9
    Height = 9
    Corners <- MCCorners
    LetterSize = 3
    CrtRegisters = 25
INVARIANTS
    ModeIsSet
    LineIsTrue
    CircleIsRound
CHECK_DEADLOCK FALSE
