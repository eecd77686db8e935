SPECIFICATION Spec
CONSTANTS
    Letters <- MCLetters
    TypedLetters <- MCTyped
    HurriedLetters <- MCHurried
    OtherLetters <- MCOther
    Help <- MCHelp
    Hex <- MCHex
    Run <- MCRun
    Settings <- MCSettings
    Blackjack <- MCBlackjack
    Tictac <- MCTictac
    eCard <- MCCard
    Colours = 2
    BorderColour = 1
    CommandPlaces = 3
    Rows = 6
    Width = 3
    ScrollRow = 4
    ClockColumns <- MCClock
    MaxBack = 1
    MaxRow = 1
    MaxLater = 2
INVARIANTS
    KeyActedOnOnce
    LineShowsCommand
    NotedCardsLieFaceUp
CHECK_DEADLOCK FALSE
PROPERTIES
    LetterLeavesSlot
