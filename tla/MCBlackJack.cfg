SPECIFICATION bJSpec
CONSTANTS
    bJCard <- MCDeck
    Reshuffle = 50
INVARIANTS
    ShownHasText
    DealersCardsFit
    
CHECK_DEADLOCK FALSE
