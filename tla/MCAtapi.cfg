SPECIFICATION FairSpec
CONSTANTS
    Files <- MCFiles
    SectorSize = 2
    Sectors <- MCSectors
    Setups <- MCSetups
    none = none
INVARIANTS
    PacketWhenAsked
    WaitIsAnswered
    SectorsInPlace
    FileDelivered
PROPERTIES
    ReadReturns
CHECK_DEADLOCK FALSE
