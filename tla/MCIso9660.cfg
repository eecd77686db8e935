SPECIFICATION FairDiscSpec
CONSTANTS
    Machines <- MCMachines
    Lbas <- MCLbas
    Names <- MCNames
INVARIANTS
    FileIsFirstMatch
PROPERTIES
    FileReturned
CHECK_DEADLOCK FALSE
