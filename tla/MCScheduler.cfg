SPECIFICATION FairSpec
CONSTANTS
    MaxProcs = 3
    Steps = 2
    MaxKeys = 1
    boot = boot
    nowhere = nowhere
INVARIANTS
    RunnerIsCurrent
    EveryoneReady
PROPERTIES
    EveryThreadRuns
    InterruptsComeBack
    TurnsSpec
CHECK_DEADLOCK FALSE
