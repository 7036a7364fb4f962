SPECIFICATION FairSpec
CONSTANTS
    MaxVersion = 3
    Pod = {2, 3}
    Scene <- MCScene
INVARIANTS
    TypeOK
    Exclusive
    Supervised
PROPERTIES
    Served
    LocalReturns
    LabelsReach
    StopHolds
CHECK_DEADLOCK FALSE
