SPECIFICATION FairSpec
CONSTANTS
    Lo = Lo
    Hi = Hi
    Mac = {"m1", "m2"}
    Scene <- Neighbours
    MaxEvent = 2
    MaxDrop = 1
INVARIANTS
    ListMatchesKernel
    AnnouncedIsKnown
PROPERTY
    EchoStops
CHECK_DEADLOCK FALSE
