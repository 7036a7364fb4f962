SPECIFICATION Spec
CONSTANTS
    Lo = Lo
    Hi = Hi
    OrphanPort = {"eth0", "eth1"}
    Scene <- StationScenes
INVARIANTS
    QueueConsistent
    AgedOutIsGone
    MacReachesPeer
    NoStaleRemoteMac
    NoMacOnDownPort
    NoPeerLinkLoop
CHECK_DEADLOCK FALSE
