SPECIFICATION Spec
CONSTANTS
    Lo = Lo
    Hi = Hi
    OrphanPort = {"eth0", "eth1"}
    Scene <- LearnAge
INVARIANTS
    NoFreedEntryInTree
CHECK_DEADLOCK FALSE
