SPECIFICATION FairSpec
CONSTANTS
    Lo = Lo
    Hi = Hi
    Po = {p1}
    BindAtStart <- BothBound
    Reboot = {"crash"}
    Config = {}
    MaxFlap = 4
    MaxCfg = 0
    MaxDrop = 2
INVARIANTS
    TypeOK
    PeerStateAgrees
    DisabledOnlyInSession
PROPERTIES
    EventuallyQuiescent
    TrafficRestored
