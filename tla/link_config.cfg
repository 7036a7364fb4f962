SPECIFICATION Spec
CONSTANTS
    Lo = Lo
    Hi = Hi
    Po = {p1}
    BindAtStart <- LoBound
    Reboot = {"crash", "warm"}
    Config = {"attach", "detach", "create", "destroy"}
    MaxFlap = 2
    MaxCfg = 3
    MaxDrop = 1
INVARIANTS
    EveryMemberKnown
    IsolationFollowsPeer
