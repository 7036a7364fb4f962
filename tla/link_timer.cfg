SPECIFICATION LoopSpec
CONSTANTS
    Lo = Lo
    Hi = Hi
    Po = {p1}
    BindAtStart <- BothBound
    Reboot = {"warm"}
    Config = {}
    MaxFlap = 1
    MaxCfg = 0
    MaxDrop = 1
PROPERTIES
    WarmDisconnectRecovered
