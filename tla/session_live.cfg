SPECIFICATION FairSpec
CONSTANTS
    Lo = Lo
    Hi = Hi
    c1 = c1
    c2 = c2
    None = None
    Conn <- MCConn
    Rg <- SameRg
    KeepAlive = 0
    SessionTimeout = 1
    Prompt = TRUE
    MaxFaults = 2
    MaxCfg = 0
    Update = {"UPDATE"}
    MaxUpdates = 0
    MaxWire = 4
PROPERTIES
    ServiceProvided
    EventuallySynced
    HalfOpenCleared
