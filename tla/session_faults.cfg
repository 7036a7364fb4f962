SPECIFICATION Spec
CONSTANTS
    Lo = Lo
    Hi = Hi
    c1 = c1
    c2 = c2
    None = None
    Conn <- MCConn
    Rg <- SameRg
    KeepAlive = 0
    SessionTimeout = 1
    Prompt = FALSE
    MaxFaults = 1
    MaxCfg = 0
    Update = {"UPDATE"}
    MaxUpdates = 1
    MaxWire = 2
INVARIANTS
    NoLeakedSocket
    StageAgreement
    NoUpdateLost
    
SYMMETRY ConnSymmetry
