SPECIFICATION Spec
CONSTANTS
    Lo = Lo
    Hi = Hi
    c1 = c1
    c2 = c2
    None = None
    Conn <- MCConn
    Rg <- SameRg
    KeepAlive = 0
    SessionTimeout = 1
    Prompt = TRUE
    MaxFaults = 0
    MaxCfg = 3
    Update = {"PURGE"}
    MaxUpdates = 1
    MaxWire = 3
INVARIANTS
    NoHandshakeLoss
    NoOrphanState
SYMMETRY ConnSymmetry
