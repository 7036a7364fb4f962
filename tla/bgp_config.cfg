SPECIFICATION FairSpec
CONSTANTS
    Route = {"r1", "r2"}
    RouteRow = {{"a"}, {"a", "b"}, {"bad"}}
    Comm = {"c1", "c2", "c3", "empty"}
    ListRow <- MCListRow
    SeqMax = 2
    Scene <- MCScene
INVARIANTS
    TypeOK
    QueueWaits
    PeerInstalled
    PeerRemoved
    RoutesAgree
    RedistributionFollows
    AllowListCovers

    
CHECK_DEADLOCK FALSE
