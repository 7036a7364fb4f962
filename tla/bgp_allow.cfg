SPECIFICATION Spec
CONSTANTS
    Route = {}
    RouteRow = {{"h1"}}
    Comm = {"c1", "c2", "c3", "empty"}
    ListRow <- MCListRow
    SeqMax = 2
    Scene <- ListScene
INVARIANTS
    OwnEntry
CHECK_DEADLOCK FALSE
