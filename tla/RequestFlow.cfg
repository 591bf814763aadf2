SPECIFICATION Spec
CONSTANTS
    h1 = h1
    m1 = m1
    p1 = p1
    p2 = p2
    b1 = b1
    b2 = b2
    b3 = b3
    b4 = b4
    b5 = b5
    c1 = c1
    path = path
    Handlers = {h1, m1, p1, p2, b1, b2, b3, b4, b5, c1}
    SyncHandlers = {p2}
    Hook <- MCHook
    Route <- MCRoute
    Kinds = {"http", "job"}
    Modes = {"all", "allSettled", "any", "race"}
    Paths = {path}
    Values <- MCValues
INVARIANTS
    RouteIsObeyed
PROPERTIES
    RefusalIsFinal
    EveryFlowEnds
CHECK_DEADLOCK FALSE
