SPECIFICATION Spec
CONSTANTS
    Queues = {q1, q2}
    PoolLength = 3
    MaxFaults = 6
INVARIANTS
    TypeOK
    WatchedWhenIdle
    CleanRestart
PROPERTIES
    ConsumersAreKept
    RestartReconnects
    RestartSettles
CHECK_DEADLOCK FALSE
