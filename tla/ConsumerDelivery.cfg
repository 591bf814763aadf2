SPECIFICATION Spec
CONSTANTS
    Messages = {m1, m2}
    NoMessage = NoMessage
    Unparsable = {m2}
    MaxTags = 2
    MaxDeliveries = 3
    Prefetch = 2
INVARIANTS
    TypeOK
    SettledAtMostOnce
    GracefulStopDrains
    HandledIsSettled
    RemovedIsHandled
CHECK_DEADLOCK FALSE
