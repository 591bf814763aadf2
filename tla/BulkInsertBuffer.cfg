SPECIFICATION Spec
CONSTANTS
    MaxSize = 2
    MaxQueueSize = 3
    MaxDocs = 6
    Callers = {c1, c2}
INVARIANTS
    TypeOK
    NeverStranded
    InsertOrder
    DroppedIsExact
    FlushHandsOver
PROPERTIES
    ImplementsLog
CHECK_DEADLOCK FALSE
