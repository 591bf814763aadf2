SPECIFICATION Spec
CONSTANTS
    Queues = {q1}
    PoolLength = 2
    MaxFaults = 1
PROPERTIES
    ConsumerIsRebuilt
CHECK_DEADLOCK FALSE
