SPECIFICATION LoadingSpec
CONSTANTS
    Queues <- MCQueues
    Lists <- MCLists
    Settings <- MCSettings
    Directories <- MCDirectories
    DefaultPrefetch = 2
    MaxHeld = 4
INVARIANTS
    StartsAsListed
    HeldIsBounded
PROPERTIES
    EachIsTried
CHECK_DEADLOCK FALSE
