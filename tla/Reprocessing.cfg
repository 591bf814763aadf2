SPECIFICATION Spec
CONSTANTS
    JobCount = 2
    EarlyWriters = {1}
    MaxTries <- MCMaxTries
    Delays <- MCDelays
    Originals = 1
    Requests = {r1}
    MaxCopies = 4
    MaxCrashes = 1
INVARIANTS
    RetriesAreExact
    RetryIsDelayed
    ResumesExactly
    NothingLost
CHECK_DEADLOCK FALSE
