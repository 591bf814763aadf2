SPECIFICATION Spec
CONSTANTS
    m1 = m1
    m2 = m2
    r1 = r1
    r2 = r2
    q1 = q1
    None = None
    Value = Value
    Garbage = Garbage
    Foreign = Foreign
    Error = Error
    Reads = {r1, r2, q1}
    Queries = {q1}
    Messages = {m1, m2}
    Enabled = TRUE
    Target <- MCTarget
    BodyText <- MCBodyText
    Options <- MCOptions
    Large = {r2}
    EventOf <- MCEventOf
    ValueKeys <- MCValueKeys
    Registrations <- MCRegistrations
INVARIANTS
    CacheIsHarmless
    StateIsPerMessage
PROPERTIES
    PollingEnds
CHECK_DEADLOCK FALSE
