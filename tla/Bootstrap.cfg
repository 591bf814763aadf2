SPECIFICATION Spec
CONSTANTS
    r1 = r1
    r2 = r2
    r3 = r3
    w1 = w1
    w2 = w2
    w3 = w3
    c1 = c1
    m1 = m1
    s1 = s1
    s2 = s2
    Conns = {c1}
    Deliveries = {m1}
    Workers = {w1, w2, w3}
    Unloadable = {w3}
    Broken = {r3}
    Signals = {s1, s2}
    Enabled = {}
    Repeating = {w1}
    RouteFiles <- MCRouteFiles
    WorkerList <- MCWorkerList
    Deployments <- MCDeployments
INVARIANTS
    StartsComplete
    
    EndsInOrder
PROPERTIES
    SignalEndsProcess
CHECK_DEADLOCK FALSE
