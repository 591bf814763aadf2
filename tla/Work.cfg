SPECIFICATION Spec
CONSTANTS
    N = 4
    MaxRunning = 2
    Methods = {1, 2, 3, 4}
    Kinds <- MCKinds
INVARIANTS
    SlotsAreExact
    TracesAreExact
PROPERTIES
    ResolvesInOrder
