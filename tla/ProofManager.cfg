CONSTANTS
    Hash = {h1, h2}
    TTL = 2
    PushWindow = 1
    MaxClock = 3
SYMMETRY Symmetry
SPECIFICATION Spec
INVARIANTS TypeOK StaleFileExplained
PROPERTIES LeaseExclusive KeepsLeases
