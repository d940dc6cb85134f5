CONSTANTS
    Caller = {c1, c2}
    NoOne = NoOne
    MaxRotation = 2
    MaxClock = 3
SPECIFICATION FairSpec
INVARIANTS TypeOK MtimeVouchesForKey RotationVisible
PROPERTY CallsEnd
