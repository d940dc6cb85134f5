CONSTANTS
    Hash = {h1}
    TTL = 2
    PushWindow = 1
    MaxClock = 4
SPECIFICATION Spec
INVARIANT StartNeverFails
