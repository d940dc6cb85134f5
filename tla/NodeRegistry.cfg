SPECIFICATION Spec
CONSTANTS
    Node = {n1}
    Worker = {w1, w2}
    Handler = {h1, h2}
    NoHandler = NoHandler
    Interval = 1
    ReplyWithin = 1
    Transit = 1
    Timeout = 4
    Period = 1
    Lag = 0
    Misses = 1
    MaxClock = 7
SYMMETRY Symmetry
INVARIANTS TypeOK ListedRanLately HeartbeatsKeepListed
