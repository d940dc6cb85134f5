CONSTANTS
    Caller = {c1, c2, c3, c4}
    MaxConn = 2
    Retries = 1
    MayClose = TRUE
SPECIFICATION FairSpec
INVARIANTS TypeOK ChannelsAccounted NoLostWakeup WaitsForSomething
PROPERTIES CallsEnd LendsChannels
