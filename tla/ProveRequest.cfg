CONSTANTS
    h1 = h1
    p1 = p1
    p2 = p2
    Hash = {h1}
    Call = {p1, p2}
    Key = {k1, k2}
    Installed = k1
    Nothing = Nothing
    Anonymous = Anonymous
    Asks <- MCAsks
    Request <- MCRequest
    Bindings <- MCBindings
    Projects <- MCProjects
    MaxFaults = 1
SPECIFICATION FairSpec
INVARIANTS TypeOK ClaimsAreFinal ProofsAuthorised NamesProject Served
PROPERTIES ProofReachesClient KeepsPromise CallsEnd
CHECK_DEADLOCK FALSE
