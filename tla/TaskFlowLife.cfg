CONSTANTS
    Node = {n1}
    Request = {r1}
    Call = {p1, p2, p3}
    Fanout = 1
    Attempts = 2
    MaxCrash = 1
SPECIFICATION FairSpec
INVARIANT ResultsBounded
PROPERTIES KeepsPromise HubSettles
CHECK_DEADLOCK FALSE
