CONSTANTS
    Node = {n1, n2}
    Request = {r1}
    Call = {p1, p2}
    Fanout = 2
    Attempts = 2
    MaxCrash = 0
SYMMETRY Symmetry
SPECIFICATION Spec
INVARIANTS TypeOK OneProver AnswersAreFull
CHECK_DEADLOCK FALSE
