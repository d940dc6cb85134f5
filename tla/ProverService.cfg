SPECIFICATION Spec
CONSTANTS
    Call = {c1, c2, c3}
    Device = {d1, d2}
    Circuit = {jwt}
    Restricted = {jwt}
    None = None
SYMMETRY Symmetry
INVARIANTS
    TypeOK
    CountersExact
    ChoosesLeastLoaded
\* Every call ends, and the calls of an instance are finitely many.
CHECK_DEADLOCK FALSE
