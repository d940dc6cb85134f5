SPECIFICATION Spec
CONSTANTS
    Call = {c1}
    Device = {d1, d2}
    Circuit = {plain, jwt}
    Restricted = {jwt}
    None = None
PROPERTY
    StatusNamesCause
CHECK_DEADLOCK FALSE
