CONSTANTS
    Call = {c1, c2}
    None = None
    Malformed = Malformed
    Docs <- MCDocs
    Inputs <- MCInputs
    Base = 4
    Limbs = 2
SPECIFICATION FairSpec
INVARIANTS TypeOK KeysUsable AcceptedIsPublished RejectionExplained
PROPERTY CallsEnd
CHECK_DEADLOCK FALSE
