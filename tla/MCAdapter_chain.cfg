SPECIFICATION Spec
CONSTANTS
    None = None
    Modes <- MCModes
    Call = {c1, c2}
    MaxChunks = 1
    MaxCallbacks = 1
    MaxSent = 4
SYMMETRY MCSymmetry
INVARIANTS
    TypeOK
    NamesOnlyStored
    BoundariesChained
    OneChain
CHECK_DEADLOCK FALSE
