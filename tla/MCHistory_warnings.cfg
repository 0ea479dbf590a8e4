SPECIFICATION Spec
CONSTANTS
    None = None
    Id = {1, 2, 3, 4}
    Stamps <- MCSame
    Half = 2
    Effects = {FALSE, TRUE}
    MaxParents = 2
CONSTRAINT MCBound
INVARIANTS
    WarningsCoverRange
CHECK_DEADLOCK FALSE
