SPECIFICATION Spec
CONSTANTS
    None = None
    Id = {1, 2, 3, 4}
    Stamps <- MCStamps
    Half = 2
    Effects = {FALSE}
    MaxParents = 2
CONSTRAINT MCBound
INVARIANTS
    AncestryIsTopological
    IsAncestorDecides
    NcaIsCommon
    ReplayIsComplete
    ReplayRespectsOrder
    RebuildDecided
CHECK_DEADLOCK FALSE
