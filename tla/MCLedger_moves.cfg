SPECIFICATION Spec
CONSTANTS
    None = None
    Fresh = Fresh
    Proc = {p1, p2}
    Id = {1, 2}
    Junk = {0}
    Run = {r1, r2}
    Slot = {s1}
    Delta = {}
    Clocks = {0}
    ClockBits = 2
    MaxNow = 0
    MaxParents = 1
    MaxAppends = 2
    MaxMoves = 2
    KeysOf <- MCKeysShared
SYMMETRY MCSymmetryRuns
INVARIANTS
    TypeOK
    HeadsStored
    EventsFollowMoves
