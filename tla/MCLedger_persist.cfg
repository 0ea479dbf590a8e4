SPECIFICATION Spec
CONSTANTS
    None = None
    Fresh = Fresh
    Proc = {p1, p2}
    Id = {1, 2, 3}
    Junk = {0}
    Run = {r1}
    Slot = {s1}
    Delta = {d1}
    Clocks = {0}
    ClockBits = 2
    MaxNow = 0
    MaxParents = 1
    MaxAppends = 3
    MaxMoves = 0
    KeysOf <- MCKeysShared
SYMMETRY MCSymmetry
INVARIANTS
    ParentsStored
    IndexCoversStore
    Acyclic
    AckedStored
PROPERTIES
    ImplementsDurableLedger
    RefusedOnlyUnknown
