SPECIFICATION Spec
CONSTANTS
    None = None
    Fresh = Fresh
    Proc = {p1}
    Id = {1, 2, 3}
    Junk = {0}
    Run = {p1}
    Slot = {s1}
    Delta = {d1}
    Clocks = {0}
    ClockBits = 2
    MaxNow = 1
    MaxParents = 0
    MaxAppends = 4
    MaxMoves = 0
    KeysOf <- MCKeysOwn
INVARIANTS
    HeadCoversAcks
