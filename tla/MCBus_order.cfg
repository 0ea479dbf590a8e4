SPECIFICATION Spec
CONSTANTS
    None = None
    Pub = {p1, p2}
    Sub = {s1}
    Queue = {1, 2}
    Channel <- MCOneChannel
    Filter <- MCFilters
    Asked = {3}
    DefaultQueue = 2
    MaxQueue = 1
    RecentCap = 2
    MaxPub = 2
    Cancels = TRUE
SYMMETRY MCSymmetry
INVARIANTS
    TypeOK
    PublisherOrder
    LatestNearEnd
CHECK_DEADLOCK FALSE
