SPECIFICATION Spec
CONSTANTS
    None = None
    Pub = {p1, p2}
    Sub = {s1}
    Queue = {1, 2}
    Channel <- MCOneChannel
    Filter <- MCOneFilter
    Asked = {1}
    DefaultQueue = 2
    MaxQueue = 2
    RecentCap = 2
    MaxPub = 1
    Cancels = TRUE
INVARIANTS
    OpenStaysRegistered
CHECK_DEADLOCK FALSE
