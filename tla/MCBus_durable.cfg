SPECIFICATION FairSpec
CONSTANTS
    None = None
    Pub = {p1, p2}
    Sub = {s1, s2}
    Queue = {1, 2}
    Channel <- MCOneChannel
    Filter <- MCOneFilter
    Asked = {0}
    DefaultQueue = 1
    MaxQueue = 2
    RecentCap = 2
    MaxPub = 1
    Cancels = FALSE
INVARIANTS
    DurableSentThrough
    CountsAgree
PROPERTIES
    BroadcastEnds
CHECK_DEADLOCK FALSE
