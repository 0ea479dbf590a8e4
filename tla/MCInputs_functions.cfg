SPECIFICATION Spec
CONSTANTS
    Fragments <- MCFragments
    Field = {"a", "password"}
    PairField = {"a", "b"}
    Topic = {"c", "d"}
    Watched = "c"
    DeltaId = {1, 2}
    Cap = 3
    MaxPushes = 5
INVARIANTS
    PreparedClean
    DiffPatches
    MergeKeeps
    FrontsAgree
    SdkEventsAccepted
    StartedReachable
    PollsShow
CHECK_DEADLOCK FALSE
