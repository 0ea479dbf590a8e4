SPECIFICATION Spec
CONSTANTS
    None = None
    Handler = {h1, h2}
    Agent = {a1, a2}
    secret = secret
    clean = clean
    note = note
    plain = plain
    other = other
    Channel <- MCChannel
    Content <- MCContent
    Clean <- MCClean
    Context = {plain, other}
    Sent <- MCSent
    d1 = d1
    Delta = {d1}
    Large = {clean}
    Form = {raw, packed}
    Parents <- MCParents
    Requested <- MCRequested
    RequireAuth = TRUE
    PersistEphemeral = FALSE
    WindowSize = 2
    RepeatLimit = 2
    MaxRequests = 3
    MaxRegisters = 2
    MaxFaults = 1
SYMMETRY MCSymmetry
INVARIANTS
    TypeOK
    NoticesTrue
    ArtifactsReadable
    WarningsAreReal
    RepeatsWarned
    PresenceTrue
PROPERTIES
    ImplementsDurableLedger
CHECK_DEADLOCK FALSE
