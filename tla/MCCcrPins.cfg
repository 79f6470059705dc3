\* A block pinned in one life of the daemon and compressed in the next.
CONSTANTS
    s1 = s1
    s2 = s2
    i1 = i1
    i2 = i2
    Sessions = {s1, s2}
    Ids = {i1}
    MaxSessions = 1
    MaxIds = 1
    Threshold = 1
    MaxCount = 2
    Admins = {}
    GateChoices = {TRUE}
    WritesMayFail = FALSE
    Slots = {r1}
    Bodies <- PairBodies
    MaxRounds = 2
    MaxCalls = 1
    InjectTool = TRUE
    ForceStream = FALSE
    MemoryChoices = {TRUE}

SPECIFICATION Spec
PROPERTY
    PinsLastTheSession
