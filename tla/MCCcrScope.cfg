\* A client without a session header whose first message holds a large block.
CONSTANTS
    s1 = s1
    s2 = s2
    i1 = i1
    i2 = i2
    Sessions = {s1, s2}
    Ids = {i1}
    MaxSessions = 1
    MaxIds = 2
    Threshold = 2
    MaxCount = 2
    Admins = {}
    GateChoices = {TRUE}
    WritesMayFail = FALSE
    Slots = {r1}
    Bodies <- HashedBodies
    MaxRounds = 2
    MaxCalls = 1
    InjectTool = TRUE
    ForceStream = FALSE
    MemoryChoices = {TRUE}

SPECIFICATION Spec
INVARIANT
    ReadsAreScopedLikeWrites
