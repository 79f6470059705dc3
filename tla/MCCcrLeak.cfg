\* A compressed body whose first upstream call fails in transport.
CONSTANTS
    s1 = s1
    s2 = s2
    i1 = i1
    i2 = i2
    Sessions = {s1, s2}
    Ids = {i1}
    MaxSessions = 1
    MaxIds = 2
    Threshold = 2
    MaxCount = 2
    Admins = {}
    GateChoices = {TRUE}
    WritesMayFail = FALSE
    Slots = {r1}
    Bodies <- PairBodies
    MaxRounds = 2
    MaxCalls = 1
    InjectTool = TRUE
    ForceStream = FALSE
    MemoryChoices = {TRUE}

SPECIFICATION Spec
INVARIANT
    RetrieveCallsNeverLeak
