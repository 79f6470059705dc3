\* One request at a time, two blocks, three rounds of up to two calls; a registry
\* with room for one block.
CONSTANTS
    s1 = s1
    s2 = s2
    i1 = i1
    i2 = i2
    Sessions = {s1}
    Ids = {i1, i2}
    MaxSessions = 1
    MaxIds = 1
    Threshold = 2
    MaxCount = 2
    Admins = {}
    GateChoices = {TRUE}
    WritesMayFail = FALSE
    Slots = {r1}
    Bodies <- WideBodies
    MaxRounds = 3
    MaxCalls = 2
    InjectTool = TRUE
    ForceStream = FALSE
    MemoryChoices = {TRUE}

SPECIFICATION FairSpec
INVARIANTS
    LoopAnswersAreClean
    UsageIsBooked
    OnlyCachedBlocksAreTallied
PROPERTIES
    EveryRequestEnds
