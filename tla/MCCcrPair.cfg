\* Two concurrent requests of one conversation, about one block.
CONSTANTS
    s1 = s1
    s2 = s2
    i1 = i1
    i2 = i2
    Sessions = {s1, s2}
    Ids = {i1}
    MaxSessions = 1
    MaxIds = 1
    Threshold = 2
    MaxCount = 3
    Admins = {a1}
    GateChoices = {TRUE, FALSE}
    WritesMayFail = FALSE
    Slots = {r1, r2}
    Bodies <- PairBodies
    MaxRounds = 2
    MaxCalls = 1
    InjectTool = TRUE
    ForceStream = FALSE
    MemoryChoices = {TRUE, FALSE}

SPECIFICATION Spec
SYMMETRY Interchangeable
INVARIANTS
    TypeOK
    PinnedBlocksStayVerbatim
    NoCcrAgainstTheGate
    SettingSurvivesRestart
PROPERTIES
    PinnedRowsAreSticky
    PinSpec
