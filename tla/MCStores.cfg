\* The unlocked files and tables of the CLI, the hooks' permission gate, the pin
\* registry, and two concurrent exchanges of clients with different credentials.
CONSTANTS
    Writers <- TwoProcesses
    Slugs = {0, 1}
    PidTag <- TagOfProcess
    Tags = 2
    MaxFiles = 1
    LastTick = 1

    Procs <- TwoProcesses
    Outputs = {"a", "b", "c"}
    NoOutput = NoOutput
    Posthook = {"c"}
    MaxEntries = 1
    MaxPosthook = 1
    Retention = 1
    LastSecond = 2

    Readers <- TwoProcesses
    Elided = {"a", "b"}
    Nothing = Nothing
    FilterOf <- OneFilter
    MaxCounted = 2

    Readings <- SomeReadings
    Commands <- SomeCommands
    Contents <- SomeContents
    Files = 2

    Installers <- TwoProcesses
    Texts = {"t1", "t2", "t3", "bad"}
    Commanding = {"t3"}
    Invalid = {"bad"}
    Fetches <- SomeFetches
    MaxCommands = 4

    Users <- TwoProcesses
    Paths = {"f", "g"}
    GatedContents = {"a", "b"}
    Unusable = {}
    Undecodable = {"b"}
    MaxVisits = 3

    Setups <- TwoProcesses
    OwnHooks = {"o"}
    Matchers = {"m1", "m2", "none", "own"}
    Needs <- SomeNeeds
    OldSettings <- SomeSettings
    MaxSetups = 2
    MaxSaves = 1

    Sessions = {s1, s2, s3}
    Ids = {i1, i2, i3}
    MaxSessions = 2
    MaxIds = 2
    Threshold = 2
    MaxCount = 3

    Slots = {r1, r2}
    Credentials = {c1, c2}
    NoCredential = NoCredential
    Borrowing = TRUE
    Retries = 2
    MaxUsage = 1

SPECIFICATION StoresSpec
INVARIANTS
    NewestLogsAreKept
    PosthookLogsAreTheirAuthors
    FailureHintsResolve
    RatesAreShares
    AutoAllowIsEarned
    RewritesRespectTheRules
    ChainsAreNoLooser
    NothingGoesLiveUnseen
    RecordsOutliveEachOther
    OnlyReviewedIsLoaded
    StoreIsWhatWasDecided
    SettingsStaySound
    PinTypeOK
    CapsHold
    TypeOK
    OwnCredentialIsKept
    RetriesAreSpent
    RowsTellTheTruth
    EndedExchangesAreBooked
PROPERTIES
    RotationMeetsTheBudget
    EvictionIsExact
    EvictionTakesTheOldest
    PinsAreSticky
CHECK_DEADLOCK FALSE
