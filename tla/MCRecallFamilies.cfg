\* One process: do tool results leave the failures' outputs alone?
CONSTANTS
    Procs = {p1}
    Outputs = {"a", "b", "c"}
    NoOutput = NoOutput
    Posthook = {"b", "c"}
    MaxEntries = 2
    MaxPosthook = 1
    Retention = 0
    LastSecond = 0
SPECIFICATION RecallSpec
PROPERTY PosthookSparesFailures
CHECK_DEADLOCK FALSE
