\* Two concurrent PUTs and a database that never fails.
CONSTANTS
    Admins = {a1, a2}
    GateChoices = {TRUE}
    WritesMayFail = FALSE

SPECIFICATION SettingsSpec
INVARIANT
    SettingSurvivesRestart
