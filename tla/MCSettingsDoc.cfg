\* A daemon whose config decides otherwise than the row an admin left.
CONSTANTS
    Admins = {a1}
    GateChoices = {TRUE, FALSE}
    WritesMayFail = FALSE

SPECIFICATION SettingsSpec
PROPERTY
    PersistedValueWins
