\* A child and the signals of its run; daemons and those who start them; two
\* concurrent exchanges.
CONSTANTS
    MaxRuns = 2
    MaxSignals = 2

    Launchers = {p1, p2}
    Free = Free
    Stranger = Stranger

    Slots = {r1, r2}
    Credentials = {}
    NoCredential = NoCredential
    Borrowing = TRUE
    Retries = 2
    MaxUsage = 1

SPECIFICATION ProcessesSpec
INVARIANTS
    NoSignalIsSwallowed
    RoutesAreEarned
PROPERTIES
    SignalsEndTheRun
    LaunchesEnd
    ImplementsExchange
    EveryExchangeSettles
CHECK_DEADLOCK FALSE
