\* An upstream that breaks off a stream.
CONSTANTS
    Slots = {r1}
    Credentials = {}
    NoCredential = NoCredential
    Borrowing = TRUE
    Retries = 0
    MaxUsage = 1

SPECIFICATION Spec
INVARIANT
    BrokenStreamsAreBooked
