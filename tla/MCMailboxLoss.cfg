\* One sender and one drain, nothing fails.
SPECIFICATION Spec
CONSTANTS
    Sender = {gateway}
    Drainer = {dashboard}
    MaxMessages = 2
    MaxFaults = 0
INVARIANTS
    SentMessagesAreKept
CHECK_DEADLOCK FALSE
