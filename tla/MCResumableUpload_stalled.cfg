CONSTANTS
    Backups = {b1}
    NoMeta = NoMeta
    Size = 2
    MaxChunk = 1
    RetryAttempts = 2
    MaxRetries = 0
    Failures = {"mute"}
    MaxNotes = 0
    MaxFaults = 1
CHECK_DEADLOCK FALSE
SPECIFICATION FairSpec
PROPERTY NotRetriedForever
