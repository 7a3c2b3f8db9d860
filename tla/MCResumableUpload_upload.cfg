CONSTANTS
    Backups = {b1, b2}
    NoMeta = NoMeta
    Size = 2
    MaxChunk = 2
    RetryAttempts = 2
    MaxRetries = 1
    Failures = {"gone", "broken"}
    MaxNotes = 1
    MaxFaults = 2
CHECK_DEADLOCK FALSE
SPECIFICATION FairSpec
INVARIANTS
    UploadInv
    FilesWhole
    FileAsAsked
    OneFile
PROPERTY Delivered
