CONSTANTS
    Slugs = {1, 2, 3}
    MaxHA = 1
    MaxDrive = 2
    HaveCredentials = TRUE
    UploadEnabled = TRUE
    DeleteAfterUpload = TRUE
    DeleteBeforeNew = TRUE
    ConfirmMultiple = TRUE
    DeleteIgnored = TRUE
    MaxFaults = 0
    MaxOutside = 1
    MaxRequests = 1
SPECIFICATION Spec
INVARIANTS
    TypeOK
    ViewMatches
PROPERTIES
    PurgeSparesKept
    PurgeLeavesEnough
    DeletedOnlyAfterUpload
    UnconfirmedPurgeIsLast
