CONSTANTS
    Slugs = {1, 2, 3}
    MaxHA = 1
    MaxDrive = 1
    HaveCredentials = TRUE
    UploadEnabled = TRUE
    DeleteAfterUpload = FALSE
    DeleteBeforeNew = FALSE
    ConfirmMultiple = TRUE
    DeleteIgnored = FALSE
    MaxFaults = 0
    MaxOutside = 0
    MaxRequests = 1
SPECIFICATION Spec
PROPERTIES KeptIsNeverPurged
