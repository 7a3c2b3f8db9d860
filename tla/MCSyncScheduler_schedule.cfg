CONSTANTS
    Pages = {p1, p2}
    Interval = 2
    MaxBackoff = 2
    CounterCap = 3
    Warm = 1
    MaxRequests = 2
    MaxFaults = 1
SPECIFICATION FairSpec
INVARIANTS
    SchedulerInv
    OneSync
    ListingKnowsSyncs
    PermissionCoversSync
PROPERTIES
    ImplementsFairStatus
    Recovers
    RequestsAnswered
