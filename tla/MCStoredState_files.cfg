CONSTANTS
    Slugs = {s1, s2}
    Accounts = {a1, a2}
    Absent = Absent
    Torn = Torn
    Garbled = Garbled
    None = None
    Expiration = 0
    MaxDays = 1
    MaxStops = 1
CHECK_DEADLOCK FALSE
SYMMETRY Alike
CONSTRAINT OneFileHurt
SPECIFICATION Spec
INVARIANTS
    StoredInv
    SavedIsKept
    OwnIsKnown
    CredsAsSaved
PROPERTY FilesAreRegisters
