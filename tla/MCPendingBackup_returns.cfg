CONSTANTS
    Addons = {a1}
    Own = self
    Tasks = {t1}
    MaxFaults = 0
    MaxRestarts = 1
    MaxCancels = 1
    MaxOutside = 0
SPECIFICATION FairSpec
INVARIANT Remembered
PROPERTIES
    AddonsReturn
    PlaceholderGoes
