CONSTANTS
    Addons = {a1, self}
    Own = self
    Tasks = {t1, t2}
    MaxFaults = 0
    MaxRestarts = 0
    MaxCancels = 0
    MaxOutside = 0
SPECIFICATION Spec
PROPERTY StartedAfterBackup
