CONSTANTS
    Addons = {a1}
    Own = self
    Tasks = {t1, t2}
    MaxFaults = 1
    MaxRestarts = 0
    MaxCancels = 0
    MaxOutside = 1
SPECIFICATION Spec
SYMMETRY Alike
CONSTRAINT OneDisturbance
INVARIANTS
    TypeOK
    StopperInv
    OneAtATime
    StopperKnows
PROPERTY KnownBackupUndisturbed
