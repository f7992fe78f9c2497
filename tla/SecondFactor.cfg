SPECIFICATION Spec
CONSTANTS
    Requests = {r1, r2}
    Secrets = {s1, s2}
    Issues = {i1, i2}
    MaxFails = 2
    LockFor = 1
    MaxTime = 2
    MaxFaults = 1
    None = None
INVARIANTS UsedOnce EnabledWasProved FailuresLock
PROPERTIES DisabledByItsFactor
SYMMETRY Symmetry
CHECK_DEADLOCK FALSE
