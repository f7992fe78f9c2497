SPECIFICATION Spec
CONSTANTS
    Procs = {p1, p2, p3}
    Records = {r1, r2, r3}
    MaxPending = 1
    MaxFaults = 3
    Dead = Dead
    None = None
INVARIANTS ForksNeedABreach ManifestAccounts
SYMMETRY Symmetry
CHECK_DEADLOCK FALSE
