SPECIFICATION Spec
CONSTANTS
    Grants = {g1}
    Admins = {m1, m2, m3}
    Ops = {o1, o2}
    Procs = {p1}
    Elsewhere = Elsewhere
    TTL = 2
    DegradedTTL = 1
    Duration = 1
    MaxTime = 3
    Role = Role
    None = None
INVARIANTS ActiveWasApproved ApprovedIsActivated RevokedIsForgotten StaleAllowEnds
SYMMETRY Symmetry
CHECK_DEADLOCK FALSE
