SPECIFICATION Spec
CONSTANTS
    Requests = {r1, r2, r3}
    Payloads = {x, y}
    Lease = 1
    Retention = 2
    MaxTime = 3
    None = None
INVARIANTS OneEffect LeaseIsExclusive ReplayMatches
PROPERTIES ConclusionStays
SYMMETRY Symmetry
CHECK_DEADLOCK FALSE
