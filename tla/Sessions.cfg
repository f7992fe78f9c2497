SPECIFICATION Spec
CONSTANTS
    Requests = {r1, r2}
    Sids = {s1, s2}
    Pairs = {p1, p2}
    MaxSessions = 1
    MaxVersion = 1
    MaxPresented = 1
    None = None
INVARIANTS NoParallelLines RevocationIsFinal GoneStaysGone CapHolds
SYMMETRY Symmetry
CHECK_DEADLOCK FALSE
