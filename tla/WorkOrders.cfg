SPECIFICATION OrdersSpec
CONSTANTS
    Users = {u1, u2}
    Devices = {d1}
    Alarms = {a1}
    Inspections = {i1}
    Requests = {r1, r2}
    MaxAssignees = 1
    MaxStarts = 1
    MaxDocuments = 1
    MaxCuts = 1
    Nothing = Nothing
INVARIANTS DanglingNeedsOverlap StuckNeedsOverlap
PROPERTIES ClosedIsFinal
SYMMETRY Symmetry
CHECK_DEADLOCK FALSE
