SPECIFICATION UserCacheSpec
CONSTANTS
    Loads = {q1, q2}
    UserTTL = 2
    MaxQuery = 2
    MaxVersion = 2
    Gone = 2
    MaxTime = 6
    Void = Void
INVARIANTS StaleEndsInTime StaleNeedsARace
SYMMETRY Symmetry
CHECK_DEADLOCK FALSE
