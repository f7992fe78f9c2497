SPECIFICATION ChainSpec
CONSTANTS
    Calls = {f1, f2, f3, k1, k2}
    Creates = {k1, k2}
    None = None
    RedisConfigured = FALSE
    MaxRecords = 4
    BatchLimit = 2
    MaxFaults = 3
    FaultKinds = {"timeout", "reject", "partial", "lostAck", "crash"}
INVARIANTS ChainIsWhole StoredOnce
PROPERTIES ImplementsLedger
SYMMETRY Symmetry
CHECK_DEADLOCK FALSE
