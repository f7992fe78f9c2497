SPECIFICATION FairSpec
CONSTANTS
    Records = {s1, x, m}
    Sensitive = {s1}
    Malformed = {m}
    Refused = {x}
    BatchLimit = 2
    HardLimit = 2
    MaxBatchRetry = 2
    WalLimit = 2
    AllowDurableTrim = FALSE
    MaxFaults = 3
    FaultKinds = {"infra", "hold", "wait", "wal", "crash", "stop"}
    None = None
    Torn = Torn
INVARIANTS NothingForgotten OnlyBadRecordsJudged AckedSurvives ReportIsTrue CleanStop
PROPERTIES AckedIsStored
CHECK_DEADLOCK FALSE
