SPECIFICATION FairSyncSpec
CONSTANTS
    Workers = {w1, w2, w3}
    NoOwner = NoOwner
    N = 3
    BatchSize = 2
    MaxRetry = 2
    MaxAttempts = 2
    Modes = {"create", "resume"}
    Interruptible = {w1, w2, w3}
    OverrunAllowed = FALSE
    EarlyResume = FALSE
CHECK_DEADLOCK FALSE
INVARIANTS
    LeaseExclusion
    CountersMatchItems
PROPERTIES
    LedgerSpec
    RunTerminates
