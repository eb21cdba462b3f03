SPECIFICATION SyncSpec
CONSTANTS
    Workers = {w1, w2}
    NoOwner = NoOwner
    N = 3
    BatchSize = 2
    MaxRetry = 2
    MaxAttempts = 2
    Modes = {"create", "resume", "retry"}
    Interruptible = {w1}
    OverrunAllowed = FALSE
    EarlyResume = FALSE
CHECK_DEADLOCK FALSE
SYMMETRY Symmetry
INVARIANTS
    CompletedMeansSettled
