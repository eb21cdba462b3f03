SPECIFICATION SyncSpec
CONSTANTS
    Workers = {w1, w2}
    NoOwner = NoOwner
    N = 3
    BatchSize = 2
    MaxRetry = 1
    MaxAttempts = 1
    Modes = {"create", "resume", "retry"}
    Interruptible = {}
    OverrunAllowed = TRUE
    EarlyResume = TRUE
CHECK_DEADLOCK FALSE
SYMMETRY Symmetry
INVARIANTS
    CheckpointSafe
