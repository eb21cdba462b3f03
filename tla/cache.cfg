SPECIFICATION FairSpec
CONSTANTS
    Comparisons = {p, q}
    a1 = a1
    a2 = a2
    b1 = b1
    Keys = {a1, a2, b1}
    Routes <- EveryRoute
    None = None
    MaxBegun = 2
CHECK_DEADLOCK FALSE
INVARIANTS
    FetchExclusion
    LeasesReturned
PROPERTIES
    CacheNeverGoesBack
    ComparisonsEnd
