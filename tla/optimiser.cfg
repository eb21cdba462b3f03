SPECIFICATION RequestSpec
CONSTANTS
    Families <- MCFamilies
    Cases <- MCCases
    LiveKey <- MCLiveKey
    Cent = 10
    PerKm = 15
    PerMinute = 7
    PerExtraStop = 3
    None = None
    Brico = {1, 2}
    BricoLive = 1
    Gedimat = 3
    MaxStores = 2
    MaxEdits = 2
CHECK_DEADLOCK FALSE
INVARIANTS
    StrategiesAreCheapest
    OptimisedIsBest
    EachBrandAnswers
    BoughtAsSold
    ListIsTheSolution
