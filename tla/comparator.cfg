SPECIFICATION MCSpec
CONSTANTS
    p1 = p1
    p2 = p2
    a1 = a1
    a2 = a2
    Products <- MCProducts
    FirstPage <- MCFirstPage
    Carts <- MCCarts
    Empty <- MCEmpty
    Example <- MCExample
    Texts <- MCTexts
    Blank = ""
    Named <- MCNamed
    Found <- MCFound
    Addresses <- MCAddresses
    NoAddress = NoAddress
    Demo <- MCDemo
    Fake = TRUE
    Company = a1
    Chantiers <- MCChantiers
    Origins <- MCOrigins
    NoOrigin = NoOrigin
    Bases = {"HT", "TTC"}
    Keys = {k1, k2}
    None = None
    Cap = 2
    MaxSearches = 3
    MaxRevision = 3
    FewRevisions = 2
    MaxAsked = 2
CHECK_DEADLOCK FALSE
INVARIANTS
    ShownIsCurrent
    SentForItsNeeds
    OriginIsEntered
    ChoicesAreOfTheText
PROPERTIES
    ButtonReturns
