SPECIFICATION Spec
CONSTANTS
    r1 = r1
    r2 = r2
    p1 = p1
    p2 = p2
    i1 = i1
    i2 = i2
    f1 = f1
    Refs = {r1, r2}
    Products = {p1, p2}
    Quantities = {1, 2}
    Imports = {i1, i2}
    Feeds = {f1}
    Sessions = {s, t}
    Requests <- EveryRequest
    None = None
    NoRow = NoRow
    Untouched = Untouched
    Unread = Unread
    MaxBegun = 4
SYMMETRY Symmetry
CHECK_DEADLOCK FALSE
INVARIANTS
    OffersHaveTheirCatalog
PROPERTIES
    ImportIsWhole
    NoFileDetaches
    HandStands
