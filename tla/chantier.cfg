SPECIFICATION ChantierSpec
CONSTANTS
    Clients = {c1, c2}
    Materials = {m1, m2}
    NoMaterials = NoMaterials
    Requested = {"saving", "choosing", "clearing", "deleting", "tracking"}
    Clock = {1, 2}
    MaxToken = 4
    MaxVersion = 2
    ClearRaces = FALSE
CHECK_DEADLOCK FALSE
SYMMETRY Symmetry
INVARIANTS
    SeenIsCurrent
PROPERTIES
    NoBlindOverwrite
    RetainedFresh
