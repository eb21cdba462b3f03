SPECIFICATION ChantierSpec
CONSTANTS
    Clients = {c1, c2}
    Materials = {m1, m2}
    NoMaterials = NoMaterials
    Requested = {"saving", "choosing", "clearing", "deleting"}
    Clock = {1}
    MaxToken = 5
    MaxVersion = 2
    ClearRaces = TRUE
CHECK_DEADLOCK FALSE
SYMMETRY Symmetry
PROPERTIES
    NoBlindOverwrite
