SPECIFICATION FairSpec
CONSTANTS
  r1 = r1
  r2 = r2
  p1 = p1
  p2 = p2
  f1 = f1
  c1 = c1
  None = None
  NoFile = NoFile
  NoCatalog = NoCatalog
  NoQuery = "all"
  Order <- MCOrder
  Products = {p1, p2}
  Files = {f1}
  Content <- MCContent
  Code <- MCCode
  Catalogs = {c1}
  Member <- MCMember
  Queries = {"q"}
  Matches <- MCMatches
  PageSize = 1
  Units = {"piece", "m"}
  Elsewhere <- MCElsewhere
  Mapped <- MCMapped
  Building = {p2}
  UnitOf <- MCUnitOf
  MaxClicks = 3
  MaxWire = 4
CHECK_DEADLOCK FALSE
INVARIANTS
    PageAgrees
PROPERTIES
    LoadEnds
