SPECIFICATION Spec
CONSTANTS
  Unknown = Unknown
  NoProduct = NoProduct
  NoKey = NoKey
  NoEan = NoEan
  Other = Other
  b1 = b1
  b2 = b2
  g1 = g1
  Keys <- MCKeys
  Values = {1, 2}
  Families = {"panel", "bar", "cat"}
  Rule <- MCRule
  Style <- MCStyle
  Category <- MCCategory
  Enrich <- MCEnrich
  Renamed <- MCRenamed
  Rounded <- MCRounded
  LeftOut <- MCLeftOut
  Brico = {b1, b2}
  Gedimat = {g1}
  Text <- MCText
  Ean <- MCEan
  Contradiction <- MCContradiction
  Variants = {}
  Extractions <- MCExtractions
  CodeOf <- MCCodeOf
  SpecificCode <- MCSpecificCode
  LongCode <- MCLongCode
  OtherCodes <- MCOtherCodes
  Campaigns <- MCCampaigns
  Imported = {b1, g1}
  MaxEdits = 2
CHECK_DEADLOCK FALSE
INVARIANTS
    SecondTurnIsIdle
    SpecificByText
PROPERTIES
    ExactIsTheOnlyFit
    SeedKeepsTheFit
    MappingStands
    TwinIsCarried
