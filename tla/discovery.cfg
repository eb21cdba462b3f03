SPECIFICATION Spec
CONSTANTS
  None = None
  NoTerm = NoTerm
  Words <- MCWords
  Attributes = {"blanc"}
  Tables <- MCTables
  Designations <- MCDesignations
  Renamed <- MCRenamed
  Features <- MCFeatures
  Nouns = {"vis", "lame"}
  Marks = {"blanc", "inox"}
  Rules <- MCRules
  Classified <- MCClassified
  Idf <- MCIdf
  MinSize = 2
  MinPair = 3
  MinChild = 2
  MinFamily = 2
  Recluster = 3
  MinSeeds = 2
  ManyPairs = 0
  ManyWords = 0
  MaxChanges = 2
CHECK_DEADLOCK FALSE
INVARIANTS
    CountedOnce
    NoneLost
    IssuedIsCurrent
