CONSTANTS
  Schema <- Declared
  Docs <- Documents
  Leaves <- Simple
  Siblings <- Others
  Texts <- TextQueries
  MaxNesting = 2
  RecursionLimit = 12
  BadFacets = {"coffee"}
  BadPatterns = {"["}
  Words <- MCWords
  Rank <- MCRank
  NotFinite = NotFinite
SPECIFICATION QuerySpec
CHECK_DEADLOCK FALSE
INVARIANTS
  KotlinIsUnderstood
  UnknownNamesFindNothing
  FilterSplits
  HalfOpenRangesTile
