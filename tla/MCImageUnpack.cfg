SPECIFICATION FairSpec
CONSTANTS
  MaxLayers = 3
  Images <- MCImages
  PrefixSets <- MCPrefixSets
  Hides <- MCHides
  Privileged = FALSE
INVARIANTS
  TypeOK
  CompleteOrExhausted
  OnlyRelevantLayers
  OldestExtractedWins
  FilesAreWhole
PROPERTIES
  Ends
\* The extraction returns.
CHECK_DEADLOCK FALSE
