SPECIFICATION Spec
CONSTANTS
  MaxLayers = 2
  Images <- MCImages
  PrefixSets <- MCPrefixSets
  Hides <- MCHides
  Privileged = FALSE
INVARIANT SameAsImage
\* The extraction returns.
CHECK_DEADLOCK FALSE
