SPECIFICATION FairSpec
CONSTANTS
  MaxDepth = 5
  MaxObjects = 3
  Invocations <- MCInvocations
  KeywordWords <- MCKeywordWords
  Expressions <- MCExpressions
  Malformed <- MCMalformed
  Run <- MCRun
INVARIANTS
  TypeOK
  FilterMeansItsExpressions
  AppliesFrontToBack
  KeptManifestsArrive
  GeneratedNamesAreUnique
  LeavesSurvive
  NothingEmptyIsWritten
PROPERTIES
  DeliversOrRefuses
  Ends
\* The program exits.
CHECK_DEADLOCK FALSE
