SPECIFICATION Spec
CONSTANTS
  MaxObjects = 3
  Pool <- MCPool
  Inputs <- MCInputs
  Configs <- MCConfigs
  KeywordWords <- MCKeywordWords
INVARIANT CreatedServiceSelectsDeployment
\* Configure returns.
CHECK_DEADLOCK FALSE
