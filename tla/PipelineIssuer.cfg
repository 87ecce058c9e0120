SPECIFICATION Spec
CONSTANTS
  MaxDepth = 5
  MaxObjects = 0
  Invocations <- OperatorInvocations
  KeywordWords <- MCKeywordWords
  Expressions <- MCExpressions
  Malformed <- MCMalformed
  Run <- MCRun
INVARIANT GeneratedIssuerIsSelfSigned
\* The program exits.
CHECK_DEADLOCK FALSE
