SPECIFICATION FairSpec
CONSTANTS
  MaxObjects = 4
  Pool <- MCPool
  Inputs <- MCInputs
  Configs <- MCConfigs
  KeywordWords <- MCKeywordWords
INVARIANTS
  TypeOK
  CertificateChain
  OncePerService
  FirstWebhookSetsPort
  SecretIsMounted
  NothingLost
PROPERTIES
  KeepsPromise
  Ends
\* Configure returns.
CHECK_DEADLOCK FALSE
