SPECIFICATION FairSpec
CONSTANTS
  MaxPermissions = 2
  MaxRuns = 2
  Bundles <- MCBundles
  Namespaces <- MCNamespaces
  HashWords <- MCHashWords
  VersionWords <- MCVersionWords
  CountWord <- MCCountWord
INVARIANTS
  TypeOK
  GrantsPreserved
  ReferencesPrecede
  NoGeneratedNames
  EveryManifestOnce
  ConversionIsServed
PROPERTIES
  Ends
\* The command returns.
CHECK_DEADLOCK FALSE
