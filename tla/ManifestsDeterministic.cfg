SPECIFICATION Spec
CONSTANTS
  MaxPermissions = 2
  MaxRuns = 2
  Bundles <- MCBundles
  Namespaces <- MCNamespaces
  HashWords <- MCHashWords
  VersionWords <- MCVersionWords
  CountWord <- MCCountWord
INVARIANT NamesAreDeterministic
\* The command returns.
CHECK_DEADLOCK FALSE
