SPECIFICATION Spec
CONSTANTS
  MaxPermissions = 2
  MaxRuns = 1
  Bundles <- MCBundles
  Namespaces <- MCNamespaces
  HashWords <- MCHashWords
  VersionWords <- MCVersionWords
  CountWord <- MCCountWord
INVARIANT NamesAreUnique
\* The command returns.
CHECK_DEADLOCK FALSE
