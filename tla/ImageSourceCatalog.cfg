SPECIFICATION Spec
CONSTANTS
  p1 = p1
  p2 = p2
  Processes <- MCProcesses
  Requests <- MCRequests
  UserDirs <- MCUserDirs
  TempDirs <- MCTempDirs
  Catalogs <- MCCatalogs
INVARIANTS
  ResolvesAsDocumented
\* The invocations end.
CHECK_DEADLOCK FALSE
