SPECIFICATION Spec
CONSTANTS
  Undeclared = Undeclared
  NoKind = NoKind
  NoCatalogue = NoCatalogue
  NoExecutor = NoExecutor
  NoId = NoId
  Malformed = Malformed
  NotOpen = NotOpen
  HostKinds <- MCHostKinds
  HostBinds <- MCHostBinds
  Executor = {"pausing"}
  Documents <- MCDocuments
  MaxCalls = 5
INVARIANTS
  OverrideReachesEveryNode
  
  
  RoundTrips
  
CHECK_DEADLOCK FALSE
