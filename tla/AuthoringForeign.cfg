SPECIFICATION Spec
CONSTANTS
  Undeclared = Undeclared
  NoKind = NoKind
  NoCatalogue = NoCatalogue
  NoExecutor = NoExecutor
  NoId = NoId
  Malformed = Malformed
  NotOpen = NotOpen
  HostKinds <- MCHostKinds
  HostBinds <- MCForeignBinds
  Executor = {"pausing"}
  Documents <- MCDocuments
  MaxCalls = 4
PROPERTY
  UnknownKindsStayLiteral
CHECK_DEADLOCK FALSE
