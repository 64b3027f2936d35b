SPECIFICATION Spec
CONSTANTS
  Node <- MCNode
  NodeList <- MCNodeList
  Port <- MCPort
  RowPort <- MCPort
  Edges <- MCEdges
  Note = {"k"}
  Lane = {"l"}
  Owner = {"w"}
  NoOwner = "none"
  Starts <- MCStarts
  Outcomes <- MCOutcomes
  Possible <- MCPossible
  Fallible = {"c", "u"}
INVARIANTS
  OkMeansDecided
  VerdictIsTheRows
  WalkAgreesWithFrontier
  WarningsAgree
PROPERTIES
  NothingStartsAfterStop
  ImplementsDurableRun
CHECK_DEADLOCK FALSE
