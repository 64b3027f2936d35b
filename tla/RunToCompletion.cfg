SPECIFICATION Spec
CONSTANTS
  Node <- MCNode
  NodeList <- MCNodeList
  Port <- MCPort
  RowPort <- MCPort
  Edges <- MCEdges
  Note = {"k"}
  Lane = {"b"}
  Owner <- MCOwner
  NoOwner = "none"
  Outcomes <- MCOutcomes
  Fallible = {"s", "m", "g"}
  Gate = {"g"}
  Unsafe = {"m"}
  PolicyTries <- MCTries
  MaxConcurrent = 2
  MaxPasses = 0
  MaxMinted = 8
  MaxCrashes = 1
INVARIANTS
  HeldWithinCap
  DriverRetryBudget
  ReportsTheRows
  StuckMeansCycle
PROPERTIES
  ImplementsDurableRun
CHECK_DEADLOCK FALSE
