SPECIFICATION FairSpec
CONSTANTS
  Node <- MCNode
  NodeList <- MCNodeList
  Port <- MCPort
  RowPort <- MCPort
  Edges <- MCEdges
  Note = {"k"}
  Lane = {"b"}
  Owner <- MCOwner
  NoOwner = "none"
  Outcomes <- MCOutcomes
  Fallible = {"s", "m", "g"}
  Gate = {"g"}
  Unsafe = {"m"}
  PolicyTries <- MCTries
  MaxConcurrent = 2
  MaxPasses = 0
  MaxMinted = 8
  MaxCrashes = 1
PROPERTY
  DriverSettles
CHECK_DEADLOCK FALSE
