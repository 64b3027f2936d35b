SPECIFICATION FairSpec
CONSTANTS
  Node <- MCNode
  Port <- MCPort
  RowPort <- MCPort
  NodeList <- MCNodeList
  Edges <- MCEdges
  Note = {"n"}
  Lane = {}
  Owner = {"w"}
  NoOwner = "none"
  RowStates <- MCRowStates
INVARIANTS
  ComputesFixpoint
  CascadeOrder
PROPERTIES
  Terminates
CHECK_DEADLOCK FALSE
