SPECIFICATION Spec
CONSTANTS
  Node <- FanNode
  NodeList <- FanList
  Edges <- FanEdges
  Outcomes <- FanOutcomes
  PolicyTries <- FanTries
  Port <- MCPort
  RowPort <- MCPort
  Note = {}
  Lane = {}
  Fallible = {}
  Gate = {}
  Unsafe = {}
  Owner = {w1, w2, w3}
  NoOwner = NoOwner
  Host = Host
  NoNode = NoNode
  MaxConcurrent = 2
  MaxCrashes = 0
  MaxQueued = 2
  MaxNow = 1
SYMMETRY Tokens
INVARIANT
  HeldWithinCap
CHECK_DEADLOCK FALSE
