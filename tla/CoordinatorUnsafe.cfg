SPECIFICATION Spec
CONSTANTS
  Node <- ShiftNode
  NodeList <- ShiftList
  Edges <- ShiftEdges
  Outcomes <- ShiftOutcomes
  PolicyTries <- ShiftTries
  Port <- MCPort
  RowPort <- MCPort
  Note = {"k"}
  Lane = {"b"}
  Fallible = {"s", "m"}
  Gate = {"t"}
  Unsafe = {"m"}
  Owner = {w1, w2}
  NoOwner = NoOwner
  Host = Host
  NoNode = NoNode
  MaxConcurrent = 0
  MaxCrashes = 1
  MaxQueued = 1
  MaxNow = 1
SYMMETRY Tokens
INVARIANT
  UnsafeRunsOnce
CHECK_DEADLOCK FALSE
