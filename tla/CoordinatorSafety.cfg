SPECIFICATION FairSpec
CONSTANTS
  Node <- ShiftNode
  NodeList <- ShiftList
  Edges <- ShiftEdges
  Outcomes <- ShiftOutcomes
  PolicyTries <- ShiftTries
  Port <- MCPort
  RowPort <- MCPort
  Note = {"k"}
  Lane = {"b"}
  Fallible = {"s", "m"}
  Gate = {"t"}
  Unsafe = {"m"}
  Owner = {w1, w2}
  NoOwner = NoOwner
  Host = Host
  NoNode = NoNode
  MaxConcurrent = 2
  MaxCrashes = 2
  MaxQueued = 2
  MaxNow = 2
INVARIANTS
  OnlyReachedNodesRun
  OnlyDeadNodesSkipped
  EngineAgreesWithFrontier
  SkipsDiagnosedOnce
  HolderOwnsRow
  RetryBudget
  FailsAfterItsTries
  QuiescentMeansSettled
PROPERTIES
  ImplementsDurableRun
  SettledIsFinal
  RetryClockNeverMoves
  RunSettles
CHECK_DEADLOCK FALSE
