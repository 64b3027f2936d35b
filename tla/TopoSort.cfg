SPECIFICATION FairSpec
CONSTANTS
  Id <- MCId
  Documents <- MCDocuments
  MaxWaiting = 5
INVARIANTS
  OrdersExactlyTheRunnable
  SourcesComeFirst
PROPERTIES
  SortEnds
CHECK_DEADLOCK FALSE
