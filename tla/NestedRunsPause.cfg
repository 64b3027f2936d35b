SPECIFICATION FairSpec
CONSTANTS
  Node <- MCNode
  NodeList <- MCList
  Edges <- MCEdges
  Port <- MCPort
  RowPort <- MCPort
  Note = {}
  Lane = {"v"}
  Owner = {d}
  NoOwner = NoOwner
  NoNode = NoNode
  None = None
  GateId = {"g", "q", "h"}
  Inner <- MCInner
  Kind <- MCKind
  Outcomes <- MCOutcomes
  Fallible = {"b"}
  AutoAnswer = {}
  Prefilled = {"g"}
  Collects = {}
  Items <- MCItems
  MaxItems <- MCMaxItems
  Child <- MCChild
  NoGraph = NoGraph
  Spelled <- MCSpelled
  Tries <- MCTries
  Window = 2
  HardMaxItems = 10000
  MaxDepth = 8
  Driver = d
  MaxCrashes = 0
  Outage = 3
PROPERTIES
  PausedJobsPark
CHECK_DEADLOCK FALSE
