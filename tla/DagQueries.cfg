CONSTANTS
  Vertex <- MCVertex
  Graphs <- AllGraphs
  GraphsOf <- MCGraphsOf
  Idle = Idle
  Fake = Fake
  NoLimit = NoLimit
  Source = {1}
  Target = {1, 2}
  MaxDistances <- Limits
  MaxElements <- Limits
SPECIFICATION QueriesSpec
INVARIANTS
  CycleDiagnosed
  ResultIsShortest
  ContextExact
  PruneKeepsView
CHECK_DEADLOCK FALSE
