\* Every graph of two pools.  The closures from <<ghost, lost, cond, rule>> that reach
\* all of the nodes outgrow the iteration cap.
CONSTANTS
  rule = rule  exc = exc  defn = defn  cond = cond  ghost = ghost  lost = lost
  NoCap = NoCap
  NodeId <- MCNodeId
  PackOverrides <- MCPack
  MinConfidence = 50
  Graphs <- MCGraphs
  SeedLists <- MCSeedLists
  MaxIterations = 4
SPECIFICATION FairSpec
INVARIANTS FixedPoint NothingDroppedSilently Justified ShortestArrivals
PROPERTIES KeepsPromise Completes
\* A call ends.
CHECK_DEADLOCK FALSE
