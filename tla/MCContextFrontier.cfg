\* A budget that some expansions exhaust and a saturation window of two.
CONSTANTS
  rule = rule  near = near  far = far  next = next  twin = twin  last = last  ghost = ghost
  NoCap = NoCap
  NodeId <- MCNodeId
  PackOverrides <- NoOverrides
  MinConfidence = 0
  Graphs <- MCGraphs
  Bases <- MCBases
  Tokens <- MCTokens
  Keys <- MCKeys
  Relevance <- MCRelevance
  MaxTokens = 8
  MinEdgeConfidence = 50
  SaturationWindow = 2
SPECIFICATION Spec
INVARIANTS BudgetIsOfTheWhole StopsForCause
PROPERTIES BestFirst Stops KeepsPromise
\* A call ends.
CHECK_DEADLOCK FALSE
