\* What the verdict says of nodes other than the seeds.
CONSTANTS
  rule = rule  exc = exc  defn = defn  note = note  ghost = ghost
  NoCap = NoCap
  NodeId <- MCNodeId
  PackOverrides <- NoOverrides
  MinConfidence = 50
  Graphs <- MCGraphs
  SeedLists <- MCSeedLists
  MaxIterations = 5
  Writes <- MCWrites
  MaxCommits = 0
  IdOrder <- MCIdOrder
  Damping = 60
  Rankings <- MCRankings
  Letters <- MCLetters
  Passages <- MCPassages
  Lexicons <- MCLexicons
  PassageOf <- MCPassageOf
SPECIFICATION MCSpec
INVARIANT NoKnownExceptionOmitted
\* A query ends.
CHECK_DEADLOCK FALSE
