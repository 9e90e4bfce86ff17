\* An extraction commits to the bundle while it is queried.
CONSTANTS
  rule = rule  exc = exc  defn = defn  note = note  ghost = ghost
  NoCap = NoCap
  NodeId <- MCNodeId
  PackOverrides <- NoOverrides
  MinConfidence = 50
  Graphs <- MCGraphs
  SeedLists <- MCSeedLists
  MaxIterations = 5
  Writes <- MCWrites
  MaxCommits = 2
  IdOrder <- MCIdOrder
  Damping = 60
  Rankings <- MCRankings
  Letters <- MCLetters
  Passages <- MCPassages
  Lexicons <- MCLexicons
  PassageOf <- MCPassageOf
SPECIFICATION MCSpec
INVARIANTS OldEdgesAreHonoured Guarantee FusionKeepsAgreement GlossesAnnotate
PROPERTY IsAccepted
\* A query ends.
CHECK_DEADLOCK FALSE
