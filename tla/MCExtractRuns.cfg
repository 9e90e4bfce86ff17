\* Two processes, three runs: they extract from the same bundle.
CONSTANTS
  rule = rule  exc = exc  defn = defn  term = term  p1 = p1  p2 = p2
  NodeId <- MCNodeId
  Windows <- MCWindows
  WindowText <- MCWindowText
  Char <- MCChar
  Space <- MCSpace
  Blank = " "
  Stripped <- MCStripped
  Folded <- MCFolded
  MinChars = 2
  Probes <- MCProbes
  Ingests <- MCIngests
  Proc = {p1, p2}
  Responses <- MCResponses
  Steady = TRUE
  MaxRuns = 3
SPECIFICATION PSpec
INVARIANTS Grounded EvidenceIsExact StrongIsFinal NoDuplicateRelation
PROPERTIES JudgedByItsSection ConfirmationNeverWeakens
\* The runs are bounded.
CHECK_DEADLOCK FALSE
