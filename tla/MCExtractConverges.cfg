\* A second run that hears the same answers.
CONSTANTS
  rule = rule  exc = exc  defn = defn  term = term  p1 = p1  p2 = p2
  NodeId <- MCNodeId
  Windows <- MCWindows
  WindowText <- MCWindowText
  Char <- MCChar
  Space <- MCSpace
  Blank = " "
  Stripped <- MCStripped
  Folded <- MCFolded
  MinChars = 2
  Probes <- MCProbes
  Ingests <- MCIngests
  Proc = {p1}
  Responses <- MCResponses
  Steady = TRUE
  MaxRuns = 2
SPECIFICATION PCalmSpec
PROPERTIES RerunConverges
\* The runs are bounded.
CHECK_DEADLOCK FALSE
