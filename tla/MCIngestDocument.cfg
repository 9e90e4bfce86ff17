\* One document through parsing, lexicon, edges, merging and planning.
CONSTANTS
  Texts <- MCPlanTexts
  Content <- MCContent
  Says <- MCSays
  Term <- MCTerm
  NoTerm = "none"
  Means <- MCMeans
  Uses <- MCUses
  NodeId <- MCNodeId
  NoCap = NoCap
  PackOverrides <- NoOverrides
  MinConfidence = 0
  MaxChars <- MCMaxChars
  Chars <- MCChars
  Gated <- MCGated
  Reaches <- MCReaches
SPECIFICATION CSpec
INVARIANTS NodesTile ParentEncloses EdgeIdsAreUnique FootnotesStayOut CitationsStayHome
INVARIANTS WindowsTile WindowsAreSections ConflictsAreTwoCycles ActWideClaimsCompete
\* The document is planned or halted for review.
CHECK_DEADLOCK FALSE
