\* A claim of the repository that the code does not keep; see README.
CONSTANTS
  Texts <- MCTexts
  Content <- MCContent
  Says <- MCSays
  Term <- MCTerm
  NoTerm = "none"
  Means <- MCMeans
  Uses <- MCUses
  NodeId <- MCNodeId
  NoCap = NoCap
  PackOverrides <- NoOverrides
  MinConfidence = 0
SPECIFICATION ESpec
INVARIANT PartOfIsTheParent
CHECK_DEADLOCK FALSE
