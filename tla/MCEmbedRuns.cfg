\* A batching embedder, or a contextual one in one or two processes; failures and
\* re-ingests.
CONSTANTS
  n1 = n1  n2 = n2  n3 = n3  m1 = m1  e1 = e1  s1 = s1
  contextual = contextual  local = local  c1 = c1  c2 = c2  l1 = l1
  Node <- MCNode
  Cut <- MCCut
  Confident <- MCConfident
  Unreadable = "gone"
  Batches <- MCBatches
  MaxIngests = 3
  MaxTroubles = 3
  Model <- MCModel
  MaxBatch <- MCMaxBatch
  Process <- MCProcess
  EmbedderOf <- MCEmbedderOf
  Deployments <- MCDeployments
SPECIFICATION MCSpec
INVARIANTS BundleIsBatch PaidOnce SameAsFromScratch
PROPERTIES OldBundleKept AllEmbedded
\* An ingest that died may leave a bundle nobody can work on.
CHECK_DEADLOCK FALSE
