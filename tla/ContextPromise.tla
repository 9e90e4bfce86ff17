--------------------------- MODULE ContextPromise ---------------------------
(***************************************************************************)
(* What context expansion promises: it adds nodes to those it was given,   *)
(* each over a context edge of a node already in, until it stops; and it   *)
(* never adds one that takes the whole past the token budget.              *)
(***************************************************************************)
EXTENDS EdgePolicy

CONSTANTS
  Tokens,            \* id -> estimate_tokens of its assembled text
  MaxTokens,         \* budget.max_tokens
  MinEdgeConfidence  \* budget.min_edge_confidence

VARIABLES
  graph,      \* the graph the call reads
  included,   \* ids in the context so far
  tokens,     \* what they cost
  open        \* TRUE until the expansion stops

vars == <<graph, included, tokens, open>>

Add ==
  /\ open
  /\ \E m \in included : \E h \in ContextHops(graph, m) :
       /\ h.edge.confidence >= MinEdgeConfidence
       /\ h.node \in graph.nodes \ included
       /\ tokens + Tokens[h.node] <= MaxTokens
       /\ included' = included \cup {h.node}
       /\ tokens' = tokens + Tokens[h.node]
       /\ open' \in {TRUE, FALSE}   \* the addition may be the last
  /\ UNCHANGED graph

Stop ==
  /\ open
  /\ open' = FALSE
  /\ UNCHANGED <<graph, included, tokens>>

Next == Add \/ Stop
=============================================================================
