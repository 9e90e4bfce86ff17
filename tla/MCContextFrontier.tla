-------------------------- MODULE MCContextFrontier --------------------------
(***************************************************************************)
(* Six nodes, one or two of them given, an id that is none, and every      *)
(* subset of a pool of edges: near and far neighbours of unlike relevance, *)
(* a second way to a node, an equal score, a weak edge, edges of a kind    *)
(* that context expansion must not walk, a chain and a hub.                *)
(***************************************************************************)
EXTENDS ContextFrontier

CONSTANTS rule, near, far, next, twin, last, ghost

MCNodeId == {rule, near, far, next, twin, last, ghost}
NoOverrides == [t \in {} |-> ClosureDefault]

E(s, t, d, c, x) ==
  [src |-> s, type |-> t, dst |-> d, confidence |-> c, cross_doc |-> x]

Pool ==
  {E(rule, "elaborates", near, 100, FALSE), E(near, "elaborates", far, 100, FALSE),
   E(far, "elaborates", next, 100, FALSE), E(rule, "cites", far, 100, TRUE),
   E(rule, "elaborates", twin, 100, FALSE), E(twin, "contradicts", next, 50, FALSE),
   E(twin, "similar_to", far, 100, FALSE), E(next, "exception_of", near, 100, FALSE),
   E(rule, "supports", next, 40, FALSE), E(twin, "is_a", ghost, 100, FALSE),
   E(near, "elaborates", last, 100, FALSE), E(last, "contradicts", rule, 100, FALSE)}

MCGraphs == {[nodes |-> MCNodeId \ {ghost}, edges |-> es] : es \in SUBSET Pool}
MCBases == {{rule}, {rule, twin}, {ghost, far}}

MCTokens ==
  [n \in MCNodeId |-> CASE n = near -> 2 [] n = far -> 3 [] OTHER -> 1]
MCKeys ==
  [n \in MCNodeId |-> CASE n \in {rule, twin} -> {1} [] n \in {near, last} -> {2}
                        [] OTHER -> {1, 3}]
MCRelevance ==
  [n \in MCNodeId |-> CASE n = far -> 3 [] n = next -> 2 [] OTHER -> 1]
=============================================================================
