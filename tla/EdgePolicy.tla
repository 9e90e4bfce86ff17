----------------------------- MODULE EdgePolicy -----------------------------
(***************************************************************************)
(* The typed edges of the document graph, the per-type traversal policy    *)
(* (src/dge/traversal/policy.py) and the one-hop neighbour functions that  *)
(* traversal and the soundness check share (src/dge/traversal/expand.py).  *)
(*                                                                         *)
(* A graph is a record of the set of node ids that get_node finds and the  *)
(* set of edges.  An edge may name an id that is not a node: the bundle's  *)
(* edges table has no foreign key that is enforced.  Confidences are the   *)
(* code's floats in hundredths.                                            *)
(***************************************************************************)
EXTENDS Naturals

CONSTANTS
  NodeId,          \* every id a node or an end of an edge may have
  NoCap,           \* max_hops = None
  PackOverrides,   \* a domain pack's policies: a function on some edge types
  MinConfidence    \* min_closure_confidence of the query

-----------------------------------------------------------------------------
ClosureType == {"exception_of", "supersedes", "amends", "conditioned_on",
                "defines"}

ContextType == {"elaborates", "exemplifies", "supports", "contradicts",
                "cites", "similar_to", "part_of", "abbreviation_of",
                "variant_of", "synonym_of", "is_a", "possibly_same_as"}

EdgeType == ClosureType \cup ContextType

Confidence == 0..100

Edge == [src : NodeId, dst : NodeId, type : EdgeType,
         confidence : Confidence, cross_doc : BOOLEAN]

Graph == [nodes : SUBSET NodeId, edges : SUBSET Edge]

Direction == {"forward", "reverse", "both", "none"}

\* The prior is in tenths.
Policy == [direction : Direction, prior : Nat, max_hops : Nat \cup {NoCap},
           mandatory : BOOLEAN]

ASSUME NoCapAssumption == NoCap \notin Nat
ASSUME MinConfidenceAssumption == MinConfidence \in Confidence
ASSUME OverridesAssumption ==
  /\ DOMAIN PackOverrides \subseteq EdgeType
  /\ \A t \in DOMAIN PackOverrides : PackOverrides[t] \in Policy

-----------------------------------------------------------------------------
Rule(direction, prior, cap, must) ==
  [direction |-> direction, prior |-> prior, max_hops |-> cap,
   mandatory |-> must]

DefaultPolicy ==
  [exception_of     |-> Rule("reverse", 10, NoCap, TRUE),
   supersedes       |-> Rule("reverse", 10, NoCap, TRUE),
   amends           |-> Rule("reverse", 10, NoCap, TRUE),
   conditioned_on   |-> Rule("forward", 10, NoCap, TRUE),
   defines          |-> Rule("forward", 9, 2, FALSE),
   elaborates       |-> Rule("forward", 5, 2, FALSE),
   exemplifies      |-> Rule("forward", 3, 1, FALSE),
   supports         |-> Rule("forward", 3, 1, FALSE),
   contradicts      |-> Rule("both", 6, 1, FALSE),
   cites            |-> Rule("forward", 4, 1, FALSE),
   part_of          |-> Rule("forward", 4, 1, FALSE),
   similar_to       |-> Rule("none", 0, 0, FALSE),
   possibly_same_as |-> Rule("both", 2, 1, FALSE)]

ClosureDefault == Rule("reverse", 10, NoCap, TRUE)
ContextDefault == Rule("forward", 4, 1, FALSE)

\* Policy of an edge type: the pack's, else the table's, else the default of
\* the type's class.
ResolvePolicy(t) ==
  CASE t \in DOMAIN PackOverrides -> PackOverrides[t]
    [] t \notin DOMAIN PackOverrides /\ t \in DOMAIN DefaultPolicy
         -> DefaultPolicy[t]
    [] OTHER -> IF t \in ClosureType THEN ClosureDefault ELSE ContextDefault

\* May an edge of this type be the hops-th edge of a walk?
WithinCap(t, hops) ==
  LET cap == ResolvePolicy(t).max_hops IN cap # NoCap => hops <= cap

-----------------------------------------------------------------------------
\* A hop from a node: the edge, the node at its other end, and the index that
\* found it ("reverse" is graph.incoming, "forward" is graph.outgoing).
Hop == [edge : Edge, node : NodeId, dir : {"forward", "reverse"}]

Wanted(t, dir) == ResolvePolicy(t).direction \in {dir, "both"}

IncomingHops(g, m, types) ==
  {[edge |-> e, node |-> e.src, dir |-> "reverse"] :
     e \in {x \in g.edges : /\ x.dst = m
                            /\ x.type \in types
                            /\ Wanted(x.type, "reverse")}}

OutgoingHops(g, m, types) ==
  {[edge |-> e, node |-> e.dst, dir |-> "forward"] :
     e \in {x \in g.edges : /\ x.src = m
                            /\ x.type \in types
                            /\ Wanted(x.type, "forward")}}

\* The closure edges that closure_neighbors considers from m ...
ClosureHops(g, m) ==
  IncomingHops(g, m, ClosureType) \cup OutgoingHops(g, m, ClosureType)

\* ... those it returns to be followed ...
Followed(g, m) ==
  {h \in ClosureHops(g, m) : h.edge.confidence >= MinConfidence}

\* ... and those it returns as skipped.
SkippedLow(g, m) ==
  {h \in ClosureHops(g, m) : h.edge.confidence < MinConfidence}

\* The edges of every other class that context_frontier may walk from m.
ContextHops(g, m) ==
  IncomingHops(g, m, ContextType) \cup OutgoingHops(g, m, ContextType)
=============================================================================
