--------------------------- MODULE ClosurePromise ---------------------------
(***************************************************************************)
(* What closure expansion promises the rest of the system, without saying  *)
(* how it walks: starting from the seeds it collects nodes, each a         *)
(* neighbour over a closure edge of one already collected, and what it     *)
(* returns is a set that no unbounded closure edge leaves.                 *)
(*                                                                         *)
(* The iteration cap may cut the walk short, and the result then looks as  *)
(* any other: ClosureResult says nothing of it.  What a caller can rely on *)
(* is only that a result of no more ids than the cap is a closed one.      *)
(***************************************************************************)
EXTENDS EdgePolicy, FiniteSets

CONSTANTS
  Graphs, SeedSets,   \* the graphs and seed sets a call may be given
  MaxIterations       \* the iteration cap

VARIABLES
  graph,     \* the graph the call reads
  seeds,     \* the seed ids
  reached,   \* the ids collected so far
  status     \* "running" or "returned"

vars == <<graph, seeds, reached, status>>

\* No unbounded closure edge that is confident enough leads out of S.
ClosedSet(S) ==
  \A m \in S : \A h \in Followed(graph, m) :
    /\ ResolvePolicy(h.edge.type).max_hops = NoCap
    /\ h.node \in graph.nodes
    => h.node \in S

Init ==
  /\ graph \in Graphs
  /\ seeds \in SeedSets
  /\ reached = seeds
  /\ status = "running"

Collect ==
  /\ status = "running"
  /\ \E m \in reached : \E h \in Followed(graph, m) :
       /\ h.node \in graph.nodes
       /\ reached' = reached \cup {h.node}
  /\ UNCHANGED <<graph, seeds, status>>

Deliver ==
  /\ status = "running"
  /\ Cardinality(reached) <= MaxIterations => ClosedSet(reached)
  /\ status' = "returned"
  /\ UNCHANGED <<graph, seeds, reached>>

Next == Collect \/ Deliver

Spec == Init /\ [][Next]_vars
=============================================================================
