-------------------------- MODULE ContextFrontier --------------------------
(***************************************************************************)
(* One call of context_frontier (src/dge/traversal/expand.py): best-first  *)
(* expansion over the edges that are not closure edges, from the nodes     *)
(* that seeding and closure brought in, until the heap is empty, the token *)
(* budget is hit or the last arrivals add no new content key.              *)
(*                                                                         *)
(* Scores are integers: the prior in tenths, confidence and the degree     *)
(* weight in hundredths.  Entries of the heap that the same push_neighbors *)
(* call made share a tick, since the order of an index is not promised;    *)
(* so do all entries of the first round, which iterates over a Python set. *)
(***************************************************************************)
EXTENDS EdgePolicy, Sequences, FiniteSets, FiniteSetsExt

CONSTANTS
  Graphs,             \* the graphs a call may be given
  Bases,              \* the sets of ids it may be given as already included
  Tokens,             \* id -> estimate_tokens of its assembled text
  Keys,               \* id -> its content keys (default_key_extractor)
  Relevance,          \* id -> query_relevance, a small integer
  MaxTokens,          \* budget.max_tokens
  MinEdgeConfidence,  \* budget.min_edge_confidence
  SaturationWindow    \* budget.saturation_window

ASSUME TokensAssumption == Tokens \in [NodeId -> Nat \ {0}]
ASSUME BudgetAssumption ==
  /\ MaxTokens \in Nat
  /\ MinEdgeConfidence \in Confidence
  /\ SaturationWindow \in Nat
ASSUME TextAssumption ==
  /\ Relevance \in [NodeId -> Int]
  /\ \A n \in NodeId : IsFiniteSet(Keys[n])
ASSUME GraphAssumption ==
  /\ Graphs \subseteq Graph /\ Bases \subseteq SUBSET NodeId
  /\ \A g \in Graphs : IsFiniteSet(g.nodes) /\ IsFiniteSet(g.edges)

VARIABLES
  graph,     \* the graph the call reads
  base,      \* seeds and already_included
  pc,        \* "expand", then stopped_because
  included,  \* base and what was added
  arrivals,  \* added id -> hops at which it was added
  tokens,    \* tokens_used
  seen,      \* content keys of what is included
  fresh,     \* new_keys_per_arrival
  heap,      \* entries not yet popped
  tick       \* push_neighbors calls so far

vars == <<graph, base, pc, included, arrivals, tokens, seen, fresh, heap, tick>>

-----------------------------------------------------------------------------
(* frontier_score *)

Decay == <<70, 49, 34, 24>>   \* hop_decay ^ hops, in hundredths

\* 1 / log1p(1 + degree) in hundredths; a ninth edge and on weighs the same.
DegreeWeight == <<91, 72, 62, 56, 51, 48, 46, 43, 42>>

Degree(g, n) == Cardinality({e \in g.edges : e.src = n})
              + Cardinality({e \in g.edges : e.dst = n})

Score(g, h, hops) ==
  LET d == Degree(g, h.node) IN
  ResolvePolicy(h.edge.type).prior * Relevance[h.node]
    * Decay[IF hops > 4 THEN 4 ELSE hops]
    * DegreeWeight[IF d > 9 THEN 9 ELSE d]
    * (IF h.edge.cross_doc THEN 2 ELSE 5)
    * h.edge.confidence

\* Mutant: an unknown id or an edge under the threshold is pushed all the same.
CandidatesUnfiltered(g, in, m, hops, t) ==
  {[score |-> Score(g, h, hops + 1), tick |-> t, node |-> h.node, edge |-> h.edge,
    hops |-> hops + 1] :
     h \in {k \in ContextHops(g, m) :
              /\ k.node \notin in
              /\ k.node \in g.nodes
              /\ WithinCap(k.edge.type, hops + 1)}}

\* What push_neighbors(m, hops) puts on the heap.
Candidates(g, in, m, hops, t) ==
  {[score |-> Score(g, h, hops + 1), tick |-> t, node |-> h.node, edge |-> h.edge,
    hops |-> hops + 1] :
     h \in {k \in ContextHops(g, m) :
              /\ k.node \notin in
              /\ k.node \in g.nodes
              /\ WithinCap(k.edge.type, hops + 1)
              /\ k.edge.confidence >= MinEdgeConfidence}}

-----------------------------------------------------------------------------
Cost(S) == MapThenSumSet(LAMBDA n : Tokens[n], S)

Init ==
  /\ graph \in Graphs
  /\ base \in Bases
  /\ pc = "expand"
  /\ included = base
  /\ arrivals = [n \in {} |-> 0]
  /\ tokens = Cost(base \cap graph.nodes)
  /\ seen = UNION {Keys[n] : n \in base \cap graph.nodes}
  /\ fresh = <<>>
  /\ heap = UNION {Candidates(graph, base, m, 0, 0) : m \in base}
  /\ tick = 0

\* Mutant: the heap orders by the score itself, so the worst comes first.
WorstFirst(x) ==
  x \in heap /\ \A y \in heap : y.score > x.score \/ (y.score = x.score /\ x.tick <= y.tick)

\* The heap's next entry: the highest score, then the oldest.
First(x) ==
  x \in heap /\ \A y \in heap : y.score < x.score \/ (y.score = x.score /\ x.tick <= y.tick)

\* Mutant: a stale entry stays on the heap.
PopStaleKept(x) == x.node \in included /\ UNCHANGED vars

\* The node came in through another entry meanwhile.
PopStale(x) ==
  /\ x.node \in included
  /\ heap' = heap \ {x}
  /\ UNCHANGED <<graph, base, pc, included, arrivals, tokens, seen, fresh, tick>>

\* Mutant: the budget is tested before the node's cost is added.
FitsBefore(n) == tokens <= MaxTokens

Fits(n) == tokens + Tokens[n] <= MaxTokens

StopAtBudget(x) ==
  /\ x.node \notin included
  /\ ~Fits(x.node)
  /\ pc' = "budget"
  /\ heap' = heap \ {x}
  /\ UNCHANGED <<graph, base, included, arrivals, tokens, seen, fresh, tick>>

\* The last `SaturationWindow` entries; a window of 0 is the Python slice
\* [-0:], the whole list.
Recent(s) ==
  IF SaturationWindow = 0 THEN s
  ELSE SubSeq(s, Len(s) - SaturationWindow + 1, Len(s))

\* is_saturated: the counts are not negative, so their sum is 0 iff all are.
Saturated(s) ==
  /\ Len(s) >= SaturationWindow
  /\ \A i \in 1..Len(Recent(s)) : Recent(s)[i] = 0

\* Mutant: what a context node leads to is not pushed.
TakeOneHop(x) ==
  /\ x.node \notin included
  /\ Fits(x.node)
  /\ included' = included \cup {x.node}
  /\ arrivals' = [n \in DOMAIN arrivals \cup {x.node} |->
                    IF n = x.node THEN x.hops ELSE arrivals[n]]
  /\ tokens' = tokens + Tokens[x.node]
  /\ fresh' = Append(fresh, Cardinality(Keys[x.node] \ seen))
  /\ seen' = seen \cup Keys[x.node]
  /\ heap' = heap \ {x}
  /\ IF Saturated(fresh')
     THEN pc' = "saturated" /\ UNCHANGED tick
     ELSE tick' = tick + 1 /\ UNCHANGED pc
  /\ UNCHANGED <<graph, base>>

Take(x) ==
  /\ x.node \notin included
  /\ Fits(x.node)
  /\ included' = included \cup {x.node}
  /\ arrivals' = [n \in DOMAIN arrivals \cup {x.node} |->
                    IF n = x.node THEN x.hops ELSE arrivals[n]]
  /\ tokens' = tokens + Tokens[x.node]
  /\ fresh' = Append(fresh, Cardinality(Keys[x.node] \ seen))
  /\ seen' = seen \cup Keys[x.node]
  /\ IF Saturated(fresh')
     THEN /\ pc' = "saturated"
          /\ heap' = heap \ {x}
          /\ UNCHANGED tick
     ELSE /\ tick' = tick + 1
          /\ heap' = (heap \ {x})
                     \cup Candidates(graph, included', x.node, x.hops, tick')
          /\ UNCHANGED pc
  /\ UNCHANGED <<graph, base>>

Exhaust ==
  /\ pc = "expand" /\ heap = {}
  /\ pc' = "frontier_empty"
  /\ UNCHANGED <<graph, base, included, arrivals, tokens, seen, fresh, heap, tick>>

Next ==
  \/ \E x \in heap :
       pc = "expand" /\ First(x) /\ (PopStale(x) \/ StopAtBudget(x) \/ Take(x))
  \/ Exhaust

Spec == Init /\ [][Next]_vars /\ WF_vars(Next)
-----------------------------------------------------------------------------
\* Closure is never cut for context's sake, and context only gets what is left:
\* the count is the cost of everything in the context, and context has added
\* something only if all of it fits.
BudgetIsOfTheWhole ==
  /\ tokens = Cost(included \cap graph.nodes)
  /\ DOMAIN arrivals # {} => tokens <= MaxTokens

Hops(m) == IF m \in DOMAIN arrivals THEN arrivals[m] ELSE 0

\* An admissible step of the expansion that is still open from an included node.
Open(m) == Candidates(graph, included, m, Hops(m), 0)

\* The stop_reason is true.  A dry frontier means that no included node, at the
\* hops at which it came in, still leads to one that is not included; a spent
\* budget, that some admissible node is too dear, none that scores higher being
\* left; saturation, that each of the last window of arrivals brought no key that
\* was not in the context without those arrivals.
StopsForCause ==
  /\ pc = "frontier_empty" => \A m \in included : Open(m) = {}
  /\ pc = "budget" =>
       \E m \in included : \E x \in Open(m) :
         /\ tokens + Tokens[x.node] > MaxTokens
         /\ \A k \in included : \A y \in Open(k) : y.score <= x.score
  /\ pc = "saturated" =>
       \E S \in SUBSET DOMAIN arrivals :
         /\ Cardinality(S) = SaturationWindow
         /\ UNION {Keys[n] : n \in S}
              \subseteq UNION {Keys[n] : n \in (included \ S) \cap graph.nodes}

\* Best first: what is added scores at least as high as every admissible
\* neighbour of every included node, near or far.
BestFirst ==
  [][ \A n \in included' \ included :
        \E x \in heap : x.node = n /\
          \A m \in included : \A y \in Open(m) : y.score <= x.score ]_vars

\* The expansion ends.
Stops == <>(pc # "expand")

Promise == INSTANCE ContextPromise WITH open <- (pc = "expand")

\* Context expansion keeps its promise.
KeepsPromise == [][Promise!Next]_(Promise!vars)
=============================================================================
