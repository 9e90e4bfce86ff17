------------------------ MODULE ContextFrontierProofs ------------------------
(***************************************************************************)
(* Proofs about context_frontier for every graph, every base, every        *)
(* policy, budget, threshold and window, and any texts and relevances.     *)
(***************************************************************************)
EXTENDS ContextFrontier, DataLemmas

-----------------------------------------------------------------------------
(* Types *)

TypeOK ==
  /\ graph \in Graph /\ IsFiniteSet(graph.nodes) /\ IsFiniteSet(graph.edges)
  /\ base \subseteq NodeId
  /\ DOMAIN arrivals \subseteq graph.nodes \ base
  /\ arrivals \in [DOMAIN arrivals -> Nat]
  /\ included = base \cup DOMAIN arrivals
  /\ fresh \in Seq(Nat)
  /\ tokens \in Nat

LEMMA PriorType == \A t \in EdgeType : ResolvePolicy(t).prior \in Int
<1>1. /\ Rule("reverse", 10, NoCap, TRUE).prior \in Int
      /\ Rule("forward", 10, NoCap, TRUE).prior \in Int
      /\ Rule("forward", 9, 2, FALSE).prior \in Int
      /\ Rule("forward", 5, 2, FALSE).prior \in Int
      /\ Rule("forward", 3, 1, FALSE).prior \in Int
      /\ Rule("both", 6, 1, FALSE).prior \in Int
      /\ Rule("forward", 4, 1, FALSE).prior \in Int
      /\ Rule("none", 0, 0, FALSE).prior \in Int
      /\ Rule("both", 2, 1, FALSE).prior \in Int
  BY DEF Rule
<1>2. ASSUME NEW t \in DOMAIN DefaultPolicy PROVE DefaultPolicy[t].prior \in Int
  <2>1. t \in {"exception_of", "supersedes", "amends", "conditioned_on", "defines",
               "elaborates", "exemplifies", "supports", "contradicts", "cites",
               "part_of", "similar_to", "possibly_same_as"}
    BY DEF DefaultPolicy
  <2>2. /\ DefaultPolicy["exception_of"].prior \in Int
        /\ DefaultPolicy["supersedes"].prior \in Int
        /\ DefaultPolicy["amends"].prior \in Int
        /\ DefaultPolicy["conditioned_on"].prior \in Int
        /\ DefaultPolicy["defines"].prior \in Int
        /\ DefaultPolicy["elaborates"].prior \in Int
        /\ DefaultPolicy["exemplifies"].prior \in Int
        /\ DefaultPolicy["supports"].prior \in Int
        /\ DefaultPolicy["contradicts"].prior \in Int
        /\ DefaultPolicy["cites"].prior \in Int
        /\ DefaultPolicy["part_of"].prior \in Int
        /\ DefaultPolicy["similar_to"].prior \in Int
        /\ DefaultPolicy["possibly_same_as"].prior \in Int
    BY <1>1 DEF DefaultPolicy
  <2>3. QED BY <2>1, <2>2
<1>3. ClosureDefault.prior \in Int /\ ContextDefault.prior \in Int
  BY DEF ClosureDefault, ContextDefault, Rule
<1>4. QED BY <1>2, <1>3, OverridesAssumption DEF ResolvePolicy, Policy

LEMMA ContextHopType ==
  ASSUME NEW g \in Graph, NEW m
  PROVE  \A h \in ContextHops(g, m) :
           /\ h.edge \in g.edges /\ h.edge \in Edge
           /\ h.node = h.edge.src \/ h.node = h.edge.dst
           /\ h.node \in NodeId
BY DEF ContextHops, IncomingHops, OutgoingHops, Graph, Edge

LEMMA ProductType == \A a, b \in Int : a * b \in Int
OBVIOUS

\* A node at an end of an edge has a degree the weights are defined for.
LEMMA DegreeType ==
  ASSUME NEW g \in Graph, IsFiniteSet(g.edges), NEW m, NEW h \in ContextHops(g, m)
  PROVE  Degree(g, h.node) \in Nat \ {0}
<1> DEFINE n == h.node
           S == {e \in g.edges : e.src = n}
           D == {e \in g.edges : e.dst = n}
<1>1. IsFiniteSet(S) /\ IsFiniteSet(D)
  BY FS_Subset
<1>2. Cardinality(S) \in Nat /\ Cardinality(D) \in Nat
  BY <1>1, FS_CardinalityType
<1>3. S # {} \/ D # {}
  BY ContextHopType
<1>4. Cardinality(S) # 0 \/ Cardinality(D) # 0
  BY <1>1, <1>3, FS_EmptySet
<1> HIDE DEF S, D
<1>5. Cardinality(S) + Cardinality(D) \in Nat \ {0}
  BY <1>2, <1>4
<1> QED BY <1>5 DEF Degree, S, D

LEMMA ScoreType ==
  ASSUME NEW g \in Graph, IsFiniteSet(g.edges), NEW m, NEW h \in ContextHops(g, m),
         NEW hops \in Nat, hops > 0
  PROVE  Score(g, h, hops) \in Int
<1> DEFINE p == ResolvePolicy(h.edge.type).prior
           r == Relevance[h.node]
           k == IF hops > 4 THEN 4 ELSE hops
           d == IF Degree(g, h.node) > 9 THEN 9 ELSE Degree(g, h.node)
           x == IF h.edge.cross_doc THEN 2 ELSE 5
           c == h.edge.confidence
<1>1. p \in Int /\ r \in Int /\ c \in Int /\ x \in Int
  <2>1. h.edge \in Edge /\ h.node \in NodeId
    BY ContextHopType
  <2>2. h.edge.type \in EdgeType /\ c \in Int
    BY <2>1 DEF Edge, Confidence
  <2> QED BY <2>1, <2>2, PriorType, TextAssumption
<1>2. Decay[k] \in Int
  <2>1. k \in 1..4
    OBVIOUS
  <2> HIDE DEF k
  <2> QED BY <2>1 DEF Decay
<1>3. DegreeWeight[d] \in Int
  <2>1. d \in 1..9
    BY DegreeType
  <2> HIDE DEF d
  <2> QED BY <2>1 DEF DegreeWeight
<1>4. Score(g, h, hops) = p * r * Decay[k] * DegreeWeight[d] * x * c
  BY DEF Score
<1> HIDE DEF p, r, k, d, x, c
<1>5. p * r \in Int
  BY <1>1, ProductType
<1>6. p * r * Decay[k] \in Int
  BY <1>2, <1>5, ProductType
<1>7. p * r * Decay[k] * DegreeWeight[d] \in Int
  BY <1>3, <1>6, ProductType
<1>8. p * r * Decay[k] * DegreeWeight[d] * x \in Int
  BY <1>1, <1>7, ProductType
<1>9. p * r * Decay[k] * DegreeWeight[d] * x * c \in Int
  BY <1>1, <1>8, ProductType
<1> QED BY <1>4, <1>9

-----------------------------------------------------------------------------
(* The heap *)

\* x is, but for its tick, what pushing an admissible hop of m makes.
Leads(m, x) ==
  \E h \in ContextHops(graph, m) :
    /\ h.node \in graph.nodes
    /\ WithinCap(h.edge.type, Hops(m) + 1)
    /\ h.edge.confidence >= MinEdgeConfidence
    /\ x.node = h.node /\ x.hops = Hops(m) + 1
    /\ x.score = Score(graph, h, Hops(m) + 1)

\* Same node, hops and score.
Like(x, y) == x.node = y.node /\ x.hops = y.hops /\ x.score = y.score

\* What is pushed, whatever the tick.
LEMMA CandidateIs ==
  ASSUME NEW g, NEW in, NEW m, NEW hops, NEW t
  PROVE  /\ \A y \in Candidates(g, in, m, hops, t) : \E h \in ContextHops(g, m) :
              /\ h.node \notin in /\ h.node \in g.nodes
              /\ WithinCap(h.edge.type, hops + 1)
              /\ h.edge.confidence >= MinEdgeConfidence
              /\ y.node = h.node /\ y.hops = hops + 1
              /\ y.score = Score(g, h, hops + 1)
         /\ \A h \in ContextHops(g, m) :
              /\ h.node \notin in /\ h.node \in g.nodes
              /\ WithinCap(h.edge.type, hops + 1)
              /\ h.edge.confidence >= MinEdgeConfidence
              => \E y \in Candidates(g, in, m, hops, t) :
                   /\ y.node = h.node /\ y.hops = hops + 1
                   /\ y.score = Score(g, h, hops + 1)
<1> DEFINE Entry(h) == [score |-> Score(g, h, hops + 1), tick |-> t, node |-> h.node,
                        edge |-> h.edge, hops |-> hops + 1]
           H == {k \in ContextHops(g, m) :
                   /\ k.node \notin in
                   /\ k.node \in g.nodes
                   /\ WithinCap(k.edge.type, hops + 1)
                   /\ k.edge.confidence >= MinEdgeConfidence}
<1>1. Candidates(g, in, m, hops, t) = {Entry(h) : h \in H}
  BY DEF Candidates
<1>2. \A h : /\ Entry(h).node = h.node /\ Entry(h).hops = hops + 1
             /\ Entry(h).score = Score(g, h, hops + 1)
  OBVIOUS
<1> HIDE DEF Entry
<1>3. QED BY <1>1, <1>2

LEMMA OpenIs ==
  ASSUME NEW m
  PROVE  /\ \A y \in Open(m) : Leads(m, y) /\ y.node \notin included
         /\ \A x : Leads(m, x) /\ x.node \notin included => \E y \in Open(m) : Like(x, y)
<1>1. \A y \in Open(m) : Leads(m, y) /\ y.node \notin included
  BY CandidateIs DEF Open, Leads
<1>2. ASSUME NEW x, Leads(m, x), x.node \notin included
      PROVE  \E y \in Open(m) : Like(x, y)
  <2>1. PICK h \in ContextHops(graph, m) :
          /\ h.node \in graph.nodes
          /\ WithinCap(h.edge.type, Hops(m) + 1)
          /\ h.edge.confidence >= MinEdgeConfidence
          /\ x.node = h.node /\ x.hops = Hops(m) + 1
          /\ x.score = Score(graph, h, Hops(m) + 1)
    BY <1>2 DEF Leads
  <2>2. PICK y \in Candidates(graph, included, m, Hops(m), 0) :
          /\ y.node = h.node /\ y.hops = Hops(m) + 1
          /\ y.score = Score(graph, h, Hops(m) + 1)
    BY <1>2, <2>1, CandidateIs
  <2> QED BY <2>1, <2>2 DEF Open, Like
<1> QED BY <1>1, <1>2

\* Every entry was pushed from an included node ...
HeapLeads == \A x \in heap : \E m \in included : Leads(m, x)

\* ... and while the expansion runs every open step has its entry.
HeapHolds ==
  pc = "expand" => \A m \in included : \A y \in Open(m) : \E x \in heap : Like(x, y)

LEMMA EntryType ==
  ASSUME TypeOK, NEW m \in included, NEW x, Leads(m, x)
  PROVE  /\ x.node \in graph.nodes /\ x.node \in NodeId
         /\ x.hops \in Nat \ {0} /\ x.score \in Int
<1>1. PICK h \in ContextHops(graph, m) :
        /\ h.node \in graph.nodes
        /\ x.node = h.node /\ x.hops = Hops(m) + 1
        /\ x.score = Score(graph, h, Hops(m) + 1)
  BY DEF Leads
<1>2. Hops(m) \in Nat
  BY DEF Hops, TypeOK
<1>3. Hops(m) + 1 \in Nat /\ Hops(m) + 1 > 0
  BY <1>2
<1>4. Score(graph, h, Hops(m) + 1) \in Int
  BY <1>3, ScoreType DEF TypeOK
<1> QED BY <1>1, <1>3, <1>4 DEF TypeOK, Graph

\* The heap's next entry beats every open step.
LEMMA FirstIsBest ==
  ASSUME TypeOK, HeapLeads, HeapHolds, pc = "expand", NEW x \in heap, First(x)
  PROVE  \A m \in included : \A y \in Open(m) : y.score <= x.score
<1> SUFFICES ASSUME NEW m \in included, NEW y \in Open(m) PROVE y.score <= x.score
  OBVIOUS
<1>1. PICK z \in heap : Like(z, y)
  BY DEF HeapHolds
<1>2. x.score \in Int /\ z.score \in Int
  BY EntryType DEF HeapLeads
<1>3. z.score < x.score \/ z.score = x.score
  BY DEF First
<1> QED BY <1>1, <1>2, <1>3 DEF Like

-----------------------------------------------------------------------------
(* The count *)

LEMMA CostAdds ==
  ASSUME NEW S, IsFiniteSet(S), S \subseteq NodeId, NEW n \in NodeId, n \notin S
  PROVE  /\ Cost(S) \in Nat
         /\ Cost(S \cup {n}) = Cost(S) + Tokens[n]
<1>1. \A T : Cost(T) = SumOf(Tokens, T)
  BY DEF Cost, SumOf
<1>2. \A k \in S \cup {n} : Tokens[k] \in Nat
  BY TokensAssumption
<1> QED BY <1>1, <1>2, SumAdds, SumType

Counted ==
  /\ tokens = Cost(included \cap graph.nodes)
  /\ DOMAIN arrivals # {} => tokens <= MaxTokens

-----------------------------------------------------------------------------
(* The inductive invariant *)

\* A stop is explained.
Explained ==
  /\ pc = "frontier_empty" => \A m \in included : Open(m) = {}
  /\ pc = "budget" =>
       \E m \in included : \E x \in Open(m) :
         /\ tokens + Tokens[x.node] > MaxTokens
         /\ \A k \in included : \A y \in Open(k) : y.score <= x.score

CInv == TypeOK /\ HeapLeads /\ HeapHolds /\ Counted /\ Explained

LEMMA InitInv == Init => CInv
<1> SUFFICES ASSUME Init PROVE CInv
  OBVIOUS
<1>1. TypeOK
  <2>1. graph \in Graph /\ IsFiniteSet(graph.nodes) /\ IsFiniteSet(graph.edges)
        /\ base \subseteq NodeId
    BY GraphAssumption DEF Init
  <2>2. IsFiniteSet(base \cap graph.nodes) /\ base \cap graph.nodes \subseteq NodeId
    BY <2>1, FS_Subset
  <2>3. tokens \in Nat
    <3>1. \A k \in base \cap graph.nodes : Tokens[k] \in Nat
      BY <2>2, TokensAssumption
    <3>2. SumOf(Tokens, base \cap graph.nodes) \in Nat
      BY <2>2, <3>1, SumType
    <3> QED BY <3>2 DEF Init, Cost, SumOf
  <2> QED BY <2>1, <2>3 DEF Init, TypeOK
<1>2. \A m : Hops(m) = 0
  BY DEF Init, Hops
<1>3. HeapLeads
  <2>1. SUFFICES ASSUME NEW m \in base, NEW x \in Candidates(graph, base, m, 0, 0)
                 PROVE  Leads(m, x)
    BY DEF Init, HeapLeads
  <2> QED BY <1>2, CandidateIs DEF Leads
<1>4. HeapHolds
  BY <1>2 DEF Init, HeapHolds, Open, Like
<1>5. Counted /\ Explained
  BY DEF Init, Counted, Explained
<1> QED BY <1>1, <1>3, <1>4, <1>5 DEF CInv

\* A step that brings nothing in.
LEMMA KeepInv ==
  ASSUME CInv, UNCHANGED <<graph, base, included, arrivals, tokens, fresh>>,
         heap' \subseteq heap,
         \A x \in heap \ heap' : x.node \in included \/ pc' # "expand",
         pc' = "expand" => pc = "expand",
         Explained'
  PROVE  CInv'
<1>1. \A m : Open(m)' = Open(m) /\ Hops(m)' = Hops(m)
  BY DEF Open, Hops
<1>2. \A m, x : Leads(m, x)' <=> Leads(m, x)
  BY DEF Leads, Hops
<1>3. TypeOK' /\ Counted'
  BY DEF CInv, TypeOK, Counted
<1>4. HeapLeads'
  BY <1>2 DEF CInv, HeapLeads
<1>5. HeapHolds'
  <2> SUFFICES ASSUME pc' = "expand", NEW m \in included, NEW y \in Open(m)
               PROVE  \E x \in heap' : Like(x, y)
    BY <1>1 DEF HeapHolds, Like
  <2>1. PICK x \in heap : Like(x, y)
    BY DEF CInv, HeapHolds
  <2>2. x.node \notin included
    BY <2>1, OpenIs DEF Like
  <2> QED BY <2>1, <2>2
<1> QED BY <1>3, <1>4, <1>5 DEF CInv

LEMMA TakeInv ==
  ASSUME CInv, pc = "expand", NEW x \in heap, First(x), Take(x)
  PROVE  CInv'
<1> DEFINE n == x.node
<1>1. PICK p \in included : Leads(p, x)
  BY DEF CInv, HeapLeads
<1>2. /\ n \in graph.nodes /\ n \in NodeId /\ n \notin included
      /\ x.hops \in Nat
  BY <1>1, EntryType DEF CInv, Take
<1>3. /\ UNCHANGED <<graph, base>> /\ included' = included \cup {n}
      /\ DOMAIN arrivals' = DOMAIN arrivals \cup {n}
      /\ arrivals'[n] = x.hops
      /\ \A k \in DOMAIN arrivals : arrivals'[k] = arrivals[k]
      /\ tokens' = tokens + Tokens[n] /\ tokens + Tokens[n] <= MaxTokens
  BY <1>2 DEF CInv, TypeOK, Take, Fits
<1>4. TypeOK'
  <2>1. arrivals' \in [DOMAIN arrivals' -> Nat]
    BY <1>2 DEF CInv, TypeOK, Take
  <2>2. fresh' \in Seq(Nat)
    <3>1. IsFiniteSet(Keys[n] \ seen)
      BY <1>2, TextAssumption, FS_Subset
    <3>2. Cardinality(Keys[n] \ seen) \in Nat
      BY <3>1, FS_CardinalityType
    <3> QED BY <3>2 DEF CInv, TypeOK, Take
  <2>3. tokens' \in Nat
    BY <1>2, <1>3, TokensAssumption DEF CInv, TypeOK
  <2> QED BY <1>2, <1>3, <2>1, <2>2, <2>3 DEF CInv, TypeOK
<1>5. \A m \in included : Hops(m)' = Hops(m)
  BY <1>2, <1>3 DEF Hops
<1>6. \A m \in included : \A y : Leads(m, y)' <=> Leads(m, y)
  BY <1>3, <1>5 DEF Leads
<1>7. \A m : m = n => Hops(m)' = x.hops
  BY <1>3 DEF Hops
<1>8. Counted'
  <2>1. IsFiniteSet(included \cap graph.nodes) /\ included \cap graph.nodes \subseteq NodeId
    BY FS_Subset DEF CInv, TypeOK, Graph
  <2>2. included' \cap graph'.nodes = (included \cap graph.nodes) \cup {n}
    BY <1>2, <1>3
  <2>3. Cost(included' \cap graph'.nodes) = tokens + Tokens[n]
    BY <1>2, <2>1, <2>2, CostAdds DEF CInv, Counted
  <2> QED BY <1>3, <2>3 DEF Counted
<1>9. \A y \in heap' : y \in heap \/ \E t : y \in Candidates(graph, included', n, x.hops, t)
  BY DEF Take
<1>10. HeapLeads'
  <2> SUFFICES ASSUME NEW y \in heap' PROVE \E m \in included' : Leads(m, y)'
    BY DEF HeapLeads
  <2>1. CASE y \in heap
    BY <1>3, <1>6, <2>1 DEF CInv, HeapLeads
  <2>2. CASE \E t : y \in Candidates(graph, included', n, x.hops, t)
    <3>1. PICK h \in ContextHops(graph, n) :
            /\ h.node \in graph.nodes
            /\ WithinCap(h.edge.type, x.hops + 1)
            /\ h.edge.confidence >= MinEdgeConfidence
            /\ y.node = h.node /\ y.hops = x.hops + 1
            /\ y.score = Score(graph, h, x.hops + 1)
      BY <2>2, CandidateIs
    <3>2. \A m : m = n => Leads(m, y)'
      BY <1>3, <1>7, <3>1 DEF Leads
    <3> QED BY <1>3, <3>2
  <2> QED BY <1>9, <2>1, <2>2
<1>11. HeapHolds'
  <2> SUFFICES ASSUME pc' = "expand", NEW m \in included',
                      NEW y \in Candidates(graph, included', m, Hops(m)', 0)
               PROVE  \E z \in heap' : Like(z, y)
    BY <1>3 DEF HeapHolds, Open, Like
  <2>1. heap' = (heap \ {x}) \cup Candidates(graph, included', n, x.hops, tick')
    BY DEF Take
  <2>2. PICK h \in ContextHops(graph, m) :
          /\ h.node \notin included' /\ h.node \in graph.nodes
          /\ WithinCap(h.edge.type, Hops(m)' + 1)
          /\ h.edge.confidence >= MinEdgeConfidence
          /\ y.node = h.node /\ y.hops = Hops(m)' + 1
          /\ y.score = Score(graph, h, Hops(m)' + 1)
    BY CandidateIs
  <2>3. CASE m \in included
    <3>1. Hops(m)' = Hops(m)
      BY <1>5, <2>3
    <3>2. Leads(m, y) /\ y.node \notin included /\ y.node # n
      BY <1>3, <2>2, <3>1 DEF Leads
    <3>3. PICK u \in Open(m) : Like(y, u)
      BY <3>2, OpenIs
    <3>4. PICK z \in heap : Like(z, u)
      BY <2>3, <3>3 DEF CInv, HeapHolds
    <3>5. Like(z, y) /\ z # x
      BY <3>2, <3>3, <3>4 DEF Like
    <3> QED BY <2>1, <3>4, <3>5
  <2>4. CASE m = n
    <3>1. Hops(m)' = x.hops
      BY <1>7, <2>4
    <3>2. PICK z \in Candidates(graph, included', n, x.hops, tick') :
            /\ z.node = h.node /\ z.hops = x.hops + 1
            /\ z.score = Score(graph, h, x.hops + 1)
      BY <2>2, <2>4, <3>1, CandidateIs
    <3> QED BY <2>1, <2>2, <3>1, <3>2 DEF Like
  <2> QED BY <1>3, <2>3, <2>4
<1>12. Explained'
  BY DEF Take, Explained
<1> QED BY <1>4, <1>8, <1>10, <1>11, <1>12 DEF CInv

LEMMA NextInv == CInv /\ [Next]_vars => CInv'
<1> SUFFICES ASSUME CInv, [Next]_vars PROVE CInv'
  OBVIOUS
<1>1. ASSUME NEW x \in heap, pc = "expand", First(x), PopStale(x) PROVE CInv'
  <2>1. Explained'
    BY <1>1 DEF PopStale, Explained
  <2> QED BY <1>1, <2>1, KeepInv DEF PopStale
<1>2. ASSUME NEW x \in heap, pc = "expand", First(x), StopAtBudget(x) PROVE CInv'
  <2>1. PICK m \in included : Leads(m, x)
    BY DEF CInv, HeapLeads
  <2>2. PICK y \in Open(m) : Like(x, y)
    BY <1>2, <2>1, OpenIs DEF StopAtBudget
  <2>3. \A k \in included : \A z \in Open(k) : z.score <= y.score
    BY <1>2, <2>2, FirstIsBest DEF CInv, Like
  <2>4. tokens + Tokens[y.node] > MaxTokens
    <3>1. x.node \in NodeId
      BY <2>1, EntryType DEF CInv
    <3> QED BY <1>2, <2>2, <3>1, TokensAssumption, BudgetAssumption
            DEF StopAtBudget, Fits, Like, CInv, TypeOK
  <2>5. \A k : Open(k)' = Open(k)
    BY <1>2 DEF StopAtBudget, Open, Hops
  <2>6. Explained'
    BY <1>2, <2>3, <2>4, <2>5 DEF StopAtBudget, Explained
  <2> QED BY <1>2, <2>6, KeepInv DEF StopAtBudget
<1>3. CASE Exhaust
  <2>1. \A m \in included : Open(m) = {}
    BY <1>3 DEF CInv, HeapHolds, Exhaust
  <2>2. \A k : Open(k)' = Open(k)
    BY <1>3 DEF Exhaust, Open, Hops
  <2>3. Explained'
    BY <1>3, <2>1, <2>2 DEF Exhaust, Explained
  <2> QED BY <1>3, <2>3, KeepInv DEF Exhaust
<1>4. CASE UNCHANGED vars
  <2>1. \A k : Open(k)' = Open(k)
    BY <1>4 DEF vars, Open, Hops
  <2>2. Explained'
    BY <1>4, <2>1 DEF CInv, vars, Explained
  <2> QED BY <1>4, <2>2, KeepInv DEF vars
<1> QED BY <1>1, <1>2, <1>3, <1>4, TakeInv DEF Next

-----------------------------------------------------------------------------
(* The theorems *)

\* The heap is the open neighbours, the count the cost, and every stop has its
\* cause, in every state of every call of context_frontier.
THEOREM Invariance == Spec => []CInv
<1>1. QED BY InitInv, NextInv, PTL DEF Spec

\* The budget is on the context as a whole (context_frontier's docstring): the
\* count is the cost of all that is in, and nothing is added past the budget.
THEOREM CountsTheWhole == Spec => []BudgetIsOfTheWhole
<1>1. CInv => BudgetIsOfTheWhole
  BY DEF CInv, Counted, BudgetIsOfTheWhole
<1>2. QED BY <1>1, Invariance, PTL

\* A relevant node far out beats a marginal one near by, and none is skipped.
THEOREM AddsBestFirst == Spec => BestFirst
<1>1. CInv /\ [Next]_vars =>
        [ \A n \in included' \ included :
            \E x \in heap : x.node = n /\
              \A m \in included : \A y \in Open(m) : y.score <= x.score ]_vars
  <2> SUFFICES ASSUME CInv, [Next]_vars, NEW n \in included' \ included
               PROVE  \E x \in heap : x.node = n /\
                        \A m \in included : \A y \in Open(m) : y.score <= x.score
    OBVIOUS
  <2>1. PICK x \in heap : pc = "expand" /\ First(x) /\ Take(x)
    BY DEF Next, PopStale, StopAtBudget, Exhaust, vars
  <2>2. x.node = n
    BY <2>1 DEF Take
  <2> QED BY <2>1, <2>2, FirstIsBest DEF CInv
<1>2. QED BY <1>1, Invariance, PTL DEF Spec, BestFirst

-----------------------------------------------------------------------------
(* Saturation *)

\* ord lists what was added in the order in which it was.  As long as the last
\* arrivals have brought nothing new, all keys come from what was in before them.
ListsArrivals(ord) ==
  LET n == Len(fresh) IN
  /\ ord \in [1..n -> NodeId]
  /\ \A i, j \in 1..n : ord[i] = ord[j] => i = j
  /\ DOMAIN arrivals = {ord[i] : i \in 1..n}
  /\ \A j \in 0..n :
       (\A i \in j + 1..n : fresh[i] = 0) =>
         \A k \in seen : \/ \E b \in base \cap graph.nodes : k \in Keys[b]
                         \/ \E i \in 1..j : k \in Keys[ord[i]]

Ordered ==
  /\ \E ord : ListsArrivals(ord)
  /\ \A m \in included \cap graph.nodes : Keys[m] \subseteq seen
  /\ pc = "saturated" => Saturated(fresh)

LEMMA OrderedInit == Init => Ordered
<1> SUFFICES ASSUME Init PROVE Ordered
  OBVIOUS
<1>1. ListsArrivals(<<>>)
  BY DEF Init, ListsArrivals
<1>2. \A m \in included \cap graph.nodes : Keys[m] \subseteq seen
  BY DEF Init
<1> QED BY <1>1, <1>2 DEF Init, Ordered

LEMMA OrderedTake ==
  ASSUME CInv, CInv', Ordered, pc = "expand", NEW x \in heap, Take(x)
  PROVE  Ordered'
<1> DEFINE a == x.node
<1>1. PICK ord : ListsArrivals(ord)
  BY DEF Ordered
<1>2. PICK n \in Nat : n = Len(fresh)
  <2>1. fresh \in Seq(Nat)
    BY DEF CInv, TypeOK
  <2> QED BY <2>1
<1>3. /\ UNCHANGED <<graph, base>> /\ a \notin included /\ included' = included \cup {a}
      /\ DOMAIN arrivals' = DOMAIN arrivals \cup {a}
      /\ fresh' = Append(fresh, Cardinality(Keys[a] \ seen))
      /\ seen' = seen \cup Keys[a]
      /\ DOMAIN arrivals \subseteq included
  BY DEF Take, CInv, TypeOK
<1>4. a \in NodeId
  BY EntryType DEF CInv, HeapLeads
<1>5. /\ Len(fresh') = n + 1 /\ fresh'[n + 1] = Cardinality(Keys[a] \ seen)
      /\ \A i \in 1..n : fresh'[i] = fresh[i]
  <2>1. fresh \in Seq(Nat) /\ Cardinality(Keys[a] \ seen) \in Nat
    <3>1. IsFiniteSet(Keys[a] \ seen)
      BY <1>4, TextAssumption, FS_Subset
    <3> QED BY <3>1, FS_CardinalityType DEF CInv, TypeOK
  <2> QED BY <1>2, <1>3, <2>1
<1>6. fresh'[n + 1] = 0 => Keys[a] \subseteq seen
  <2>1. IsFiniteSet(Keys[a] \ seen)
    BY <1>4, TextAssumption, FS_Subset
  <2> QED BY <1>5, <2>1, FS_EmptySet
<1>7. /\ ord \in [1..n -> NodeId]
      /\ \A i, j \in 1..n : ord[i] = ord[j] => i = j
      /\ DOMAIN arrivals = {ord[i] : i \in 1..n}
  BY <1>1, <1>2 DEF ListsArrivals
<1>8. PICK new \in [1..n + 1 -> NodeId] :
        new[n + 1] = a /\ \A i \in 1..n : new[i] = ord[i]
  <2> DEFINE new == [i \in 1..n + 1 |-> IF i = n + 1 THEN a ELSE ord[i]]
  <2>1. new \in [1..n + 1 -> NodeId]
    BY <1>4, <1>7
  <2>2. new[n + 1] = a /\ \A i \in 1..n : new[i] = ord[i]
    BY <1>2
  <2> HIDE DEF new
  <2> QED BY <2>1, <2>2
<1>9. \A i \in 1..n + 1 : i = n + 1 \/ i \in 1..n
  OBVIOUS
<1>10. \A i, j \in 1..n + 1 : new[i] = new[j] => i = j
  <2>1. \A i \in 1..n : ord[i] \in DOMAIN arrivals
    BY <1>7
  <2> QED BY <1>3, <1>7, <1>8, <1>9, <2>1
<1>11. DOMAIN arrivals' = {new[i] : i \in 1..n + 1}
  BY <1>3, <1>7, <1>8, <1>9
<1>12. ASSUME NEW j \in 0..n + 1, \A i \in j + 1..n + 1 : fresh'[i] = 0, NEW k \in seen'
       PROVE  \/ \E b \in base \cap graph.nodes : k \in Keys[b]
              \/ \E i \in 1..j : k \in Keys[new[i]]
  <2>1. CASE j = n + 1
    <3>1. CASE k \in Keys[a]
      <4>1. n + 1 \in 1..j
        BY <2>1
      <4> QED BY <1>8, <3>1, <4>1
    <3>2. CASE k \in seen
      <4>1. \/ \E b \in base \cap graph.nodes : k \in Keys[b]
            \/ \E i \in 1..n : k \in Keys[ord[i]]
        <5>1. n \in 0..n /\ \A i \in n + 1..n : fresh[i] = 0
          OBVIOUS
        <5> QED BY <1>1, <1>2, <3>2, <5>1 DEF ListsArrivals
      <4>2. \A i \in 1..n : i \in 1..j
        BY <2>1
      <4> QED BY <1>8, <4>1, <4>2
    <3> QED BY <1>3, <1>12, <3>1, <3>2
  <2>2. CASE j \in 0..n
    <3>1. n + 1 \in j + 1..n + 1 /\ \A i \in j + 1..n : i \in j + 1..n + 1 /\ i \in 1..n
      BY <2>2
    <3>2. \A i \in j + 1..n : fresh[i] = 0
      BY <1>5, <1>12, <3>1
    <3>3. k \in seen
      BY <1>3, <1>6, <1>12, <3>1
    <3>4. \/ \E b \in base \cap graph.nodes : k \in Keys[b]
          \/ \E i \in 1..j : k \in Keys[ord[i]]
      BY <1>1, <1>2, <2>2, <3>2, <3>3 DEF ListsArrivals
    <3>5. \A i \in 1..j : i \in 1..n
      BY <2>2
    <3> QED BY <1>8, <3>4, <3>5
  <2>3. j = n + 1 \/ j \in 0..n
    OBVIOUS
  <2> QED BY <2>1, <2>2, <2>3
<1>13. ListsArrivals(new)'
  <2>1. \A j \in 0..n + 1 :
          (\A i \in j + 1..n + 1 : fresh'[i] = 0) =>
            \A k \in seen' : \/ \E b \in base \cap graph.nodes : k \in Keys[b]
                             \/ \E i \in 1..j : k \in Keys[new[i]]
    BY <1>12
  <2>2. Len(fresh') = n + 1
    BY <1>5
  <2>3. /\ new \in [1..Len(fresh') -> NodeId]
        /\ \A i, j \in 1..Len(fresh') : new[i] = new[j] => i = j
        /\ DOMAIN arrivals' = {new[i] : i \in 1..Len(fresh')}
    BY <1>8, <1>10, <1>11, <2>2
  <2>4. \A j \in 0..Len(fresh') :
          (\A i \in j + 1..Len(fresh') : fresh'[i] = 0) =>
            \A k \in seen' : \/ \E b \in base' \cap graph'.nodes : k \in Keys[b]
                             \/ \E i \in 1..j : k \in Keys[new[i]]
    BY <1>3, <2>1, <2>2
  <2> QED BY <2>3, <2>4 DEF ListsArrivals
<1>14. \A m \in included' \cap graph'.nodes : Keys[m] \subseteq seen'
  BY <1>3 DEF Ordered
<1>15. pc' = "saturated" => Saturated(fresh)'
  <2>1. pc' = "saturated" => Saturated(fresh')
    BY DEF Take, Ordered
  <2> QED BY <2>1 DEF Saturated, Recent
<1> QED BY <1>13, <1>14, <1>15 DEF Ordered

LEMMA OrderedNext == CInv /\ CInv' /\ Ordered /\ [Next]_vars => Ordered'
<1> SUFFICES ASSUME CInv, CInv', Ordered, [Next]_vars PROVE Ordered'
  OBVIOUS
<1>1. ASSUME NEW x \in heap, pc = "expand", Take(x) PROVE Ordered'
  BY <1>1, OrderedTake
<1>2. ASSUME UNCHANGED <<graph, base, included, arrivals, fresh, seen>>,
             pc' = "saturated" => pc = "saturated"
      PROVE  Ordered'
  <2>1. \A ord : ListsArrivals(ord) => ListsArrivals(ord)'
    BY <1>2 DEF ListsArrivals
  <2> QED BY <1>2, <2>1 DEF Ordered, Saturated, Recent
<1> QED BY <1>1, <1>2 DEF Next, PopStale, StopAtBudget, Exhaust, vars

\* What the window's worth of last arrivals brought was there without them.
LEMMA SaturatedForCause ==
  ASSUME CInv, Ordered, pc = "saturated"
  PROVE  \E S \in SUBSET DOMAIN arrivals :
           /\ Cardinality(S) = SaturationWindow
           /\ UNION {Keys[n] : n \in S}
                \subseteq UNION {Keys[n] : n \in (included \ S) \cap graph.nodes}
<1>1. PICK ord : ListsArrivals(ord)
  BY DEF Ordered
<1>2. PICK n \in Nat : n = Len(fresh) /\ n >= SaturationWindow
  BY DEF CInv, TypeOK, Ordered, Saturated
<1>3. CASE SaturationWindow = 0
  BY <1>3, FS_EmptySet
<1>4. CASE SaturationWindow # 0
  <2>1. PICK w \in Nat \ {0} : w = SaturationWindow
    BY <1>4, BudgetAssumption
  <2>2. PICK j \in 0..n : j = n - w
    BY <1>2, <2>1
  <2>3. \A i \in j + 1..n : fresh[i] = 0
    <3>1. Recent(fresh) = SubSeq(fresh, j + 1, n)
      BY <1>2, <1>4, <2>1, <2>2 DEF Recent
    <3>2. /\ Len(Recent(fresh)) = w
          /\ \A i \in 1..w : Recent(fresh)[i] = fresh[j + i]
      <4>1. fresh \in Seq(Nat)
        BY DEF CInv, TypeOK
      <4> QED BY <1>2, <2>1, <2>2, <3>1, <4>1
    <3>3. \A i \in 1..w : fresh[j + i] = 0
      BY <3>2 DEF Ordered, Saturated
    <3>4. \A i \in j + 1..n : i - j \in 1..w /\ j + (i - j) = i
      BY <2>1, <2>2
    <3> QED BY <3>3, <3>4
  <2>4. /\ ord \in [1..n -> NodeId]
        /\ \A i, k \in 1..n : ord[i] = ord[k] => i = k
        /\ DOMAIN arrivals = {ord[i] : i \in 1..n}
        /\ \A k \in seen : \/ \E b \in base \cap graph.nodes : k \in Keys[b]
                           \/ \E i \in 1..j : k \in Keys[ord[i]]
    BY <1>1, <1>2, <2>3 DEF ListsArrivals
  <2> DEFINE S == {ord[i] : i \in j + 1..n}
  <2>5. S \subseteq DOMAIN arrivals
    BY <2>2, <2>4
  <2>6. Cardinality(S) = SaturationWindow
    <3>1. IsFiniteSet(j + 1..n) /\ Cardinality(j + 1..n) = w
      <4>1. j + 1 \in Int /\ n \in Int /\ ~(j + 1 > n) /\ n - (j + 1) + 1 = w
        BY <2>1, <2>2
      <4> QED BY <4>1, FS_Interval
    <3> DEFINE f == [i \in j + 1..n |-> ord[i]]
    <3>2. \A i \in j + 1..n : i \in 1..n
      BY <2>2
    <3>3. f \in Injection(j + 1..n, S)
      BY <2>4, <3>2 DEF Injection, IsInjective
    <3>4. f \in Surjection(j + 1..n, S)
      BY DEF Surjection
    <3>5. ExistsBijection(j + 1..n, S)
      BY <3>3, <3>4 DEF ExistsBijection, Bijection
    <3>6. Cardinality(S) = Cardinality(j + 1..n)
      <4> HIDE DEF S, f
      <4> QED BY <3>1, <3>5, FS_Bijection
    <3> QED BY <2>1, <3>1, <3>6
  <2>7. \A i \in 1..j : ord[i] \notin S /\ ord[i] \in DOMAIN arrivals
    BY <2>2, <2>4
  <2>8. \A m \in S : Keys[m] \subseteq UNION {Keys[k] : k \in (included \ S) \cap graph.nodes}
    <3>1. \A m \in S : Keys[m] \subseteq seen
      BY <2>5 DEF CInv, TypeOK, Ordered
    <3>2. \A b \in base \cap graph.nodes : b \in (included \ S) \cap graph.nodes
      BY <2>5 DEF CInv, TypeOK
    <3>3. \A i \in 1..j : ord[i] \in (included \ S) \cap graph.nodes
      BY <2>7 DEF CInv, TypeOK
    <3> HIDE DEF S
    <3> QED BY <2>4, <3>1, <3>2, <3>3
  <2> HIDE DEF S
  <2> QED BY <2>5, <2>6, <2>8
<1> QED BY <1>3, <1>4

\* The stop_reason of a ContextResult is true, all three of them.
THEOREM StopsTruly == Spec => []StopsForCause
<1>1. CInv /\ Ordered => StopsForCause
  BY SaturatedForCause DEF CInv, Explained, StopsForCause
<1>2. QED BY <1>1, Invariance, OrderedInit, OrderedNext, PTL DEF Spec

-----------------------------------------------------------------------------
(* Refinement *)

\* The promise's hops are this module's.
LEMMA SameHops == \A g, m : Promise!ContextHops(g, m) = ContextHops(g, m)
<1>1. Promise!DefaultPolicy = DefaultPolicy
  BY DEF Promise!DefaultPolicy, DefaultPolicy, Promise!Rule, Rule
<1>2. /\ Promise!ClosureDefault = ClosureDefault
      /\ Promise!ContextDefault = ContextDefault
      /\ Promise!ClosureType = ClosureType /\ Promise!ContextType = ContextType
  BY DEF Promise!ClosureDefault, ClosureDefault, Promise!ContextDefault,
         ContextDefault, Promise!Rule, Rule, Promise!ClosureType, ClosureType,
         Promise!ContextType, ContextType
<1>3. \A t : Promise!ResolvePolicy(t) = ResolvePolicy(t)
  BY <1>1, <1>2 DEF Promise!ResolvePolicy, ResolvePolicy
<1>4. \A t, d : Promise!Wanted(t, d) = Wanted(t, d)
  BY <1>3 DEF Promise!Wanted, Wanted
<1>5. \A g, m, T : /\ Promise!IncomingHops(g, m, T) = IncomingHops(g, m, T)
                   /\ Promise!OutgoingHops(g, m, T) = OutgoingHops(g, m, T)
  BY <1>4 DEF Promise!IncomingHops, IncomingHops, Promise!OutgoingHops, OutgoingHops
<1>6. QED BY <1>2, <1>5 DEF Promise!ContextHops, ContextHops

\* Every step of the expansion is one of the promise or none: what it adds hangs
\* on a node already in and fits the budget, and once it has stopped it is over.
THEOREM ImplementsPromise == Spec => KeepsPromise
<1>1. CInv /\ [Next]_vars => [Promise!Next]_(Promise!vars)
  <2> SUFFICES ASSUME CInv, [Next]_vars PROVE Promise!Next \/ UNCHANGED Promise!vars
    OBVIOUS
  <2> USE DEF Promise!vars, Promise!Next
  <2>1. ASSUME NEW x \in heap, pc = "expand", PopStale(x)
        PROVE  UNCHANGED Promise!vars
    BY <2>1 DEF PopStale
  <2>2. ASSUME NEW x \in heap, pc = "expand", StopAtBudget(x) PROVE Promise!Stop
    BY <2>2 DEF StopAtBudget, Promise!Stop
  <2>3. ASSUME NEW x \in heap, pc = "expand", Take(x) PROVE Promise!Add
    <3>1. PICK m \in included : Leads(m, x)
      BY DEF CInv, HeapLeads
    <3>2. PICK h \in ContextHops(graph, m) :
            /\ h.node \in graph.nodes
            /\ h.edge.confidence >= MinEdgeConfidence
            /\ x.node = h.node
      BY <3>1 DEF Leads
    <3>3. /\ h \in Promise!ContextHops(graph, m)
          /\ h.node \in graph.nodes \ included
          /\ tokens + Tokens[h.node] <= MaxTokens
          /\ included' = included \cup {h.node}
          /\ tokens' = tokens + Tokens[h.node]
          /\ graph' = graph
      BY <2>3, <3>2, SameHops DEF Take, Fits
    <3>4. (pc = "expand")' \in {TRUE, FALSE}
      OBVIOUS
    <3> QED BY <2>3, <3>1, <3>2, <3>3, <3>4 DEF Promise!Add
  <2>4. CASE Exhaust
    BY <2>4 DEF Exhaust, Promise!Stop
  <2>5. CASE UNCHANGED vars
    BY <2>5 DEF vars
  <2> QED BY <2>1, <2>2, <2>3, <2>4, <2>5 DEF Next
<1>2. QED BY <1>1, Invariance, PTL DEF Spec, KeepsPromise
=============================================================================
