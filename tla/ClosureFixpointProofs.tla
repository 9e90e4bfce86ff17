----------------------- MODULE ClosureFixpointProofs -----------------------
(***************************************************************************)
(* Proofs about closure_fixpoint for every set of graphs, every seed list, *)
(* every pack of policies and every iteration cap.                         *)
(***************************************************************************)
EXTENDS ClosureFixpoint, FiniteSetTheorems, TLAPS

-----------------------------------------------------------------------------
(* Lemmas about the policy operators *)

\* Every edge type has a policy: resolve_policy never falls through.
LEMMA PolicyType == \A t \in EdgeType : ResolvePolicy(t) \in Policy
<1> SUFFICES ASSUME NEW t \in EdgeType PROVE ResolvePolicy(t) \in Policy
  OBVIOUS
<1>1. ASSUME NEW d \in Direction, NEW p \in Nat, NEW c \in Nat \cup {NoCap},
             NEW m \in BOOLEAN
      PROVE  Rule(d, p, c, m) \in Policy
  BY <1>1 DEF Rule, Policy
<1>2. \A x \in DOMAIN DefaultPolicy : DefaultPolicy[x] \in Policy
  <2>1. DOMAIN DefaultPolicy =
          {"exception_of", "supersedes", "amends", "conditioned_on", "defines",
           "elaborates", "exemplifies", "supports", "contradicts", "cites",
           "part_of", "similar_to", "possibly_same_as"}
    BY DEF DefaultPolicy
  <2>2. /\ Rule("reverse", 10, NoCap, TRUE) \in Policy
        /\ Rule("forward", 10, NoCap, TRUE) \in Policy
        /\ Rule("forward", 9, 2, FALSE) \in Policy
        /\ Rule("forward", 5, 2, FALSE) \in Policy
        /\ Rule("forward", 3, 1, FALSE) \in Policy
        /\ Rule("both", 6, 1, FALSE) \in Policy
        /\ Rule("forward", 4, 1, FALSE) \in Policy
        /\ Rule("none", 0, 0, FALSE) \in Policy
        /\ Rule("both", 2, 1, FALSE) \in Policy
    BY <1>1 DEF Direction
  <2>3. /\ DefaultPolicy["exception_of"] \in Policy
        /\ DefaultPolicy["supersedes"] \in Policy
        /\ DefaultPolicy["amends"] \in Policy
        /\ DefaultPolicy["conditioned_on"] \in Policy
        /\ DefaultPolicy["defines"] \in Policy
        /\ DefaultPolicy["elaborates"] \in Policy
        /\ DefaultPolicy["exemplifies"] \in Policy
        /\ DefaultPolicy["supports"] \in Policy
        /\ DefaultPolicy["contradicts"] \in Policy
        /\ DefaultPolicy["cites"] \in Policy
        /\ DefaultPolicy["part_of"] \in Policy
        /\ DefaultPolicy["similar_to"] \in Policy
        /\ DefaultPolicy["possibly_same_as"] \in Policy
    BY <2>2 DEF DefaultPolicy
  <2>4. QED BY <2>1, <2>3
<1>3. ClosureDefault \in Policy /\ ContextDefault \in Policy
  BY <1>1 DEF ClosureDefault, ContextDefault, Direction
<1>4. CASE t \in DOMAIN PackOverrides
  BY <1>4, OverridesAssumption DEF ResolvePolicy
<1>5. CASE t \notin DOMAIN PackOverrides /\ t \in DOMAIN DefaultPolicy
  BY <1>5, <1>2 DEF ResolvePolicy
<1>6. CASE t \notin DOMAIN PackOverrides /\ t \notin DOMAIN DefaultPolicy
  BY <1>6, <1>3 DEF ResolvePolicy
<1>7. QED BY <1>4, <1>5, <1>6

\* An admissible hop stays admissible when the walk gets to it sooner.
LEMMA CapMonotone ==
  \A t \in EdgeType : \A j, k \in Nat : WithinCap(t, k) /\ j <= k => WithinCap(t, j)
BY PolicyType DEF WithinCap, Policy

\* The hops closure_neighbors returns are closure edges of the graph.
LEMMA HopTypes ==
  ASSUME NEW g \in Graph, NEW m \in NodeId
  PROVE  /\ ClosureHops(g, m) \subseteq Hop
         /\ Followed(g, m) \subseteq ClosureHops(g, m)
         /\ SkippedLow(g, m) = ClosureHops(g, m) \ Followed(g, m)
<1>1. IncomingHops(g, m, ClosureType) \subseteq Hop
  BY DEF IncomingHops, Hop, Graph, Edge
<1>2. OutgoingHops(g, m, ClosureType) \subseteq Hop
  BY DEF OutgoingHops, Hop, Graph, Edge
<1>3. ClosureHops(g, m) \subseteq Hop
  BY <1>1, <1>2 DEF ClosureHops
<1>4. \A h \in ClosureHops(g, m) : h.edge.confidence \in Nat
  BY <1>3 DEF Hop, Edge, Confidence
<1>5. MinConfidence \in Nat
  BY MinConfidenceAssumption DEF Confidence
<1>6. QED BY <1>3, <1>4, <1>5 DEF Followed, SkippedLow

-----------------------------------------------------------------------------
(* Lemmas about the queue *)

LEMMA ElementsTail ==
  ASSUME NEW S, NEW q \in Seq(S), q # <<>>
  PROVE  /\ Head(q) \in S
         /\ Tail(q) \in Seq(S)
         /\ Len(Tail(q)) = Len(q) - 1
         /\ \A i \in 1..Len(Tail(q)) : i + 1 \in 1..Len(q) /\ Tail(q)[i] = q[i + 1]
         /\ Elements(q) = {Head(q)} \cup Elements(Tail(q))
<1>1. /\ Len(q) \in Nat \ {0} /\ Head(q) = q[1] /\ Head(q) \in S
      /\ Tail(q) \in Seq(S) /\ Len(Tail(q)) = Len(q) - 1
      /\ \A i \in 1..Len(Tail(q)) : i + 1 \in 1..Len(q) /\ Tail(q)[i] = q[i + 1]
  OBVIOUS
<1>2. \A i \in 1..Len(q) : i = 1 \/ (i - 1 \in 1..Len(Tail(q)) /\ q[i] = Tail(q)[i - 1])
  BY <1>1
<1>3. Elements(q) = {Head(q)} \cup Elements(Tail(q))
  BY <1>1, <1>2 DEF Elements
<1>4. QED BY <1>1, <1>3

LEMMA ElementsAppend ==
  ASSUME NEW S, NEW q \in Seq(S), NEW x \in S
  PROVE  /\ Append(q, x) \in Seq(S)
         /\ Len(Append(q, x)) = Len(q) + 1
         /\ Append(q, x)[Len(q) + 1] = x
         /\ \A i \in 1..Len(q) : Append(q, x)[i] = q[i]
         /\ Elements(Append(q, x)) = Elements(q) \cup {x}
<1>1. /\ Append(q, x) \in Seq(S) /\ Len(q) \in Nat
      /\ Len(Append(q, x)) = Len(q) + 1
      /\ Append(q, x)[Len(q) + 1] = x
      /\ \A i \in 1..Len(q) : Append(q, x)[i] = q[i]
  OBVIOUS
<1>2. Elements(Append(q, x)) = Elements(q) \cup {x}
  BY <1>1 DEF Elements
<1>3. QED BY <1>1, <1>2

LEMMA ElementsEmpty == Elements(<<>>) = {}
BY DEF Elements

LEMMA ElementsType == \A S : \A q \in Seq(S) : Elements(q) \subseteq S
BY DEF Elements
-----------------------------------------------------------------------------
(* Type correctness *)

LEMMA InitType == Init => TypeOK
<1> SUFFICES ASSUME Init PROVE TypeOK
  OBVIOUS
<1>1. graph \in Graph /\ seeds \in Seq(NodeId)
  BY GraphsAssumption, SeedListsAssumption DEF Init
<1>2. Elements(seeds) \subseteq NodeId
  BY <1>1, ElementsType
<1>3. QED BY <1>1, <1>2, MaxIterationsAssumption DEF Init, TypeOK, Reached

\* A hop the walk may look at carries the types that the four cases need.
LEMMA PendingHop ==
  ASSUME TypeOK, NEW h \in pending
  PROVE  /\ h \in Hop /\ h.node \in NodeId /\ h.edge \in Edge
         /\ h.edge.type \in EdgeType
         /\ \A why \in {"confidence", "cap", "dangling"} : SkipOf(h, why) \in Skip
BY DEF TypeOK, Hop, Edge, Skip, SkipOf

LEMMA PopType ==
  ASSUME TypeOK, Pop
  PROVE  /\ TypeOK'
         /\ Head(queue) \in NodeId
<1>1. /\ Head(queue) \in NodeId
      /\ Tail(queue) \in Seq(NodeId)
  BY ElementsTail DEF TypeOK, Pop
<1>2. /\ Followed(graph, Head(queue)) \subseteq Hop
      /\ SkippedLow(graph, Head(queue)) \subseteq Hop
  BY <1>1, HopTypes DEF TypeOK
<1>3. {SkipOf(h, "confidence") : h \in SkippedLow(graph, Head(queue))} \subseteq Skip
  BY <1>2 DEF SkipOf, Skip, Hop
<1>4. iterations + 1 \in 0..MaxIterations + 1
  BY MaxIterationsAssumption DEF TypeOK, Pop
<1>5. QED BY <1>1, <1>2, <1>3, <1>4 DEF TypeOK, Pop, Reached

LEMMA LookType ==
  ASSUME TypeOK, NEW h \in pending, Look(h), current \in Reached
  PROVE  TypeOK'
<1>1. /\ h.node \in NodeId
      /\ SkipOf(h, "cap") \in Skip /\ SkipOf(h, "dangling") \in Skip
  BY PendingHop
<1>2. /\ graph' \in Graph /\ seeds' \in Seq(NodeId)
      /\ pc' \in {"walk", "done", "truncated"}
      /\ current' \in NodeId \cup {"none"} /\ pending' \subseteq Hop
      /\ iterations' \in 0..MaxIterations + 1
  BY DEF TypeOK, Look
<1>3. CASE SkipCapped(h)
  BY <1>1, <1>2, <1>3 DEF TypeOK, SkipCapped, Reached
<1>4. CASE PassKnown(h)
  BY <1>2, <1>4 DEF TypeOK, PassKnown, Reached
<1>5. CASE SkipDangling(h)
  BY <1>1, <1>2, <1>5 DEF TypeOK, SkipDangling, Reached
<1>6. CASE Arrive(h)
  <2>1. NextHops \in Nat
    BY DEF TypeOK, NextHops
  <2>2. /\ Reached' = Reached \cup {h.node}
        /\ arrivals' \in [Reached' -> Nat]
    BY <1>6, <2>1 DEF TypeOK, Arrive, Reached
  <2>3. queue' \in Seq(NodeId)
    BY <1>1, <1>6, ElementsAppend DEF TypeOK, Arrive
  <2>4. QED BY <1>1, <1>2, <1>6, <2>2, <2>3 DEF TypeOK, Arrive
<1>7. QED BY <1>3, <1>4, <1>5, <1>6 DEF Look

-----------------------------------------------------------------------------
(* The inductive invariant *)

\* An id has been taken from the queue, and the walk was not cut off: only then
\* does current name an id.
Walking == iterations > 0 /\ pc # "truncated"

\* Whatever waits in the queue has arrived, and what is pending are hops of
\* the id being expanded.
Frontier ==
  /\ Elements(queue) \subseteq Reached
  /\ iterations = 0 => pending = {}
  /\ Walking => current \in Reached /\ pending \subseteq Followed(graph, current)
  /\ pc = "done" => queue = <<>> /\ pending = {}

\* The walk is breadth first: the queue holds two levels at most, in order.
BreadthFirst ==
  /\ iterations = 0 => \A n \in Reached : arrivals[n] = 0
  /\ Walking => \A n \in Reached : arrivals[n] <= arrivals[current] + 1
  /\ Walking => \A i \in 1..Len(queue) : arrivals[current] <= arrivals[queue[i]]
  /\ \A i, j \in 1..Len(queue) : i <= j => arrivals[queue[i]] <= arrivals[queue[j]]

Waiting(m, h) == m = current /\ h \in pending

\* Every hop of an id that has left the queue is waiting, impossible, or has
\* brought its node in, no later than one hop after the id.
Handled ==
  \A m \in Reached \ Elements(queue) : \A h \in Followed(graph, m) :
    \/ Waiting(m, h)
    \/ h.node \notin graph.nodes
    \/ ~WithinCap(h.edge.type, arrivals[m] + 1)
    \/ h.node \in Reached /\ arrivals[h.node] <= arrivals[m] + 1

\* ... or it is on the skipped list.
Logged ==
  \A m \in Reached \ Elements(queue) : \A h \in ClosureHops(graph, m) :
    \/ Waiting(m, h)
    \/ h.node \in Reached
    \/ \E s \in skipped : s.edge = h.edge /\ s.node = h.node

\* Until the cap cuts the walk short, an iteration has been spent on every id
\* that has left the queue and on none twice.
Counted ==
  /\ IsFiniteSet(Reached)
  /\ pc # "truncated" => Cardinality(Reached) = iterations + Len(queue)

IInv ==
  TypeOK /\ Frontier /\ BreadthFirst /\ Handled /\ Logged /\ Justified /\ Counted

\* A seed list has as many ids as entries.
LEMMA SeedsCounted ==
  ASSUME NEW s \in SeedLists
  PROVE  IsFiniteSet(Elements(s)) /\ Cardinality(Elements(s)) = Len(s)
<1> DEFINE f == [i \in 1..Len(s) |-> s[i]]
<1>1. Len(s) \in Nat /\ \A i, j \in 1..Len(s) : s[i] = s[j] => i = j
  BY SeedListsAssumption
<1>2. IsFiniteSet(1..Len(s)) /\ Cardinality(1..Len(s)) = Len(s)
  <2>1. 1 \in Int /\ Len(s) \in Int
    BY <1>1
  <2>2. Cardinality(1..Len(s)) = IF 1 > Len(s) THEN 0 ELSE Len(s) - 1 + 1
    BY <2>1, FS_Interval
  <2>3. Cardinality(1..Len(s)) = Len(s)
    BY <1>1, <2>2
  <2>4. QED BY <2>1, <2>3, FS_Interval
<1>3. f \in Surjection(1..Len(s), Elements(s))
  BY DEF Elements, Surjection
<1>4. f \in Injection(1..Len(s), Elements(s))
  BY <1>1 DEF Elements, Injection, IsInjective
<1>5. QED BY <1>2, <1>3, <1>4, FS_Surjection

LEMMA InitInv == Init => IInv
<1> SUFFICES ASSUME Init PROVE IInv
  OBVIOUS
<1>1. TypeOK
  BY InitType
<1>2. Reached = Elements(seeds) /\ queue = seeds /\ iterations = 0
  BY DEF Init, Reached
<1>3. Frontier /\ Handled /\ Logged
  BY <1>2 DEF Init, Frontier, Handled, Logged, Walking
<1>4. \A n \in Reached : arrivals[n] = 0
  BY <1>2 DEF Init
<1>5. BreadthFirst
  BY <1>2, <1>4 DEF BreadthFirst, Elements, Walking
<1>6. Justified
  BY <1>2, <1>4 DEF Justified
<1>7. Counted
  <2>1. seeds \in SeedLists /\ Len(queue) \in Nat
    BY <1>1 DEF Init, TypeOK
  <2>2. QED BY <1>2, <2>1, SeedsCounted DEF Counted
<1>8. QED BY <1>1, <1>3, <1>5, <1>6, <1>7 DEF IInv

LEMMA PopInv ==
  ASSUME IInv, Pop
  PROVE  IInv'
<1> DEFINE hd == Head(queue)
<1>1. TypeOK' /\ hd \in NodeId
  BY PopType DEF IInv
<1>2. /\ queue \in Seq(NodeId) /\ queue # <<>> /\ pending = {}
      /\ queue' = Tail(queue) /\ current' = hd
      /\ pending' = Followed(graph, hd)
      /\ UNCHANGED <<graph, seeds, pc, arrivals>> /\ Reached' = Reached
      /\ iterations' = iterations + 1 /\ iterations \in Nat
      /\ skipped \subseteq skipped'
  BY DEF IInv, TypeOK, Pop, Reached
<1>3. /\ Elements(queue) = {hd} \cup Elements(queue')
      /\ Len(queue') = Len(queue) - 1
      /\ \A i \in 1..Len(queue') : i + 1 \in 1..Len(queue) /\ queue'[i] = queue[i + 1]
  BY <1>2, ElementsTail
<1>4. 1 \in 1..Len(queue) /\ queue[1] = hd
  BY <1>2
<1>5. hd \in Reached
  BY <1>3 DEF IInv, Frontier
<1>6. Frontier'
  BY <1>2, <1>3, <1>5 DEF IInv, Frontier, Pop, Walking
<1>7. BreadthFirst'
  <2>1. \A i \in 1..Len(queue) : arrivals[hd] <= arrivals[queue[i]]
    BY <1>4 DEF IInv, BreadthFirst
  <2>2. \A n \in Reached : arrivals[n] <= arrivals[hd] + 1
    <3>1. \A n \in Reached : arrivals[n] \in Nat
      BY DEF IInv, TypeOK
    <3>2. CASE iterations = 0
      BY <3>1, <3>2, <1>5 DEF IInv, BreadthFirst
    <3>3. CASE iterations > 0
      <4>1. Walking /\ arrivals[current] <= arrivals[hd] /\ current \in Reached
        BY <3>3, <1>4 DEF IInv, BreadthFirst, Frontier, Pop, Walking
      <4>2. QED BY <3>1, <3>3, <4>1, <1>5 DEF IInv, BreadthFirst
    <3>4. QED BY <3>2, <3>3, <1>2
  <2>3. \A i \in 1..Len(queue') : arrivals[hd] <= arrivals[queue'[i]]
    BY <2>1, <1>3
  <2>4. \A i, j \in 1..Len(queue') : i <= j => arrivals[queue'[i]] <= arrivals[queue'[j]]
    <3>1. SUFFICES ASSUME NEW i \in 1..Len(queue'), NEW j \in 1..Len(queue'), i <= j
                   PROVE  arrivals[queue'[i]] <= arrivals[queue'[j]]
      OBVIOUS
    <3>2. i + 1 \in 1..Len(queue) /\ j + 1 \in 1..Len(queue) /\ i + 1 <= j + 1
      BY <1>3, <3>1
    <3>3. QED BY <3>2, <1>3 DEF IInv, BreadthFirst
  <2>5. iterations' > 0
    BY <1>2
  <2>6. QED BY <1>2, <2>2, <2>3, <2>4, <2>5 DEF BreadthFirst, Walking
<1>8. Handled'
  <2>1. SUFFICES ASSUME NEW m \in Reached \ Elements(queue'),
                        NEW h \in Followed(graph, m)
                 PROVE  \/ m = hd /\ h \in pending'
                        \/ h.node \notin graph.nodes
                        \/ ~WithinCap(h.edge.type, arrivals[m] + 1)
                        \/ h.node \in Reached /\ arrivals[h.node] <= arrivals[m] + 1
    BY <1>2 DEF Handled, Waiting
  <2>2. CASE m = hd
    BY <2>2, <1>2
  <2>3. CASE m # hd
    BY <2>3, <1>2, <1>3 DEF IInv, Handled, Waiting
  <2>4. QED BY <2>2, <2>3
<1>9. Logged'
  <2>1. SUFFICES ASSUME NEW m \in Reached \ Elements(queue'),
                        NEW h \in ClosureHops(graph, m)
                 PROVE  \/ m = hd /\ h \in pending'
                        \/ h.node \in Reached
                        \/ \E s \in skipped' : s.edge = h.edge /\ s.node = h.node
    BY <1>2 DEF Logged, Waiting
  <2>2. CASE m = hd /\ h \in Followed(graph, hd)
    BY <2>2, <1>2
  <2>3. CASE m = hd /\ h \notin Followed(graph, hd)
    <3>1. h \in SkippedLow(graph, hd)
      BY <2>3, <1>1, HopTypes DEF IInv, TypeOK
    <3>2. SkipOf(h, "confidence") \in skipped'
      BY <3>1 DEF Pop
    <3>3. QED BY <3>2 DEF SkipOf
  <2>4. CASE m # hd
    BY <2>4, <1>2, <1>3 DEF IInv, Logged, Waiting
  <2>5. QED BY <2>2, <2>3, <2>4
<1>10. Justified'
  BY <1>2 DEF IInv, Justified
<1>11. Counted'
  <2>1. Len(queue) \in Nat /\ (pc' # "truncated" => pc # "truncated")
    BY <1>2
  <2>2. QED BY <1>2, <1>3, <2>1 DEF IInv, Counted
<1>12. QED BY <1>1, <1>6, <1>7, <1>8, <1>9, <1>10, <1>11 DEF IInv

\* A turn of the inner loop that brings no node in.
LEMMA PassInv ==
  ASSUME IInv, NEW h \in pending, Look(h), SkipCapped(h) \/ PassKnown(h) \/ SkipDangling(h)
  PROVE  IInv'
<1>1. /\ iterations > 0 /\ current \in Reached /\ h \in Followed(graph, current)
      /\ Walking
  BY DEF IInv, TypeOK, Frontier, Look, Walking
<1>2. TypeOK'
  BY <1>1, LookType DEF IInv
<1>3. /\ UNCHANGED <<graph, seeds, pc, queue, current, arrivals, iterations>>
      /\ pending' = pending \ {h}
      /\ Reached' = Reached /\ skipped \subseteq skipped'
  BY DEF Look, SkipCapped, PassKnown, SkipDangling, Reached
<1>4. Frontier'
  BY <1>1, <1>3 DEF IInv, Frontier, Walking
<1>5. BreadthFirst'
  BY <1>3 DEF IInv, BreadthFirst, Walking
<1>6. Handled'
  <2>1. \/ h.node \notin graph.nodes
        \/ ~WithinCap(h.edge.type, arrivals[current] + 1)
        \/ h.node \in Reached /\ arrivals[h.node] <= arrivals[current] + 1
    BY <1>1 DEF IInv, BreadthFirst, SkipCapped, PassKnown, SkipDangling, NextHops
  <2>2. QED BY <1>3, <2>1 DEF IInv, Handled, Waiting
<1>7. Logged'
  <2>1. h.node \in Reached \/ \E s \in skipped' : s.edge = h.edge /\ s.node = h.node
    <3>1. CASE SkipCapped(h)
      <4>1. SkipOf(h, "cap") \in skipped'
        BY <3>1 DEF SkipCapped
      <4>2. QED BY <4>1 DEF SkipOf
    <3>2. CASE PassKnown(h)
      BY <3>2 DEF PassKnown
    <3>3. CASE SkipDangling(h)
      <4>1. SkipOf(h, "dangling") \in skipped'
        BY <3>3 DEF SkipDangling
      <4>2. QED BY <4>1 DEF SkipOf
    <3>4. QED BY <3>1, <3>2, <3>3
  <2>2. QED BY <1>3, <2>1 DEF IInv, Logged, Waiting
<1>8. Justified'
  BY <1>3 DEF IInv, Justified
<1>9. Counted'
  BY <1>3 DEF IInv, Counted
<1>10. QED BY <1>2, <1>4, <1>5, <1>6, <1>7, <1>8, <1>9 DEF IInv

\* A turn of the inner loop that brings a node in.
LEMMA ArriveInv ==
  ASSUME IInv, NEW h \in pending, Look(h), Arrive(h)
  PROVE  IInv'
<1> DEFINE n == h.node
<1>1. /\ iterations > 0 /\ current \in Reached /\ h \in Followed(graph, current)
      /\ Walking
  BY DEF IInv, TypeOK, Frontier, Look, Walking
<1>2. TypeOK'
  BY <1>1, LookType DEF IInv
<1>3. /\ UNCHANGED <<graph, seeds, pc, current, skipped, iterations>>
      /\ pending' = pending \ {h} /\ queue' = Append(queue, n)
      /\ n \in graph.nodes \ Reached
      /\ WithinCap(h.edge.type, arrivals[current] + 1)
  BY DEF Look, Arrive, NextHops
<1>4. /\ Reached' = Reached \cup {n} /\ n \notin Reached
      /\ arrivals'[n] = arrivals[current] + 1
      /\ \A m \in Reached : arrivals'[m] = arrivals[m]
      /\ \A m \in Reached : arrivals[m] \in Nat
  BY <1>1 DEF IInv, TypeOK, Arrive, NextHops, Reached
<1>5. /\ queue \in Seq(NodeId) /\ n \in NodeId
      /\ Elements(queue') = Elements(queue) \cup {n}
      /\ Len(queue') = Len(queue) + 1 /\ Len(queue) \in Nat
      /\ queue'[Len(queue) + 1] = n
      /\ \A i \in 1..Len(queue) : queue'[i] = queue[i] /\ queue[i] \in Reached
  <2>1. queue \in Seq(NodeId) /\ n \in NodeId
    BY PendingHop DEF IInv, TypeOK
  <2>2. \A i \in 1..Len(queue) : queue[i] \in Reached
    BY DEF IInv, Frontier, Elements
  <2>3. QED BY <2>1, <2>2, <1>3, ElementsAppend
<1>6. Frontier'
  BY <1>1, <1>3, <1>4, <1>5 DEF IInv, Frontier, Walking
<1>7. BreadthFirst'
  <2>1. \A m \in Reached' : arrivals'[m] <= arrivals[current] + 1
    BY <1>1, <1>4 DEF IInv, BreadthFirst
  <2>2. \A i \in 1..Len(queue') : i \in 1..Len(queue) \/ i = Len(queue) + 1
    BY <1>5
  <2>3. \A i \in 1..Len(queue') : arrivals[current] <= arrivals'[queue'[i]]
    BY <1>1, <1>4, <1>5, <2>2 DEF IInv, BreadthFirst
  <2>4. \A i, j \in 1..Len(queue') : i <= j => arrivals'[queue'[i]] <= arrivals'[queue'[j]]
    <3>1. SUFFICES ASSUME NEW i \in 1..Len(queue'), NEW j \in 1..Len(queue'), i <= j
                   PROVE  arrivals'[queue'[i]] <= arrivals'[queue'[j]]
      OBVIOUS
    <3>2. CASE j \in 1..Len(queue)
      <4>1. i \in 1..Len(queue)
        BY <3>1, <3>2, <1>5
      <4>2. QED BY <3>1, <3>2, <4>1, <1>4, <1>5 DEF IInv, BreadthFirst
    <3>3. CASE j = Len(queue) + 1
      <4>1. queue'[i] \in Reached'
        BY <2>2, <1>4, <1>5
      <4>2. arrivals'[queue'[i]] <= arrivals[current] + 1
        BY <4>1, <2>1
      <4>3. QED BY <3>3, <4>2, <1>4, <1>5
    <3>4. QED BY <3>2, <3>3, <2>2
  <2>5. QED BY <1>1, <1>3, <1>4, <2>1, <2>3, <2>4 DEF BreadthFirst
<1>8. Handled'
  <2>1. SUFFICES ASSUME NEW m \in Reached \ Elements(queue),
                        NEW k \in Followed(graph, m)
                 PROVE  \/ m = current /\ k \in pending \ {h}
                        \/ k.node \notin graph.nodes
                        \/ ~WithinCap(k.edge.type, arrivals[m] + 1)
                        \/ k.node \in Reached' /\ arrivals'[k.node] <= arrivals[m] + 1
    BY <1>3, <1>4, <1>5 DEF Handled, Waiting
  <2>2. CASE m = current /\ k = h
    BY <2>2, <1>4
  <2>3. CASE ~(m = current /\ k = h)
    BY <2>1, <2>3, <1>4 DEF IInv, Handled, Waiting
  <2>4. QED BY <2>2, <2>3
<1>9. Logged'
  <2>1. SUFFICES ASSUME NEW m \in Reached \ Elements(queue),
                        NEW k \in ClosureHops(graph, m)
                 PROVE  \/ m = current /\ k \in pending \ {h}
                        \/ k.node \in Reached'
                        \/ \E s \in skipped : s.edge = k.edge /\ s.node = k.node
    BY <1>3, <1>4, <1>5 DEF Logged, Waiting
  <2>2. CASE m = current /\ k = h
    BY <2>2, <1>4
  <2>3. CASE ~(m = current /\ k = h)
    BY <2>1, <2>3, <1>4 DEF IInv, Logged, Waiting
  <2>4. QED BY <2>2, <2>3
<1>10. Justified'
  <2>1. SUFFICES ASSUME NEW m \in Reached'
                 PROVE  \/ m \in Elements(seeds) /\ arrivals'[m] = 0
                        \/ \E p \in Reached' : \E k \in Followed(graph, p) :
                             /\ k.node = m /\ m \in graph.nodes
                             /\ arrivals'[m] = arrivals'[p] + 1
                             /\ WithinCap(k.edge.type, arrivals'[m])
    BY <1>3 DEF Justified
  <2>2. CASE m = n
    BY <2>2, <1>1, <1>3, <1>4
  <2>3. CASE m \in Reached
    BY <2>3, <1>4 DEF IInv, Justified
  <2>4. QED BY <2>2, <2>3, <1>4
<1>11. Counted'
  <2>1. IsFiniteSet(Reached') /\ Cardinality(Reached') = Cardinality(Reached) + 1
    BY <1>4, FS_AddElement DEF IInv, Counted
  <2>2. pc' = "walk" /\ pc = "walk" /\ iterations \in Nat
    BY <1>3 DEF Look, IInv, TypeOK
  <2>3. QED BY <2>1, <2>2, <1>3, <1>5 DEF IInv, Counted
<1>12. QED BY <1>2, <1>6, <1>7, <1>8, <1>9, <1>10, <1>11 DEF IInv

LEMMA EndInv ==
  ASSUME IInv, Truncate \/ Return \/ UNCHANGED vars
  PROVE  IInv'
<1>1. /\ UNCHANGED <<graph, seeds, queue, current, pending, arrivals, skipped>>
      /\ Reached' = Reached
  BY DEF Truncate, Return, vars, Reached
<1>2. TypeOK'
  BY <1>1, MaxIterationsAssumption DEF IInv, TypeOK, Truncate, Return, vars
<1>3. iterations \in Nat /\ (Walking' => Walking /\ UNCHANGED iterations)
  BY DEF IInv, TypeOK, Truncate, Return, vars, Walking
<1>4. iterations' = 0 => iterations = 0
  BY <1>3 DEF Truncate, Return, vars
<1>5. pc' = "done" => (pc = "done" \/ Return)
  BY DEF Truncate, Return, vars
<1>6. Frontier'
  BY <1>1, <1>3, <1>4, <1>5 DEF IInv, Frontier, Return
<1>7. BreadthFirst'
  BY <1>1, <1>3, <1>4 DEF IInv, BreadthFirst
<1>8. Handled' /\ Logged' /\ Justified'
  BY <1>1 DEF IInv, Handled, Logged, Justified, Waiting
<1>9. Counted'
  BY <1>1 DEF IInv, Counted, Truncate, Return, vars
<1>10. QED BY <1>2, <1>6, <1>7, <1>8, <1>9 DEF IInv

-----------------------------------------------------------------------------
(* The theorems *)

LEMMA NextInv == IInv /\ [Next]_vars => IInv'
<1> SUFFICES ASSUME IInv, [Next]_vars PROVE IInv'
  OBVIOUS
<1>1. CASE Pop
  BY <1>1, PopInv
<1>2. CASE \E h \in pending : Look(h)
  <2>1. PICK h \in pending : Look(h)
    BY <1>2
  <2>2. CASE Arrive(h)
    BY <2>1, <2>2, ArriveInv
  <2>3. CASE SkipCapped(h) \/ PassKnown(h) \/ SkipDangling(h)
    BY <2>1, <2>3, PassInv
  <2>4. QED BY <2>1, <2>2, <2>3 DEF Look
<1>3. CASE Truncate \/ Return \/ UNCHANGED vars
  BY <1>3, EndInv
<1>4. QED BY <1>1, <1>2, <1>3 DEF Next

\* The invariant holds in every state of every call.
THEOREM Invariance == Spec => []IInv
<1>1. QED BY InitInv, NextInv, PTL DEF Spec

\* Every variable keeps its type.
THEOREM TypeCorrect == Spec => []TypeOK
<1>1. IInv => TypeOK
  BY DEF IInv
<1>2. QED BY <1>1, Invariance, PTL

\* closure_fixpoint returns a fixed point whenever its loop runs dry, for every
\* graph: cycles, diamonds, dangling edges and capped types included.
THEOREM ReachesFixedPoint == Spec => []FixedPoint
<1>1. IInv => FixedPoint
  <2>1. SUFFICES ASSUME IInv, pc = "done" PROVE FixedPoint
    BY DEF FixedPoint
  <2>2. Elements(queue) = {} /\ pending = {}
    BY <2>1, ElementsEmpty DEF IInv, Frontier
  <2>3. QED BY <2>1, <2>2 DEF IInv, Handled, Waiting, FixedPoint
<1>2. QED BY <1>1, Invariance, PTL

\* Every closure edge out of what it returns is followed or reported.
THEOREM DropsNothingSilently == Spec => []NothingDroppedSilently
<1>1. IInv => NothingDroppedSilently
  <2>1. SUFFICES ASSUME IInv, pc = "done" PROVE NothingDroppedSilently
    BY DEF NothingDroppedSilently
  <2>2. Elements(queue) = {} /\ pending = {}
    BY <2>1, ElementsEmpty DEF IInv, Frontier
  <2>3. QED BY <2>1, <2>2 DEF IInv, Logged, Waiting, NothingDroppedSilently
<1>2. QED BY <1>1, Invariance, PTL

\* Every collected node has a chain of admissible hops that brought it in.
THEOREM CollectsOnlyJustified == Spec => []Justified
<1>1. IInv => Justified
  BY DEF IInv
<1>2. QED BY <1>1, Invariance, PTL

\* Recorded hop counts are least, so the hop cap of a type never depends on the
\* order in which edges were read.
THEOREM RecordsShortest == Spec => []ShortestArrivals
<1>1. IInv => ShortestArrivals
  <2>1. SUFFICES ASSUME IInv, pc = "done" PROVE ShortestArrivals
    BY DEF ShortestArrivals
  <2>2. Elements(queue) = {} /\ pending = {}
    BY <2>1, ElementsEmpty DEF IInv, Frontier
  <2>3. QED BY <2>1, <2>2 DEF IInv, Handled, Waiting, ShortestArrivals
<1>2. QED BY <1>1, Invariance, PTL

-----------------------------------------------------------------------------
(* Leastness *)

\* A set of (id, hops) pairs that holds the seeds at 0 and, with every pair,
\* whatever one admissible hop makes of it.
Derives(D) ==
  /\ \A n \in Elements(seeds) : <<n, 0>> \in D
  /\ \A m \in NodeId, k \in Nat : \A h \in Followed(graph, m) :
       /\ <<m, k>> \in D
       /\ h.node \in graph.nodes
       /\ WithinCap(h.edge.type, k + 1)
       => <<h.node, k + 1>> \in D

WithinEvery == \A D \in SUBSET (NodeId \X Nat) :
                 Derives(D) => \A n \in Reached : <<n, arrivals[n]>> \in D

\* What is collected lies in every set that derivation closes over: with the
\* fixed point above, the result is the least one, and closure expansion drags
\* in nothing that the graph does not force.
THEOREM CollectsTheLeast == Spec => []WithinEvery
<1>1. Init => WithinEvery
  BY DEF Init, WithinEvery, Derives, Reached
<1>2. IInv /\ WithinEvery /\ [Next]_vars => WithinEvery'
  <2>1. SUFFICES ASSUME IInv, WithinEvery, [Next]_vars,
                        NEW D \in SUBSET (NodeId \X Nat), Derives(D)',
                        NEW n \in Reached'
                 PROVE  <<n, arrivals'[n]>> \in D
    BY DEF WithinEvery
  <2>2. UNCHANGED <<graph, seeds>>
    BY <2>1 DEF Next, Pop, Look, Truncate, Return, vars
  <2>3. Derives(D)
    BY <2>1, <2>2 DEF Derives
  <2>4. CASE \E h \in pending : Look(h) /\ Arrive(h)
    <3>1. PICK h \in pending : Look(h) /\ Arrive(h)
      BY <2>4
    <3>2. /\ current \in Reached /\ current \in NodeId /\ arrivals[current] \in Nat
          /\ h \in Followed(graph, current)
      BY <2>1, <3>1 DEF IInv, TypeOK, Frontier, Look, Walking
    <3>3. /\ n = h.node => arrivals'[n] = arrivals[current] + 1
          /\ n # h.node => n \in Reached /\ arrivals'[n] = arrivals[n]
          /\ h.node \in graph.nodes
          /\ WithinCap(h.edge.type, arrivals[current] + 1)
      BY <2>1, <3>1 DEF Arrive, NextHops, Reached
    <3>4. <<current, arrivals[current]>> \in D
      BY <2>1, <2>3, <3>2 DEF WithinEvery
    <3>5. <<h.node, arrivals[current] + 1>> \in D
      BY <2>3, <3>2, <3>3, <3>4 DEF Derives
    <3>6. QED BY <2>1, <2>3, <3>3, <3>5 DEF WithinEvery
  <2>5. CASE UNCHANGED arrivals
    BY <2>1, <2>3, <2>5 DEF WithinEvery, Reached
  <2>6. QED BY <2>1, <2>4, <2>5 DEF Next, Pop, Look, SkipCapped, PassKnown,
                                    SkipDangling, Truncate, Return, vars
<1>3. QED BY <1>1, <1>2, Invariance, PTL DEF Spec

-----------------------------------------------------------------------------
(* Refinement *)

\* The promise's policy operators are this module's.
LEMMA SamePolicy == \A t : Promise!ResolvePolicy(t) = ResolvePolicy(t)
<1>1. Promise!DefaultPolicy = DefaultPolicy
  BY DEF Promise!DefaultPolicy, DefaultPolicy, Promise!Rule, Rule
<1>2. /\ Promise!ClosureDefault = ClosureDefault
      /\ Promise!ContextDefault = ContextDefault
      /\ Promise!ClosureType = ClosureType
  BY DEF Promise!ClosureDefault, ClosureDefault, Promise!ContextDefault,
         ContextDefault, Promise!Rule, Rule, Promise!ClosureType, ClosureType
<1>3. QED BY <1>1, <1>2 DEF Promise!ResolvePolicy, ResolvePolicy

LEMMA SameFollowed == \A g, m : Promise!Followed(g, m) = Followed(g, m)
<1>1. \A t, d : Promise!Wanted(t, d) = Wanted(t, d)
  BY SamePolicy DEF Promise!Wanted, Wanted
<1>2. Promise!ClosureType = ClosureType
  BY DEF Promise!ClosureType, ClosureType
<1>3. \A g, m, T : /\ Promise!IncomingHops(g, m, T) = IncomingHops(g, m, T)
                   /\ Promise!OutgoingHops(g, m, T) = OutgoingHops(g, m, T)
  BY <1>1 DEF Promise!IncomingHops, IncomingHops, Promise!OutgoingHops, OutgoingHops
<1>4. \A g, m : Promise!ClosureHops(g, m) = ClosureHops(g, m)
  BY <1>2, <1>3 DEF Promise!ClosureHops, ClosureHops
<1>5. QED BY <1>4 DEF Promise!Followed, Followed

LEMMA SameCardinality == \A S : Promise!Cardinality(S) = Cardinality(S)
BY DEF Promise!Cardinality, Cardinality

\* How pc maps to the promise's status.
LEMMA StatusOf ==
  /\ pc = "walk" => Status = "running"
  /\ pc \in {"done", "truncated"} => Status = "returned"
BY DEF Status

LEMMA InitRefines == Init => Promise!Init
BY StatusOf DEF Init, Promise!Init, SeedSets, Reached

LEMMA NextRefines == IInv /\ IInv' /\ [Next]_vars => [Promise!Next]_(Promise!vars)
<1> SUFFICES ASSUME IInv, IInv', [Next]_vars
             PROVE  Promise!Next \/ UNCHANGED Promise!vars
  OBVIOUS
<1> USE DEF Promise!vars, Promise!Next
<1>1. CASE Pop \/ UNCHANGED vars
  BY <1>1 DEF Pop, vars, Reached, Status
<1>2. CASE \E h \in pending : Look(h)
  <2>1. PICK h \in pending : Look(h)
    BY <1>2
  <2>2. CASE SkipCapped(h) \/ PassKnown(h) \/ SkipDangling(h)
    BY <2>1, <2>2 DEF Look, SkipCapped, PassKnown, SkipDangling, Reached, Status
  <2>3. CASE Arrive(h)
    <3>1. current \in Reached /\ h \in Followed(graph, current)
      BY <2>1 DEF IInv, TypeOK, Frontier, Look, Walking
    <3>2. h.node \in graph.nodes /\ Reached' = Reached \cup {h.node}
      BY <2>3 DEF Arrive, Reached
    <3>3. /\ Status = "running" /\ UNCHANGED Status
          /\ UNCHANGED <<graph, Elements(seeds)>>
      BY <2>1, StatusOf DEF Look, Status
    <3>4. h \in Promise!Followed(graph, current)
      BY <3>1, SameFollowed
    <3>5. Promise!Collect
      BY <3>1, <3>2, <3>3, <3>4 DEF Promise!Collect
    <3>6. QED BY <3>5
  <2>4. QED BY <2>1, <2>2, <2>3 DEF Look
<1>3. CASE Truncate
  <2>1. /\ pc = "walk" /\ pc' = "truncated" /\ iterations = MaxIterations
        /\ queue # <<>> /\ queue \in Seq(NodeId)
        /\ UNCHANGED <<graph, seeds, arrivals>> /\ Reached' = Reached
    BY <1>3 DEF Truncate, Reached, IInv, TypeOK
  <2>2. Len(queue) \in Nat \ {0}
    BY <2>1
  <2>3. Cardinality(Reached) = MaxIterations + Len(queue)
    BY <2>1 DEF IInv, Counted
  <2>4. ~(Cardinality(Reached) <= MaxIterations)
    BY <2>2, <2>3, MaxIterationsAssumption
  <2>5. Status = "running" /\ Status' = "returned"
    BY <2>1 DEF Status
  <2>6. Promise!Deliver
    BY <2>1, <2>4, <2>5, SameCardinality DEF Promise!Deliver
  <2>7. QED BY <2>6
<1>4. CASE Return
  <2>1. pc = "walk" /\ pc' = "done" /\ UNCHANGED <<graph, seeds, arrivals>>
        /\ Elements(queue) = {} /\ pending = {} /\ Reached' = Reached
    BY <1>4, ElementsEmpty DEF Return, Reached
  <2>2. \A m \in Reached : \A h \in Followed(graph, m) :
          /\ ResolvePolicy(h.edge.type).max_hops = NoCap
          /\ h.node \in graph.nodes
          => h.node \in Reached
    BY <2>1 DEF IInv, Handled, Waiting, WithinCap
  <2>3. Promise!Deliver
    <3>1. Promise!ClosedSet(Reached)
      BY <2>2, SamePolicy, SameFollowed DEF Promise!ClosedSet
    <3>2. Status = "running" /\ Status' = "returned"
      BY <2>1 DEF Status
    <3>3. QED BY <2>1, <3>1, <3>2 DEF Promise!Deliver
  <2>4. QED BY <2>3
<1>5. QED BY <1>1, <1>2, <1>3, <1>4 DEF Next

\* The walk implements the abstract promise: initial states map to initial
\* states and every step to a step of the promise or to none.
THEOREM ImplementsPromise == Spec => KeepsPromise
<1>1. QED BY InitRefines, NextRefines, Invariance, PTL
          DEF Spec, KeepsPromise, Promise!Spec
=============================================================================
