--------------------------- MODULE ClosureFixpoint ---------------------------
(***************************************************************************)
(* One call of closure_fixpoint (src/dge/traversal/expand.py): a FIFO walk *)
(* over closure edges from the seeds.  The walk has no budget and no depth *)
(* limit of its own; an edge type may carry a cap on the number of hops    *)
(* from the seeds at which it is still followed.                           *)
(*                                                                         *)
(* One iteration of the while loop is a Pop, which makes the two index     *)
(* reads, and one step per hop the reads returned.  The database and the   *)
(* fixture graph return the edges of an index in no promised order, so the *)
(* steps take them in any order, those of the incoming index first.        *)
(***************************************************************************)
EXTENDS EdgePolicy, Sequences, FiniteSets

CONSTANTS
  Graphs,         \* the graphs a call may be given
  SeedLists,      \* the seed lists, in rank order and without repetitions
  MaxIterations   \* max_iterations, 10000 in the code

ASSUME GraphsAssumption == Graphs \subseteq Graph
ASSUME SeedListsAssumption ==
  /\ SeedLists \subseteq Seq(NodeId)
  /\ \A s \in SeedLists :
       \A i, j \in 1..Len(s) : s[i] = s[j] => i = j
ASSUME MaxIterationsAssumption == MaxIterations \in Nat

VARIABLES
  graph,        \* the graph the call reads
  seeds,        \* the seeds argument
  pc,           \* "walk", then "done" or "truncated"
  queue,        \* ids that have arrived and are not yet expanded
  current,      \* the id being expanded, once there was one
  pending,      \* hops of the current id not yet looked at
  arrivals,     \* id -> hops at which it arrived
  skipped,      \* the SkippedEdge entries
  iterations

vars == <<graph, seeds, pc, queue, current, pending, arrivals, skipped,
          iterations>>

Elements(s) == {s[i] : i \in 1..Len(s)}
Reached == DOMAIN arrivals

Skip == [edge : Edge, node : NodeId, reason : {"confidence", "cap", "dangling"}]
SkipOf(h, why) == [edge |-> h.edge, node |-> h.node, reason |-> why]

TypeOK ==
  /\ graph \in Graph
  /\ seeds \in Seq(NodeId)
  /\ pc \in {"walk", "done", "truncated"}
  /\ queue \in Seq(NodeId)
  /\ current \in NodeId \cup {"none"}
  /\ pending \subseteq Hop
  /\ Reached \subseteq NodeId
  /\ arrivals \in [Reached -> Nat]
  /\ skipped \subseteq Skip
  /\ iterations \in 0..MaxIterations + 1

-----------------------------------------------------------------------------
Init ==
  /\ graph \in Graphs
  /\ seeds \in SeedLists
  /\ pc = "walk"
  /\ queue = seeds
  /\ current = "none"
  /\ pending = {}
  /\ arrivals = [n \in Elements(seeds) |-> 0]
  /\ skipped = {}
  /\ iterations = 0

\* Mutant: closure_neighbors' second result is thrown away.
PopSilently ==
  /\ pc = "walk" /\ pending = {} /\ queue # <<>>
  /\ iterations < MaxIterations
  /\ iterations' = iterations + 1
  /\ current' = Head(queue)
  /\ queue' = Tail(queue)
  /\ pending' = Followed(graph, Head(queue))
  /\ UNCHANGED <<graph, seeds, pc, arrivals, skipped>>

\* The next id leaves the queue and both of its indexes are read; the edges
\* below the confidence threshold are reported at once.
Pop ==
  /\ pc = "walk" /\ pending = {} /\ queue # <<>>
  /\ iterations < MaxIterations
  /\ iterations' = iterations + 1
  /\ current' = Head(queue)
  /\ queue' = Tail(queue)
  /\ pending' = Followed(graph, Head(queue))
  /\ skipped' = skipped \cup
                  {SkipOf(h, "confidence") : h \in SkippedLow(graph, Head(queue))}
  /\ UNCHANGED <<graph, seeds, pc, arrivals>>

\* Mutant: the last iteration the cap allows is cut off too.
TruncateEarly ==
  /\ pc = "walk" /\ pending = {} /\ queue # <<>>
  /\ iterations + 1 >= MaxIterations
  /\ iterations' = iterations + 1
  /\ pc' = "truncated"
  /\ UNCHANGED <<graph, seeds, queue, current, pending, arrivals, skipped>>

\* The iteration cap is passed: the walk reports what it has.  That the loop was
\* left by its break is known here only; the result does not show it.
Truncate ==
  /\ pc = "walk" /\ pending = {} /\ queue # <<>>
  /\ iterations = MaxIterations
  /\ iterations' = iterations + 1
  /\ pc' = "truncated"
  /\ UNCHANGED <<graph, seeds, queue, current, pending, arrivals, skipped>>

\* A hop whose turn it is in the for loop.
Ready(h) ==
  /\ h \in pending
  /\ h.dir = "forward" => \A k \in pending : k.dir = "forward"

NextHops == arrivals[current] + 1

\* Mutant: the cap bites one hop early.
SkipCappedEarly(h) ==
  /\ ~WithinCap(h.edge.type, NextHops + 1)
  /\ skipped' = skipped \cup {SkipOf(h, "cap")}
  /\ UNCHANGED <<queue, arrivals>>

SkipCapped(h) ==
  /\ ~WithinCap(h.edge.type, NextHops)
  /\ skipped' = skipped \cup {SkipOf(h, "cap")}
  /\ UNCHANGED <<queue, arrivals>>

PassKnown(h) ==
  /\ WithinCap(h.edge.type, NextHops)
  /\ h.node \in Reached
  /\ UNCHANGED <<queue, arrivals, skipped>>

SkipDangling(h) ==
  /\ WithinCap(h.edge.type, NextHops)
  /\ h.node \notin Reached \cup graph.nodes
  /\ skipped' = skipped \cup {SkipOf(h, "dangling")}
  /\ UNCHANGED <<queue, arrivals>>

\* Mutant: the neighbour is put at the front, a depth-first walk.
ArriveDepthFirst(h) ==
  /\ WithinCap(h.edge.type, NextHops)
  /\ h.node \in graph.nodes \ Reached
  /\ arrivals' = [n \in Reached \cup {h.node} |->
                    IF n = h.node THEN NextHops ELSE arrivals[n]]
  /\ queue' = <<h.node>> \o queue
  /\ UNCHANGED skipped

\* Mutant: the visited test is lost, so a cycle re-enters the queue.
ArriveAgain(h) ==
  /\ WithinCap(h.edge.type, NextHops)
  /\ h.node \in graph.nodes
  /\ arrivals' = [n \in Reached \cup {h.node} |->
                    IF n = h.node THEN NextHops ELSE arrivals[n]]
  /\ queue' = Append(queue, h.node)
  /\ UNCHANGED skipped

\* Mutant: the cap is not looked at.
ArriveUncapped(h) ==
  /\ h.node \in graph.nodes \ Reached
  /\ arrivals' = [n \in Reached \cup {h.node} |->
                    IF n = h.node THEN NextHops ELSE arrivals[n]]
  /\ queue' = Append(queue, h.node)
  /\ UNCHANGED skipped

Arrive(h) ==
  /\ WithinCap(h.edge.type, NextHops)
  /\ h.node \in graph.nodes \ Reached
  /\ arrivals' = [n \in Reached \cup {h.node} |->
                    IF n = h.node THEN NextHops ELSE arrivals[n]]
  /\ queue' = Append(queue, h.node)
  /\ UNCHANGED skipped

\* One turn of the inner loop.
Look(h) ==
  /\ pc = "walk"
  /\ Ready(h)
  /\ SkipCapped(h) \/ PassKnown(h) \/ SkipDangling(h) \/ Arrive(h)
  /\ pending' = pending \ {h}
  /\ UNCHANGED <<graph, seeds, pc, current, iterations>>

Return ==
  /\ pc = "walk" /\ pending = {} /\ queue = <<>>
  /\ pc' = "done"
  /\ UNCHANGED <<graph, seeds, queue, current, pending, arrivals, skipped,
                 iterations>>

Next == Pop \/ Truncate \/ (\E h \in pending : Look(h)) \/ Return

Spec == Init /\ [][Next]_vars

\* The call runs in one thread that nothing suspends.
FairSpec == Spec /\ WF_vars(Next)
-----------------------------------------------------------------------------
(* Safety *)

\* When the walk ends by itself, every closure neighbour of every collected
\* node is collected too, unless its edge was under the threshold, led to no
\* node, or was past its type's cap.  This is what query.py means by "closure
\* runs to a fixed point": chains, cycles and diamonds included.
FixedPoint ==
  pc = "done" =>
    \A m \in Reached : \A h \in Followed(graph, m) :
      \/ h.node \in Reached
      \/ h.node \notin graph.nodes
      \/ ~WithinCap(h.edge.type, arrivals[m] + 1)

\* When the walk ends by itself, a closure edge out of the collected set that
\* was not followed is on the skipped list: SkippedEdge's "never silently
\* dropped".
NothingDroppedSilently ==
  pc = "done" =>
    \A m \in Reached : \A h \in ClosureHops(graph, m) :
      \/ h.node \in Reached
      \/ \E s \in skipped : s.edge = h.edge /\ s.node = h.node

\* Nothing is collected without a reason: a node that is no seed arrived over a
\* followed, uncapped hop from a node collected exactly one hop earlier.
Justified ==
  \A n \in Reached :
    \/ n \in Elements(seeds) /\ arrivals[n] = 0
    \/ \E m \in Reached : \E h \in Followed(graph, m) :
         /\ h.node = n /\ n \in graph.nodes
         /\ arrivals[n] = arrivals[m] + 1
         /\ WithinCap(h.edge.type, arrivals[n])

\* When the walk ends by itself, no hop it could have taken would bring a node
\* in earlier than recorded.  With Justified this makes every recorded hop
\* count the least one, so a type's cap cuts a node off only when every chain
\* to it is too long, whatever order the edges came in.
ShortestArrivals ==
  pc = "done" =>
    \A m \in Reached : \A h \in Followed(graph, m) :
      /\ h.node \in graph.nodes
      /\ WithinCap(h.edge.type, arrivals[m] + 1)
      => h.node \in Reached /\ arrivals[h.node] <= arrivals[m] + 1

-----------------------------------------------------------------------------
(* Liveness and refinement *)

\* A call on a graph that fits under the iteration cap ends by reaching its
\* fixed point, whatever cycles the graph has.
Completes ==
  (Cardinality(graph.nodes \cup Elements(seeds)) <= MaxIterations)
    ~> (pc = "done")

SeedSets == {Elements(s) : s \in SeedLists}

\* What a caller sees: both ends of the loop return the same kind of result.
Status == IF pc = "walk" THEN "running" ELSE "returned"

Promise == INSTANCE ClosurePromise WITH
  seeds <- Elements(seeds), reached <- Reached, status <- Status

\* The walk keeps the promise of closure expansion, and the cap cuts short only
\* what outgrows it: a caller who counts the ids of a result and finds no more
\* than max_iterations holds a closed set, though the result has no flag for it.
KeepsPromise == Promise!Spec
=============================================================================
