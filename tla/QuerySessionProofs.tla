------------------------- MODULE QuerySessionProofs -------------------------
(***************************************************************************)
(* Proofs about one query and its answer while another process commits to  *)
(* the bundle, for every graph, every seed list, any number of commits and *)
(* any number of rounds of verify_answer; about the fusion of any two      *)
(* rankings that seeds it; and about the text that is delivered, whatever  *)
(* passages it is assembled from and whatever terms the bundle defines.    *)
(***************************************************************************)
EXTENDS DeliveredContext, ClosureFixpointProofs, DataLemmas

\* Edges there all the while are there now.
Since == baseline \subseteq graph.edges

\* A step that changes the graph takes no edge from what a node's old
\* neighbours are and brings none in: a commit can only age an edge out.
LEMMA OldNeighboursShrink ==
  ASSUME Since, Commit, NEW m
  PROVE  OldNeighbours(m)' \subseteq OldNeighbours(m)
<1>1. graph'.nodes = graph.nodes /\ baseline' \subseteq baseline
  BY DEF Commit
<1>2. \A k \in Followed(graph', m) : k.edge \in baseline' => k \in Followed(graph, m)
  BY <1>1 DEF Since, Followed, ClosureHops, IncomingHops, OutgoingHops
<1>3. QED BY <1>1, <1>2 DEF OldNeighbours

\* The other steps leave the graph alone, and all but a new answer the baseline.
LEMMA GraphKept ==
  ASSUME Query \/ UNCHANGED allvars
  PROVE  graph' = graph /\ (~Answer => baseline' = baseline)
BY DEF Query, Expand, Next, Pop, Truncate, Look, Return, BeginContext, AddContext,
       Assemble, LookUp, ReturnResult, Answer, Judge, allvars, session

LEMMA SinceInit == SInit => Since
BY DEF SInit, Since

LEMMA SinceNext == TypeOK /\ Since /\ [SNext]_allvars => Since'
<1> SUFFICES ASSUME TypeOK, Since, [SNext]_allvars PROVE Since'
  OBVIOUS
<1>1. CASE Commit
  <2>1. PICK e \in Writes : \E old \in SUBSET Versions(graph, e) :
          /\ graph' = [graph EXCEPT !.edges = (@ \ old) \cup {e}]
          /\ baseline' = baseline \ old
    BY <1>1 DEF Commit
  <2>2. PICK old \in SUBSET Versions(graph, e) :
          /\ graph'.edges = (graph.edges \ old) \cup {e}
          /\ baseline' = baseline \ old
    <3>1. graph \in Graph
      BY DEF TypeOK
    <3>2. QED BY <2>1, <3>1 DEF Graph
  <2>3. QED BY <2>2 DEF Since
<1>2. CASE Query \/ UNCHANGED allvars
  BY <1>2, GraphKept DEF Since, Answer
<1>3. QED BY <1>1, <1>2 DEF SNext

-----------------------------------------------------------------------------
(* The walk while the graph changes under it *)

\* What the walk's control keeps whatever is committed; compare Frontier.
WalkOK ==
  /\ TypeOK
  /\ Elements(queue) \subseteq Reached
  /\ iterations = 0 => pending = {}
  /\ Walking => current \in Reached
  /\ pc = "done" => queue = <<>> /\ pending = {}
  /\ \A s \in Seeds : s \in Reached /\ arrivals[s] = 0

\* Handled, of the old edges alone: a commit undoes it for the others.
OldHandled ==
  \A m \in Reached \ Elements(queue) : \A h \in Followed(graph, m) :
    h.edge \in baseline =>
      \/ Waiting(m, h)
      \/ h.node \notin graph.nodes
      \/ ~WithinCap(h.edge.type, arrivals[m] + 1)
      \/ h.node \in Reached

LEMMA WalkInit == SInit => WalkOK /\ OldHandled
<1> SUFFICES ASSUME SInit PROVE WalkOK /\ OldHandled
  OBVIOUS
<1>1. TypeOK
  BY InitType DEF SInit
<1>2. Reached = Elements(seeds) /\ queue = seeds /\ iterations = 0 /\ pending = {}
      /\ pc = "walk"
  BY DEF SInit, Init, Reached
<1>3. \A s \in Seeds : s \in Reached /\ arrivals[s] = 0
  BY <1>2 DEF SInit, Init, Seeds
<1>4. QED BY <1>1, <1>2, <1>3 DEF WalkOK, OldHandled, Walking

LEMMA WalkPop ==
  ASSUME WalkOK, OldHandled, Pop, baseline' = baseline
  PROVE  WalkOK' /\ OldHandled'
<1> DEFINE hd == Head(queue)
<1>1. TypeOK' /\ hd \in NodeId
  BY PopType DEF WalkOK
<1>2. /\ queue \in Seq(NodeId) /\ queue # <<>> /\ pending = {}
      /\ queue' = Tail(queue) /\ current' = hd
      /\ pending' = Followed(graph, hd)
      /\ UNCHANGED <<graph, seeds, pc, arrivals>> /\ Reached' = Reached
      /\ iterations' = iterations + 1 /\ iterations \in Nat /\ pc = "walk"
  BY DEF WalkOK, TypeOK, Pop, Reached
<1>3. Elements(queue) = {hd} \cup Elements(queue')
  BY <1>2, ElementsTail
<1>4. WalkOK'
  BY <1>1, <1>2, <1>3 DEF WalkOK, Walking, Seeds
<1>5. OldHandled'
  <2>1. SUFFICES ASSUME NEW m \in Reached \ Elements(queue'),
                        NEW h \in Followed(graph, m), h.edge \in baseline
                 PROVE  \/ m = hd /\ h \in pending'
                        \/ h.node \notin graph.nodes
                        \/ ~WithinCap(h.edge.type, arrivals[m] + 1)
                        \/ h.node \in Reached
    BY <1>2 DEF OldHandled, Waiting
  <2>2. CASE m = hd
    BY <2>2, <1>2
  <2>3. CASE m # hd
    BY <2>1, <2>3, <1>2, <1>3 DEF OldHandled, Waiting
  <2>4. QED BY <2>2, <2>3
<1>6. QED BY <1>4, <1>5

LEMMA WalkLook ==
  ASSUME WalkOK, OldHandled, NEW h \in pending, Look(h), baseline' = baseline
  PROVE  WalkOK' /\ OldHandled'
<1>1. /\ iterations > 0 /\ current \in Reached /\ Walking
  BY DEF WalkOK, TypeOK, Look, Walking
<1>2. TypeOK'
  BY <1>1, LookType DEF WalkOK
<1>3. /\ UNCHANGED <<graph, seeds, pc, current, iterations>> /\ pc = "walk"
      /\ pending' = pending \ {h}
  BY DEF Look
<1>4. CASE SkipCapped(h) \/ PassKnown(h) \/ SkipDangling(h)
  <2>1. UNCHANGED <<queue, arrivals>> /\ Reached' = Reached
    BY <1>4 DEF SkipCapped, PassKnown, SkipDangling, Reached
  <2>2. \/ h.node \notin graph.nodes
        \/ ~WithinCap(h.edge.type, arrivals[current] + 1)
        \/ h.node \in Reached
    BY <1>4 DEF SkipCapped, PassKnown, SkipDangling, NextHops
  <2>3. WalkOK'
    BY <1>1, <1>2, <1>3, <2>1 DEF WalkOK, Walking, Seeds
  <2>4. OldHandled'
    BY <1>3, <2>1, <2>2 DEF OldHandled, Waiting
  <2>5. QED BY <2>3, <2>4
<1>5. CASE Arrive(h)
  <2> DEFINE n == h.node
  <2>1. /\ queue' = Append(queue, n) /\ n \notin Reached
        /\ Reached' = Reached \cup {n}
        /\ \A m \in Reached : arrivals'[m] = arrivals[m]
    BY <1>5 DEF Arrive, Reached
  <2>2. Elements(queue') = Elements(queue) \cup {n}
    <3>1. queue \in Seq(NodeId) /\ n \in NodeId
      BY PendingHop DEF WalkOK, TypeOK
    <3>2. QED BY <2>1, <3>1, ElementsAppend
  <2>3. WalkOK'
    BY <1>1, <1>2, <1>3, <2>1, <2>2 DEF WalkOK, Walking, Seeds
  <2>4. OldHandled'
    <3>1. SUFFICES ASSUME NEW m \in Reached \ Elements(queue),
                          NEW k \in Followed(graph, m), k.edge \in baseline
                   PROVE  \/ m = current /\ k \in pending \ {h}
                          \/ k.node \notin graph.nodes
                          \/ ~WithinCap(k.edge.type, arrivals[m] + 1)
                          \/ k.node \in Reached'
      BY <1>3, <2>1, <2>2 DEF OldHandled, Waiting
    <3>2. CASE m = current /\ k = h
      BY <3>2, <2>1
    <3>3. CASE ~(m = current /\ k = h)
      BY <3>1, <3>3, <2>1 DEF OldHandled, Waiting
    <3>4. QED BY <3>2, <3>3
  <2>5. QED BY <2>3, <2>4
<1>6. QED BY <1>4, <1>5 DEF Look

LEMMA WalkEnd ==
  ASSUME WalkOK, OldHandled, Truncate \/ Return, baseline' = baseline
  PROVE  WalkOK' /\ OldHandled'
<1>1. /\ UNCHANGED <<graph, seeds, queue, current, pending, arrivals>>
      /\ Reached' = Reached /\ pc = "walk" /\ iterations \in Nat
  BY DEF WalkOK, TypeOK, Truncate, Return, Reached
<1>2. TypeOK'
  BY <1>1, MaxIterationsAssumption DEF WalkOK, TypeOK, Truncate, Return
<1>3. (Walking' => Walking) /\ (iterations' = 0 => iterations = 0)
  BY <1>1 DEF Truncate, Return, Walking
<1>4. pc' = "done" => queue = <<>> /\ pending = {}
  BY DEF Truncate, Return
<1>5. QED BY <1>1, <1>2, <1>3, <1>4 DEF WalkOK, OldHandled, Waiting, Seeds

\* A commit between two reads of the walk, or between a read and the turns of
\* the loop over what it returned.
LEMMA WalkCommit ==
  ASSUME WalkOK, Since, Commit
  PROVE  WalkOK' /\ (OldHandled => OldHandled')
<1>1. UNCHANGED walk /\ Reached' = Reached
  BY DEF Commit, walk, Reached
<1>2. PICK e \in Writes : \E old \in SUBSET Versions(graph, e) :
        graph' = [graph EXCEPT !.edges = (@ \ old) \cup {e}]
  BY DEF Commit
<1>3. graph' \in Graph /\ graph'.nodes = graph.nodes
  BY <1>2, WritesAssumption DEF WalkOK, TypeOK, Graph
<1>4. WalkOK'
  BY <1>1, <1>3 DEF WalkOK, TypeOK, walk, Walking, Seeds, Reached
<1>5. baseline' \subseteq baseline
  BY DEF Commit
<1>6. \A m : \A k \in Followed(graph', m) : k.edge \in baseline' => k \in Followed(graph, m)
  BY <1>5 DEF Since, Followed, ClosureHops, IncomingHops, OutgoingHops
<1>7. OldHandled => OldHandled'
  BY <1>1, <1>3, <1>5, <1>6 DEF OldHandled, Waiting, walk
<1>8. QED BY <1>4, <1>7

\* Once closure has run dry, what it reached holds the seeds' old neighbours, and
\* so does the context that grows from it.
Honoured ==
  pc = "done" /\ cited = {} /\ phase # "closure" =>
    \A s \in Seeds : OldNeighbours(s) \subseteq included

SInv == WalkOK /\ Since /\ (phase = "closure" => OldHandled)

LEMMA SInvHolds == SSpec => []SInv
<1>1. SInit => SInv
  BY WalkInit DEF SInit, Since, SInv
<1>2. SInv /\ [SNext]_allvars => SInv'
  <2> SUFFICES ASSUME SInv, [SNext]_allvars PROVE SInv'
    OBVIOUS
  <2>1. Since'
    BY SinceNext DEF SInv, WalkOK
  <2>2. CASE Commit
    BY <2>1, <2>2, WalkCommit DEF SInv, Commit
  <2>3. CASE Expand
    <3>1. baseline' = baseline /\ OldHandled /\ Next
      BY <2>3 DEF Expand, session, SInv
    <3>2. WalkOK' /\ OldHandled'
      BY <3>1, WalkPop, WalkLook, WalkEnd DEF Next, SInv
    <3>3. QED BY <2>1, <3>2 DEF SInv
  <2>4. CASE (Query /\ ~Expand) \/ UNCHANGED allvars
    <3>1. UNCHANGED <<graph, walk>> /\ Reached' = Reached
      BY <2>4 DEF Query, BeginContext, AddContext, Assemble, LookUp, ReturnResult,
                  Answer, Judge, allvars, walk, Reached
    <3>2. WalkOK'
      BY <3>1 DEF SInv, WalkOK, TypeOK, walk, Walking, Seeds
    <3>3. phase' = "closure" => UNCHANGED allvars
      BY <2>4 DEF Query, BeginContext, AddContext, Assemble, LookUp, ReturnResult,
                  Answer, Judge
    <3>4. phase' = "closure" => OldHandled'
      BY <3>3 DEF SInv, OldHandled, Waiting, Reached, allvars, walk, session
    <3>5. QED BY <2>1, <3>2, <3>4 DEF SInv
  <2>5. QED BY <2>2, <2>3, <2>4 DEF SNext
<1>3. QED BY <1>1, <1>2, PTL DEF SSpec

LEMMA SinceHolds == SSpec => []Since
<1>1. SInv => Since
  BY DEF SInv
<1>2. QED BY <1>1, SInvHolds, PTL

\* No pack cuts a closure type off at its very first edge.
FirstHopIsFree == \A t \in ClosureType : WithinCap(t, 1)

\* The table of policy.py does not.
LEMMA TableFirstHop == DOMAIN PackOverrides = {} => FirstHopIsFree
<1> SUFFICES ASSUME DOMAIN PackOverrides = {}, NEW t \in ClosureType
             PROVE  WithinCap(t, 1)
  BY DEF FirstHopIsFree
<1>1. t \in {"exception_of", "supersedes", "amends", "conditioned_on", "defines"}
  BY DEF ClosureType
<1>2. ResolvePolicy(t).max_hops \in {NoCap, 2}
  BY <1>1 DEF ResolvePolicy, DefaultPolicy, Rule
<1>3. QED BY <1>2 DEF WithinCap

\* run_query's context (query.py) holds every closure neighbour of a seed over
\* every edge that was there throughout, for any commits between its reads, as
\* long as no closure type is capped at no hops at all: a pack that did so would
\* have the check of the seeds complain of what the walk may not follow.
THEOREM SeedsAreCovered == FirstHopIsFree => (SSpec => []OldEdgesAreHonoured)
<1> SUFFICES ASSUME FirstHopIsFree PROVE SSpec => []OldEdgesAreHonoured
  OBVIOUS
<1>1. SInit => Honoured
  BY DEF SInit, Honoured
<1>2. SInv /\ Honoured /\ [SNext]_allvars => Honoured'
  <2> SUFFICES ASSUME SInv, Honoured, [SNext]_allvars PROVE Honoured'
    OBVIOUS
  <2>1. CASE Commit
    BY <2>1, OldNeighboursShrink DEF Commit, walk, Honoured, SInv, Seeds
  <2>2. CASE Expand
    BY <2>2 DEF Expand, session, Honoured
  <2>3. CASE Answer
    BY <2>3 DEF Answer, Honoured
  <2>4. CASE BeginContext
    <3>1. SUFFICES ASSUME pc = "done", NEW s \in Seeds
                   PROVE  OldNeighbours(s) \subseteq Reached
      BY <2>4 DEF BeginContext, walk, Honoured, OldNeighbours, Seeds
    <3>2. OldHandled /\ s \in Reached /\ arrivals[s] = 0 /\ pending = {}
          /\ Elements(queue) = {}
      BY <2>4, <3>1, ElementsEmpty DEF BeginContext, SInv, WalkOK
    <3>3. \A h \in Followed(graph, s) : WithinCap(h.edge.type, arrivals[s] + 1)
      BY <3>2 DEF FirstHopIsFree, Followed, ClosureHops, IncomingHops, OutgoingHops
    <3>4. QED BY <3>2, <3>3 DEF OldHandled, Waiting, OldNeighbours
  <2>5. CASE AddContext \/ Assemble \/ LookUp \/ ReturnResult \/ Judge
             \/ UNCHANGED allvars
    <3>1. /\ UNCHANGED <<graph, walk, cited>>
          /\ phase # "closure" \/ UNCHANGED phase
          /\ included \cap graph.nodes \subseteq included'
      BY <2>5 DEF AddContext, Assemble, LookUp, ReturnResult, Judge, allvars, session
    <3>2. \A s : OldNeighbours(s)' = OldNeighbours(s)
      BY <2>5 DEF AddContext, Assemble, LookUp, ReturnResult, Judge, allvars, session,
                  OldNeighbours
    <3>3. \A s : OldNeighbours(s) \subseteq graph.nodes
      BY DEF OldNeighbours
    <3>4. phase' # "closure" => phase # "closure"
      BY <2>5 DEF AddContext, Assemble, LookUp, ReturnResult, Judge, allvars, session
    <3>5. QED BY <3>1, <3>2, <3>3, <3>4 DEF Honoured, walk, Seeds
  <2>6. QED BY <2>1, <2>2, <2>3, <2>4, <2>5 DEF SNext, Query
<1>3. Honoured => OldEdgesAreHonoured
  BY DEF Honoured, OldEdgesAreHonoured
<1>4. QED BY <1>1, <1>2, <1>3, SInvHolds, PTL DEF SSpec

-----------------------------------------------------------------------------
(* The product guarantee *)

\* While an answer is verified, the old neighbours of every citation looked up
\* so far are in the context it was made from or on the missing list.
Verified ==
  /\ phase = "verify" =>
       /\ given = included
       /\ \A c \in cited \ unchecked : OldNeighbours(c) \subseteq given \cup missing
  /\ Guarantee

\* An accepted answer (verify_answer, query.py) had every closure neighbour of
\* every citation in its context, whatever was committed while it was verified.
THEOREM AcceptedIsComplete == SSpec => []Guarantee
<1>1. SInit => Verified
  BY DEF SInit, Verified, Guarantee
<1>2. Since /\ Verified /\ [SNext]_allvars => Verified'
  <2> SUFFICES ASSUME Since, Verified, [SNext]_allvars PROVE Verified'
    OBVIOUS
  <2>1. CASE Commit
    BY <2>1, OldNeighboursShrink DEF Commit, Verified, Guarantee
  <2>2. CASE Answer
    BY <2>2 DEF Answer, Verified, Guarantee
  <2>3. CASE (Query /\ ~Answer) \/ UNCHANGED allvars
    <3>0. graph' = graph /\ baseline' = baseline
      BY <2>3, GraphKept DEF allvars, session
    <3>1. \A m : OldNeighbours(m)' = OldNeighbours(m)
      BY <3>0 DEF OldNeighbours
    <3>2. CASE LookUp
      <4>1. PICK c \in unchecked :
              /\ unchecked' = unchecked \ {c}
              /\ missing' = missing \cup MissingFrom(c, included)
        BY <3>2 DEF LookUp
      <4>2. OldNeighbours(c) \subseteq included \cup MissingFrom(c, included)
        BY DEF OldNeighbours, MissingFrom
      <4>3. QED BY <3>1, <3>2, <4>1, <4>2 DEF LookUp, Verified, Guarantee
    <3>3. CASE Judge
      BY <3>1, <3>3 DEF Judge, Verified, Guarantee
    <3>4. CASE Expand \/ BeginContext \/ AddContext \/ Assemble \/ ReturnResult
               \/ UNCHANGED allvars
      BY <3>1, <3>4 DEF Expand, BeginContext, AddContext, Assemble, ReturnResult,
                        allvars, session, Verified, Guarantee
    <3>5. QED BY <2>3, <3>2, <3>3, <3>4 DEF Query
  <2>4. QED BY <2>1, <2>2, <2>3 DEF SNext
<1>3. Verified => Guarantee
  BY DEF Verified
<1>4. QED BY <1>1, <1>2, <1>3, SinceHolds, PTL DEF SSpec

-----------------------------------------------------------------------------
(* Fusion of two rankings *)

\* Comparing fractions with positive denominators by multiplying crosswise is
\* an order: from a/b >= c/d >= e/f follows a/b >= e/f, strictly if one is.
LEMMA FractionOrder ==
  ASSUME NEW a \in Nat, NEW b \in Nat \ {0}, NEW c \in Nat, NEW d \in Nat \ {0},
         NEW e \in Nat, NEW f \in Nat \ {0}, a * d >= c * b, c * f >= e * d
  PROVE  /\ a * f >= e * b
         /\ a * d > c * b \/ c * f > e * d => a * f > e * b
<1>1. /\ d * (a * f) = (a * d) * f /\ d * (e * b) = (e * d) * b
      /\ (c * b) * f = (c * f) * b
  OBVIOUS
<1>2. (a * d) * f >= (c * b) * f /\ (c * f) * b >= (e * d) * b
  OBVIOUS
<1>3. /\ a * d > c * b => (a * d) * f > (c * b) * f
      /\ c * f > e * d => (c * f) * b > (e * d) * b
  OBVIOUS
<1>4. \A x, y \in Nat : (d * x >= d * y => x >= y) /\ (d * x > d * y => x > y)
  OBVIOUS
<1>5. a * f \in Nat /\ e * b \in Nat /\ a * d \in Nat /\ c * b \in Nat /\ c * f \in Nat /\ e * d \in Nat
  OBVIOUS
<1>6. PICK p, q, r, s, t, u \in Nat : p = (a * d) * f /\ q = (c * b) * f /\ r = (e * d) * b
        /\ s = d * (a * f) /\ t = d * (e * b) /\ u = (c * f) * b
  BY <1>5
<1>7. s >= t /\ (a * d > c * b \/ c * f > e * d => s > t)
  BY <1>1, <1>2, <1>3, <1>6
<1> QED BY <1>4, <1>5, <1>6, <1>7

\* Ranks are numbers from 1, distinct for distinct ids.
LEMMA RankIs ==
  ASSUME NEW S, NEW s \in Seq(S), IsInjective(s)
  PROVE  /\ \A x \in ToSet(s) : /\ RankIn(s, x) \in DOMAIN s /\ s[RankIn(s, x)] = x
                                /\ RankIn(s, x) \in Nat \ {0}
         /\ \A x, y \in ToSet(s) : x # y => RankIn(s, x) # RankIn(s, y)
<1>1. ASSUME NEW x \in ToSet(s)
      PROVE  /\ RankIn(s, x) \in DOMAIN s /\ s[RankIn(s, x)] = x
             /\ RankIn(s, x) \in Nat \ {0}
  <2>1. \E i \in DOMAIN s : s[i] = x
    BY DEF ToSet
  <2>2. RankIn(s, x) \in DOMAIN s /\ s[RankIn(s, x)] = x
    BY <2>1 DEF RankIn
  <2>3. DOMAIN s = 1..Len(s) /\ Len(s) \in Nat
    OBVIOUS
  <2> QED BY <2>2, <2>3
<1> QED BY <1>1

\* What is known of a pair of rankings.
Fusable(pair) == pair \in [dense : Rankable, sparse : Rankable]

Positive == Nat \ {0}

LEMMA Weights ==
  ASSUME NEW pair, Fusable(pair)
  PROVE  /\ pair.dense \in Seq(ToSet(IdOrder)) /\ IsInjective(pair.dense)
         /\ pair.sparse \in Seq(ToSet(IdOrder)) /\ IsInjective(pair.sparse)
         /\ \A s \in {pair.dense, pair.sparse} : \A x \in ToSet(s) :
              RankIn(s, x) \in Positive /\ Damping + RankIn(s, x) \in Positive
<1>1. /\ pair.dense \in Seq(ToSet(IdOrder)) /\ IsInjective(pair.dense)
      /\ pair.sparse \in Seq(ToSet(IdOrder)) /\ IsInjective(pair.sparse)
  BY DEF Fusable, Rankable
<1>2. \A x \in ToSet(pair.dense) : RankIn(pair.dense, x) \in Nat \ {0}
  BY <1>1, RankIs
<1>3. \A x \in ToSet(pair.sparse) : RankIn(pair.sparse, x) \in Nat \ {0}
  BY <1>1, RankIs
<1> QED BY <1>1, <1>2, <1>3, IdOrderAssumption DEF Positive

LEMMA ScoreIsFraction ==
  ASSUME NEW pair, Fusable(pair), NEW x \in Ranked(pair)
  PROVE  Score(pair, x).num \in Nat /\ Score(pair, x).den \in Nat \ {0}
<1>0. \A m, n \in Positive : m * n \in Positive /\ m + n \in Positive
  BY DEF Positive
<1>1. x \in ToSet(pair.dense) => Damping + RankIn(pair.dense, x) \in Positive
  BY Weights
<1>2. x \in ToSet(pair.sparse) => Damping + RankIn(pair.sparse, x) \in Positive
  BY Weights
<1>3. x \in ToSet(pair.dense) \/ x \in ToSet(pair.sparse)
  BY DEF Ranked
<1>4. 1 \in Positive /\ Positive = Nat \ {0}
  BY DEF Positive
<1>5. PICK d : d = Damping + RankIn(pair.dense, x)
  OBVIOUS
<1>6. PICK s : s = Damping + RankIn(pair.sparse, x)
  OBVIOUS
<1>7. Score(pair, x) = IF x \notin ToSet(pair.sparse) THEN [num |-> 1, den |-> d]
        ELSE IF x \notin ToSet(pair.dense) THEN [num |-> 1, den |-> s]
        ELSE [num |-> d + s, den |-> d * s]
  BY <1>5, <1>6 DEF Score
<1>8. CASE x \notin ToSet(pair.sparse)
  BY <1>1, <1>3, <1>4, <1>5, <1>7, <1>8
<1>9. CASE x \in ToSet(pair.sparse) /\ x \notin ToSet(pair.dense)
  BY <1>2, <1>4, <1>6, <1>7, <1>9
<1>10. CASE x \in ToSet(pair.sparse) /\ x \in ToSet(pair.dense)
  <2>1. d \in Positive /\ s \in Positive
    BY <1>1, <1>2, <1>5, <1>6, <1>10
  <2>2. d + s \in Nat /\ d * s \in Nat \ {0}
    BY <1>0, <1>4, <2>1
  <2> QED BY <1>7, <1>10, <2>2
<1> QED BY <1>8, <1>9, <1>10

\* By score and then by id is a strict and total order of what is ranked.
LEMMA BeforeIsOrder ==
  ASSUME NEW pair, Fusable(pair), NEW x \in Ranked(pair), NEW y \in Ranked(pair)
  PROVE  /\ ~Before(pair, x, x)
         /\ x # y => Before(pair, x, y) \/ Before(pair, y, x)
         /\ \A z \in Ranked(pair) :
              Before(pair, x, y) /\ Before(pair, y, z) => Before(pair, x, z)
<1>1. \A u \in Ranked(pair) :
        /\ Score(pair, u).num \in Nat /\ Score(pair, u).den \in Nat \ {0}
        /\ u \in ToSet(IdOrder)
  <2>1. \A T : \A s \in Seq(T) : ToSet(s) \subseteq T
    BY DEF ToSet
  <2>2. \A u \in Ranked(pair) : u \in ToSet(IdOrder)
    BY <2>1, Weights DEF Ranked
  <2> QED BY <2>2, ScoreIsFraction
<1>2. \A u \in Ranked(pair) : RankIn(IdOrder, u) \in Nat
  BY <1>1, RankIs, IdOrderAssumption
<1>3. x # y => RankIn(IdOrder, x) # RankIn(IdOrder, y)
  BY <1>1, RankIs, IdOrderAssumption
<1>4. \A u, v \in Ranked(pair) :
        /\ Score(pair, u).num * Score(pair, v).den \in Nat
        /\ Before(pair, u, v) <=>
             \/ Score(pair, u).num * Score(pair, v).den > Score(pair, v).num * Score(pair, u).den
             \/ /\ Score(pair, u).num * Score(pair, v).den >= Score(pair, v).num * Score(pair, u).den
                /\ RankIn(IdOrder, u) < RankIn(IdOrder, v)
  <2> TAKE u, v \in Ranked(pair)
  <2>1. \A m, n \in Nat : m * n \in Nat
    OBVIOUS
  <2>2. /\ Score(pair, u).num * Score(pair, v).den \in Nat
        /\ Score(pair, v).num * Score(pair, u).den \in Nat
    BY <1>1, <2>1
  <2>3. PICK p, q \in Nat : /\ p = Score(pair, u).num * Score(pair, v).den
                            /\ q = Score(pair, v).num * Score(pair, u).den
    BY <2>2
  <2>4. Before(pair, u, v) <=>
          p > q \/ (~(q > p) /\ RankIn(IdOrder, u) < RankIn(IdOrder, v))
    BY <2>3 DEF Before, Above
  <2>5. ~(q > p) <=> p >= q
    OBVIOUS
  <2> QED BY <2>2, <2>3, <2>4, <2>5
<1>5. ~Before(pair, x, x)
  BY <1>2, <1>4
<1>6. x # y => Before(pair, x, y) \/ Before(pair, y, x)
  BY <1>2, <1>3, <1>4
<1>7. ASSUME NEW z \in Ranked(pair), Before(pair, x, y), Before(pair, y, z)
      PROVE  Before(pair, x, z)
  <2>1. PICK a, b, c, d, e, f \in Nat :
          /\ a = Score(pair, x).num /\ b = Score(pair, x).den
          /\ c = Score(pair, y).num /\ d = Score(pair, y).den
          /\ e = Score(pair, z).num /\ f = Score(pair, z).den
          /\ b # 0 /\ d # 0 /\ f # 0
    BY <1>1
  <2>2. a * d \in Nat /\ c * b \in Nat /\ c * f \in Nat /\ e * d \in Nat
    OBVIOUS
  <2>3. /\ a * d >= c * b /\ c * f >= e * d
        /\ a * d > c * b \/ RankIn(IdOrder, x) < RankIn(IdOrder, y)
        /\ c * f > e * d \/ RankIn(IdOrder, y) < RankIn(IdOrder, z)
    <3>1. /\ a * d > c * b \/ (a * d >= c * b /\ RankIn(IdOrder, x) < RankIn(IdOrder, y))
          /\ c * f > e * d \/ (c * f >= e * d /\ RankIn(IdOrder, y) < RankIn(IdOrder, z))
      BY <1>4, <1>7, <2>1
    <3> QED BY <2>2, <3>1
  <2>4. /\ a * f >= e * b
        /\ a * d > c * b \/ c * f > e * d => a * f > e * b
    <3>1. b \in Nat \ {0} /\ d \in Nat \ {0} /\ f \in Nat \ {0}
      BY <2>1
    <3>2. a * d >= c * b /\ c * f >= e * d
      BY <2>3
    <3> QED BY <3>1, <3>2, FractionOrder
  <2>5. a * f > e * b \/ (a * f >= e * b /\ RankIn(IdOrder, x) < RankIn(IdOrder, z))
    <3>1. CASE a * d > c * b \/ c * f > e * d
      BY <2>4, <3>1
    <3>2. CASE RankIn(IdOrder, x) < RankIn(IdOrder, y) /\ RankIn(IdOrder, y) < RankIn(IdOrder, z)
      BY <1>2, <2>4, <3>2
    <3> QED BY <2>3, <3>1, <3>2
  <2> QED BY <1>4, <2>1, <2>5
<1> QED BY <1>5, <1>6, <1>7

\* What the rankings agree on has the greater score.
LEMMA AgreedIsBefore ==
  ASSUME NEW pair, Fusable(pair), NEW x \in Ranked(pair), NEW y \in Ranked(pair),
         Agreed(pair, x, y)
  PROVE  Before(pair, x, y)
<1> DEFINE D == ToSet(pair.dense)
           S == ToSet(pair.sparse)
<1>1. /\ (x \in D /\ (y \in D => RankIn(pair.dense, x) < RankIn(pair.dense, y)))
           \/ (x \notin D /\ y \notin D)
      /\ (x \in S /\ (y \in S => RankIn(pair.sparse, x) < RankIn(pair.sparse, y)))
           \/ (x \notin S /\ y \notin S)
      /\ x \in D \/ x \in S
      /\ y \in D \/ y \in S
  BY DEF Agreed, Higher, Ranked
<1>2. PICK a : a = Damping + RankIn(pair.dense, x)
  OBVIOUS
<1>3. PICK b : b = Damping + RankIn(pair.sparse, x)
  OBVIOUS
<1>4. PICK c : c = Damping + RankIn(pair.dense, y)
  OBVIOUS
<1>5. PICK d : d = Damping + RankIn(pair.sparse, y)
  OBVIOUS
<1>6. /\ x \in D => a \in Nat \ {0}
      /\ x \in S => b \in Nat \ {0}
      /\ y \in D => c \in Nat \ {0}
      /\ y \in S => d \in Nat \ {0}
      /\ x \in D /\ y \in D => a < c
      /\ x \in S /\ y \in S => b < d
  <2>1. /\ \A u \in D : RankIn(pair.dense, u) \in Nat
        /\ \A u \in S : RankIn(pair.sparse, u) \in Nat
        /\ Damping \in Nat \ {0}
    BY Weights, IdOrderAssumption DEF Positive
  <2> QED BY <1>1, <1>2, <1>3, <1>4, <1>5, <2>1
<1>7. /\ Score(pair, x) = IF x \notin S THEN [num |-> 1, den |-> a]
           ELSE IF x \notin D THEN [num |-> 1, den |-> b]
           ELSE [num |-> a + b, den |-> a * b]
      /\ Score(pair, y) = IF y \notin S THEN [num |-> 1, den |-> c]
           ELSE IF y \notin D THEN [num |-> 1, den |-> d]
           ELSE [num |-> c + d, den |-> c * d]
  BY <1>2, <1>3, <1>4, <1>5 DEF Score
<1> SUFFICES Above(Score(pair, x), Score(pair, y))
  BY DEF Before
<1> HIDE DEF D, S
<1>8. CASE x \notin S
  <2>1. x \in D /\ y \in D /\ y \notin S /\ a \in Nat /\ c \in Nat /\ a < c
    BY <1>1, <1>6, <1>8
  <2> QED BY <1>7, <1>8, <2>1 DEF Above
<1>9. CASE x \in S /\ x \notin D
  <2>1. y \in S /\ y \notin D /\ b \in Nat /\ d \in Nat /\ b < d
    BY <1>1, <1>6, <1>9
  <2> QED BY <1>7, <1>9, <2>1 DEF Above
<1>10. CASE x \in S /\ x \in D
  <2>1. a \in Nat \ {0} /\ b \in Nat \ {0}
    BY <1>6, <1>10
  <2>2. Score(pair, x).num = a + b /\ Score(pair, x).den = a * b
    BY <1>7, <1>10
  <2>3. CASE y \notin S
    <3>1. c \in Nat \ {0} /\ a < c
      BY <1>1, <1>6, <1>10, <2>3
    <3>2. Score(pair, y).num = 1 /\ Score(pair, y).den = c
      BY <1>7, <2>3
    <3>3. (a + b) * c = a * c + b * c /\ b * c > b * a /\ a * c > 0
      BY <2>1, <3>1
    <3>4. (a + b) * c > 1 * (a * b)
      <4>1. a * c \in Nat /\ b * c \in Nat /\ b * a \in Nat /\ b * a = a * b
        BY <2>1, <3>1
      <4>2. 1 * (a * b) = a * b
        BY <4>1
      <4> QED BY <3>3, <4>1, <4>2
    <3> QED BY <2>2, <3>2, <3>4 DEF Above
  <2>4. CASE y \in S /\ y \notin D
    <3>1. d \in Nat \ {0} /\ b < d
      BY <1>1, <1>6, <1>10, <2>4
    <3>2. Score(pair, y).num = 1 /\ Score(pair, y).den = d
      BY <1>7, <2>4
    <3>3. (a + b) * d = a * d + b * d /\ a * d > a * b /\ b * d > 0
      BY <2>1, <3>1
    <3>4. (a + b) * d > 1 * (a * b)
      <4>1. a * d \in Nat /\ b * d \in Nat /\ a * b \in Nat
        BY <2>1, <3>1
      <4>2. 1 * (a * b) = a * b
        BY <4>1
      <4> QED BY <3>3, <4>1, <4>2
    <3> QED BY <2>2, <3>2, <3>4 DEF Above
  <2>5. CASE y \in S /\ y \in D
    <3>1. c \in Nat \ {0} /\ a < c /\ d \in Nat \ {0} /\ b < d
      BY <1>6, <1>10, <2>5
    <3>2. Score(pair, y).num = c + d /\ Score(pair, y).den = c * d
      BY <1>7, <2>5
    <3>3. /\ (a + b) * (c * d) = c * (a * d) + d * (b * c)
          /\ (c + d) * (a * b) = c * (a * b) + d * (b * a)
      BY <2>1, <3>1
    <3>4. /\ a * d \in Nat /\ b * c \in Nat /\ a * b \in Nat /\ b * a \in Nat
          /\ a * d > a * b /\ b * c > b * a
      BY <2>1, <3>1
    <3>5. \A p, q, r \in Nat : r # 0 /\ p > q => r * p > r * q
      OBVIOUS
    <3>6. c * (a * d) > c * (a * b) /\ d * (b * c) > d * (b * a)
      BY <3>1, <3>4, <3>5
    <3>7. \A p, q \in Nat : p * q \in Nat
      OBVIOUS
    <3>8. PICK p, q, r, s \in Nat : /\ p = c * (a * d) /\ q = c * (a * b)
                                    /\ r = d * (b * c) /\ s = d * (b * a)
      BY <3>1, <3>4, <3>7
    <3>9. p + r > q + s
      BY <3>6, <3>8
    <3> QED BY <2>2, <3>2, <3>3, <3>8, <3>9 DEF Above
  <2> QED BY <1>1, <2>3, <2>4, <2>5
<1> QED BY <1>1, <1>8, <1>9, <1>10

\* Nodes that come before x.
Ahead(pair, x) == {y \in Ranked(pair) : Before(pair, y, x)}

LEMMA RankedIsFinite ==
  ASSUME NEW pair, Fusable(pair)
  PROVE  IsFiniteSet(Ranked(pair)) /\ Cardinality(Ranked(pair)) \in Nat
<1>1. ASSUME NEW T, NEW s \in Seq(T) PROVE IsFiniteSet(ToSet(s))
  <2>1. s \in [1..Len(s) -> T] /\ Len(s) \in Nat
    OBVIOUS
  <2>2. IsFiniteSet(1..Len(s))
    BY <2>1, FS_Interval
  <2>3. s \in Surjection(1..Len(s), ToSet(s))
    BY <2>1 DEF Surjection, ToSet
  <2> QED BY <2>2, <2>3, FS_Surjection
<1>2. IsFiniteSet(ToSet(pair.dense)) /\ IsFiniteSet(ToSet(pair.sparse))
  BY <1>1, Weights
<1> QED BY <1>2, FS_Union, FS_CardinalityType DEF Ranked

\* The numbers of nodes ahead tell the nodes apart, rise along the order, and
\* are all the numbers below the number of nodes.
LEMMA PlacesAreNumbers ==
  ASSUME NEW pair, Fusable(pair)
  PROVE  LET n == Cardinality(Ranked(pair))
         IN  /\ \A x \in Ranked(pair) : Cardinality(Ahead(pair, x)) \in 0 .. n - 1
             /\ \A x, y \in Ranked(pair) :
                  Before(pair, x, y) => Cardinality(Ahead(pair, x)) < Cardinality(Ahead(pair, y))
             /\ \A x, y \in Ranked(pair) :
                  Cardinality(Ahead(pair, x)) = Cardinality(Ahead(pair, y)) => x = y
             /\ \A i \in 0 .. n - 1 : \E x \in Ranked(pair) : Cardinality(Ahead(pair, x)) = i
<1> DEFINE R == Ranked(pair)
           n == Cardinality(R)
           place == [x \in R |-> Cardinality(Ahead(pair, x))]
<1>1. IsFiniteSet(R) /\ n \in Nat
  BY RankedIsFinite
<1>2. \A x \in R : /\ Ahead(pair, x) \in SUBSET R /\ IsFiniteSet(Ahead(pair, x))
                   /\ Cardinality(Ahead(pair, x)) \in Nat
  <2> TAKE x \in R
  <2>1. Ahead(pair, x) \in SUBSET R
    BY DEF Ahead
  <2> QED BY <1>1, <2>1, FS_Subset, FS_CardinalityType
<1>3. \A x, y \in R : x # y => Before(pair, x, y) \/ Before(pair, y, x)
  BY BeforeIsOrder
<1>4. ASSUME NEW x \in R, NEW y \in R, Before(pair, x, y)
      PROVE  Cardinality(Ahead(pair, x)) < Cardinality(Ahead(pair, y))
  <2>1. x \notin Ahead(pair, x)
    BY BeforeIsOrder DEF Ahead
  <2>2. Ahead(pair, x) \cup {x} \in SUBSET Ahead(pair, y)
    BY <1>4, BeforeIsOrder DEF Ahead
  <2>3. Cardinality(Ahead(pair, x) \cup {x}) = Cardinality(Ahead(pair, x)) + 1
    BY <1>2, <2>1, FS_AddElement
  <2>4. Cardinality(Ahead(pair, x) \cup {x}) <= Cardinality(Ahead(pair, y))
    BY <1>2, <2>2, FS_Subset
  <2> QED BY <1>2, <2>3, <2>4
<1>5. \A x \in R : place[x] \in 0 .. n - 1
  <2> TAKE x \in R
  <2>1. x \notin Ahead(pair, x)
    BY BeforeIsOrder DEF Ahead
  <2>2. Cardinality(Ahead(pair, x) \cup {x}) = Cardinality(Ahead(pair, x)) + 1
    BY <1>2, <2>1, FS_AddElement
  <2>3. Ahead(pair, x) \cup {x} \in SUBSET R
    BY <1>2
  <2>4. Cardinality(Ahead(pair, x) \cup {x}) <= n
    BY <1>1, <2>3, FS_Subset
  <2> QED BY <1>1, <1>2, <2>2, <2>4
<1>6. \A x, y \in R : place[x] = place[y] => x = y
  <2> TAKE x, y \in R
  <2>1. Before(pair, x, y) => place[x] < place[y]
    BY <1>4
  <2>2. Before(pair, y, x) => place[y] < place[x]
    BY <1>4
  <2>3. place[x] \in Nat /\ place[y] \in Nat
    BY <1>2
  <2> QED BY <1>3, <2>1, <2>2, <2>3
<1>7. \A i \in 0 .. n - 1 : \E x \in R : place[x] = i
  <2>1. place \in Injection(R, 0 .. n - 1)
    BY <1>5, <1>6 DEF Injection, IsInjective
  <2>2. IsFiniteSet(0 .. n - 1) /\ Cardinality(0 .. n - 1) = n
    <3>1. 0 \in Int /\ n - 1 \in Int
      BY <1>1
    <3>2. /\ IsFiniteSet(0 .. n - 1)
          /\ Cardinality(0 .. n - 1) = IF 0 > n - 1 THEN 0 ELSE (n - 1) - 0 + 1
      BY <3>1, FS_Interval
    <3> QED BY <1>1, <3>2
  <2>3. place \in Surjection(R, 0 .. n - 1)
    BY <2>1, <2>2, FS_Injection
  <2> QED BY <2>3 DEF Surjection
<1> QED BY <1>4, <1>5, <1>6, <1>7

\* The fused list has every ranked node once, at its place.
LEMMA FusedIs ==
  ASSUME NEW pair, Fusable(pair)
  PROVE  LET n == Cardinality(Ranked(pair))
         IN  /\ Fused(pair) \in Seq(Ranked(pair)) /\ Len(Fused(pair)) = n /\ n \in Nat
             /\ \A i \in 1..n : Cardinality(Ahead(pair, Fused(pair)[i])) = i - 1
             /\ \A x \in Ranked(pair) : \E i \in 1..n : Fused(pair)[i] = x
<1> DEFINE R == Ranked(pair)
           n == Cardinality(R)
<1>1. n \in Nat
  BY RankedIsFinite
<1>2. \A i \in 1..n : i - 1 \in 0 .. n - 1
  BY <1>1
<1>3. Fused(pair) = [i \in 1..n |-> CHOOSE x \in R : Cardinality(Ahead(pair, x)) = i - 1]
  BY DEF Fused, Ahead
<1>4. \A i \in 1..n : Fused(pair)[i] \in R /\ Cardinality(Ahead(pair, Fused(pair)[i])) = i - 1
  <2> TAKE i \in 1..n
  <2>1. \E x \in R : Cardinality(Ahead(pair, x)) = i - 1
    BY <1>2, PlacesAreNumbers
  <2>2. Fused(pair)[i] = CHOOSE x \in R : Cardinality(Ahead(pair, x)) = i - 1
    BY <1>3
  <2> QED BY <2>1, <2>2
<1>5. Fused(pair) \in [1..n -> R]
  BY <1>3, <1>4
<1>6. ASSUME NEW x \in R PROVE \E i \in 1..n : Fused(pair)[i] = x
  <2>1. Cardinality(Ahead(pair, x)) \in 0 .. n - 1
    BY PlacesAreNumbers
  <2>2. PICK i \in 1..n : i - 1 = Cardinality(Ahead(pair, x))
    <3>1. PICK m \in 0 .. n - 1 : m = Cardinality(Ahead(pair, x))
      BY <2>1
    <3>2. m + 1 \in 1..n /\ (m + 1) - 1 = m
      BY <1>1
    <3> QED BY <3>1, <3>2
  <2>3. Fused(pair)[i] \in R /\ Cardinality(Ahead(pair, Fused(pair)[i])) = Cardinality(Ahead(pair, x))
    BY <1>4, <2>2
  <2> QED BY <2>3, PlacesAreNumbers
<1>7. Fused(pair) \in Seq(R) /\ Len(Fused(pair)) = n
  BY <1>1, <1>5
<1> QED BY <1>1, <1>4, <1>6, <1>7

\* Fusion of any two rankings, however it is cut, keeps to what they agree on
\* (hybrid.py reciprocal_rank_fusion, fuse_seeds): ties, nodes that only one of
\* them has and the cut at top_k included.
THEOREM AgreementIsKept ==
  \A pair \in [dense : Rankable, sparse : Rankable] : KeepsAgreement(pair)
<1> SUFFICES ASSUME NEW pair \in [dense : Rankable, sparse : Rankable],
                    NEW topK \in 1..Len(IdOrder)
             PROVE  LET list == FuseSeeds(pair, topK)
                    IN  /\ IsInjective(list) /\ ToSet(list) \subseteq Ranked(pair)
                        /\ Len(list) = Min({topK, Cardinality(Ranked(pair))})
                        /\ \A j \in DOMAIN list : \A x \in Ranked(pair) :
                             Agreed(pair, x, list[j]) => \E i \in 1 .. j - 1 : list[i] = x
  BY DEF KeepsAgreement
<1>0. Fusable(pair)
  BY DEF Fusable
<1>1. PICK R : R = Ranked(pair)
  OBVIOUS
<1>2. PICK n \in Nat : n = Cardinality(R)
  BY <1>0, <1>1, FusedIs
<1>3. PICK fused \in Seq(R) :
        /\ fused = Fused(pair) /\ Len(fused) = n
        /\ \A i \in 1..n : Cardinality(Ahead(pair, fused[i])) = i - 1
        /\ \A x \in R : \E i \in 1..n : fused[i] = x
  BY <1>0, <1>1, <1>2, FusedIs
<1>4. PICK m \in Nat : m = IF topK < n THEN topK ELSE n
  BY <1>2
<1>5. m <= n
  BY <1>2, <1>4
<1>6. PICK list : list = FuseSeeds(pair, topK)
  OBVIOUS
<1>7. list = SubSeq(fused, 1, m)
  BY <1>3, <1>4, <1>6 DEF FuseSeeds, FirstOf
<1>8. list \in Seq(R) /\ Len(list) = m /\ \A i \in 1..m : list[i] = fused[i]
  BY <1>3, <1>5, <1>7, SubSeqProperties
<1>9. DOMAIN list = 1..m
  BY <1>8
<1>10. IsInjective(list)
  <2>1. ASSUME NEW i \in 1..m, NEW j \in 1..m, list[i] = list[j] PROVE i = j
    <3>1. i \in 1..n /\ j \in 1..n
      BY <1>5
    <3>2. fused[i] = fused[j]
      BY <1>8, <2>1
    <3>3. i - 1 = j - 1
      BY <1>3, <3>1, <3>2
    <3> QED BY <3>3
  <2> QED BY <1>9, <2>1 DEF IsInjective
<1>11. ToSet(list) \subseteq R
  BY <1>8 DEF ToSet
<1>12. Len(list) = Min({topK, n})
  <2>1. {topK, n} \in SUBSET Nat /\ {topK, n} # {}
    OBVIOUS
  <2>2. Min({topK, n}) \in {topK, n} /\ Min({topK, n}) <= topK /\ Min({topK, n}) <= n
    BY <2>1, MinIs
  <2> QED BY <1>4, <1>8, <2>2
<1>13. ASSUME NEW j \in 1..m, NEW x \in R, Agreed(pair, x, list[j])
       PROVE  \E i \in 1 .. j - 1 : list[i] = x
  <2>1. j \in 1..n /\ list[j] = fused[j] /\ list[j] \in R
    BY <1>5, <1>8
  <2>2. Before(pair, x, list[j])
    BY <1>0, <1>1, <1>13, <2>1, AgreedIsBefore
  <2>3. PICK i \in 1..n : fused[i] = x
    BY <1>3
  <2>4. Cardinality(Ahead(pair, fused[i])) < Cardinality(Ahead(pair, fused[j]))
    BY <1>0, <1>1, <2>1, <2>2, <2>3, PlacesAreNumbers
  <2>5. i - 1 < j - 1
    BY <1>3, <2>1, <2>4
  <2>6. i \in 1 .. j - 1 /\ i \in 1..m
    BY <2>5
  <2> QED BY <1>8, <2>3, <2>6
<1> QED BY <1>1, <1>2, <1>6, <1>9, <1>10, <1>11, <1>12, <1>13

\* What a query was seeded with keeps to what its rankings agree on.
THEOREM SeedsKeepAgreement == RSpec => []FusionKeepsAgreement
<1> DEFINE Known == rankings \in [dense : Rankable, sparse : Rankable]
<1>1. RInit => Known
  BY RankingsAssumption DEF RInit
<1>2. none \in [dense : Rankable, sparse : Rankable]
  BY DEF none, Rankable, IsInjective
<1>3. Known /\ [SNext /\ rankings' = none]_rvars => Known'
  BY <1>2 DEF rvars
<1>4. Known => FusionKeepsAgreement
  BY AgreementIsKept DEF FusionKeepsAgreement
<1> QED BY <1>1, <1>3, <1>4, PTL DEF RSpec

-----------------------------------------------------------------------------
(* The text of a context: putting a finite set in order *)

\* R orders S strictly and leaves no two elements apart.
Orders(R, S) ==
  /\ \A x, y \in S : x # y => <<x, y>> \in R \/ <<y, x>> \in R
  /\ \A x, y \in S : ~(<<x, y>> \in R /\ <<y, x>> \in R)
  /\ \A x, y, z \in S : <<x, y>> \in R /\ <<y, z>> \in R => <<x, z>> \in R

\* c has the n elements of T in the order of R.
InOrder(c, n, T, R) ==
  /\ c \in [1..n -> T]
  /\ \A i, j \in 1..n : i < j => <<c[i], c[j]>> \in R
  /\ \A x \in T : \E i \in 1..n : c[i] = x

LEMMA OrderGrows ==
  ASSUME NEW T, NEW R, NEW m \in T, NEW n \in Nat, NEW c, InOrder(c, n, T \ {m}, R),
         \A y \in T : y # m => <<y, m>> \in R
  PROVE  \E d : InOrder(d, n + 1, T, R)
<1> DEFINE d == [i \in 1 .. n + 1 |-> IF i = n + 1 THEN m ELSE c[i]]
<1>1. \A i \in 1 .. n + 1 : i # n + 1 => i \in 1..n /\ c[i] \in T /\ c[i] # m
  BY DEF InOrder
<1>2. d \in [1 .. n + 1 -> T]
  BY <1>1
<1>3. \A i \in 1..n : i \in 1 .. n + 1 /\ d[i] = c[i]
  OBVIOUS
<1>4. n + 1 \in 1 .. n + 1 /\ d[n + 1] = m
  OBVIOUS
<1>5. ASSUME NEW i \in 1 .. n + 1, NEW j \in 1 .. n + 1, i < j PROVE <<d[i], d[j]>> \in R
  <2>1. i \in 1..n
    BY <1>5
  <2>2. CASE j = n + 1
    BY <1>1, <1>3, <1>4, <2>1, <2>2
  <2>3. CASE j # n + 1
    <3>1. j \in 1..n
      BY <2>3
    <3> HIDE DEF d
    <3> QED BY <1>3, <1>5, <2>1, <3>1 DEF InOrder
  <2> QED BY <2>2, <2>3
<1>6. ASSUME NEW x \in T PROVE \E i \in 1 .. n + 1 : d[i] = x
  <2>1. CASE x = m
    BY <1>4, <2>1
  <2>2. CASE x # m
    <3>1. PICK i \in 1..n : c[i] = x
      BY <2>2 DEF InOrder
    <3> QED BY <1>3, <3>1
  <2> QED BY <2>1, <2>2
<1> HIDE DEF d
<1>7. InOrder(d, n + 1, T, R)
  BY <1>2, <1>5, <1>6 DEF InOrder
<1> QED BY <1>7

LEMMA OrderExists ==
  ASSUME NEW S, IsFiniteSet(S), NEW R, Orders(R, S)
  PROVE  \E c : InOrder(c, Cardinality(S), S, R)
<1> DEFINE N == {n \in Nat : \A T \in SUBSET S : Cardinality(T) = n => \E c : InOrder(c, n, T, R)}
<1>1. \A T \in SUBSET S : IsFiniteSet(T) /\ Cardinality(T) \in Nat
  BY FS_Subset, FS_CardinalityType
<1>2. 0 \in N
  <2>1. SUFFICES ASSUME NEW T \in SUBSET S, Cardinality(T) = 0 PROVE \E c : InOrder(c, 0, T, R)
    OBVIOUS
  <2>2. T = {}
    BY <1>1, <2>1, FS_EmptySet
  <2> DEFINE c == [i \in 1..0 |-> 0]
  <2>3. c \in [1..0 -> T]
    OBVIOUS
  <2> HIDE DEF c
  <2>4. InOrder(c, 0, T, R)
    BY <2>2, <2>3 DEF InOrder
  <2> QED BY <2>4
<1>3. ASSUME NEW n \in Nat, n \in N PROVE n + 1 \in N
  <2>1. SUFFICES ASSUME NEW T \in SUBSET S, Cardinality(T) = n + 1
                 PROVE  \E c : InOrder(c, n + 1, T, R)
    OBVIOUS
  <2>2. T # {}
    BY <2>1, FS_EmptySet
  <2>3. ASSUME NEW x \in T
        PROVE  T \ {x} \in SUBSET S /\ \E c : InOrder(c, n, T \ {x}, R)
    <3>1. Cardinality(T \ {x}) = n
      BY <1>1, <2>1, FS_RemoveElement
    <3> QED BY <1>3, <3>1
  <2>4. \E m \in T : \A y \in T : y # m => <<y, m>> \in R
    <3>1. PICK x \in T : TRUE
      BY <2>2
    <3>2. PICK c : InOrder(c, n, T \ {x}, R)
      BY <2>3
    <3>3. CASE n = 0
      <4>1. \A y \in T : y = x
        BY <3>2, <3>3 DEF InOrder
      <4> QED BY <4>1
    <3>4. CASE n # 0
      <4>1. PICK l : l = c[n]
        OBVIOUS
      <4>2. n \in 1..n /\ l \in T /\ l # x
        BY <3>2, <3>4, <4>1 DEF InOrder
      <4>3. ASSUME NEW y \in T, y # x, y # l PROVE <<y, l>> \in R
        <5>1. PICK i \in 1..n : c[i] = y
          BY <3>2, <4>3 DEF InOrder
        <5>2. i < n
          BY <4>1, <4>3, <5>1
        <5> QED BY <3>2, <4>1, <4>2, <5>1, <5>2 DEF InOrder
      <4>4. CASE <<x, l>> \in R
        BY <4>2, <4>3, <4>4
      <4>5. CASE <<l, x>> \in R
        <5>1. \A y \in T : y # x => <<y, x>> \in R
          BY <4>2, <4>3, <4>5 DEF Orders
        <5> QED BY <5>1
      <4> QED BY <4>2, <4>4, <4>5 DEF Orders
    <3> QED BY <3>3, <3>4
  <2>5. PICK m \in T : \A y \in T : y # m => <<y, m>> \in R
    BY <2>4
  <2>6. PICK c : InOrder(c, n, T \ {m}, R)
    BY <2>3
  <2> QED BY <2>5, <2>6, OrderGrows
<1>4. Cardinality(S) \in N
  <2> HIDE DEF N
  <2> QED BY <1>1, <1>2, <1>3, SetInduction
<1> QED BY <1>4

\* What Sorted makes of a finite set: a list of all of it.
LEMMA SortedIs ==
  ASSUME NEW S, IsFiniteSet(S), NEW R, Orders(R, S)
  PROVE  /\ Sorted(S, R) \in [1..Cardinality(S) -> S] /\ Cardinality(S) \in Nat
         /\ \A i, j \in 1..Cardinality(S) : i # j => Sorted(S, R)[i] # Sorted(S, R)[j]
         /\ \A x \in S : \E i \in 1..Cardinality(S) : Sorted(S, R)[i] = x
<1>1. PICK n \in Nat : n = Cardinality(S)
  BY FS_CardinalityType
<1>2. PICK c : InOrder(c, n, S, R)
  BY <1>1, OrderExists
<1>3. PICK s : s = Sorted(S, R)
  OBVIOUS
<1>4. s \in [1..n -> S] /\ \A i, j \in DOMAIN s : i < j => <<s[i], s[j]>> \in R
  BY <1>1, <1>2, <1>3 DEF Sorted, InOrder
<1>5. ASSUME NEW i \in 1..n, NEW j \in 1..n, i # j PROVE s[i] # s[j]
  <2>1. i < j \/ j < i
    BY <1>5
  <2>2. <<s[i], s[j]>> \in R \/ <<s[j], s[i]>> \in R
    BY <1>4, <2>1
  <2> QED BY <1>4, <2>2 DEF Orders
<1>6. s \in Injection(1..n, S)
  BY <1>4, <1>5 DEF Injection, IsInjective
<1>7. s \in Surjection(1..n, S)
  <2>1. IsFiniteSet(1..n) /\ Cardinality(1..n) = n
    BY FS_Interval
  <2> QED BY <1>1, <1>6, <2>1, FS_Injection
<1>8. \A x \in S : \E i \in 1..n : s[i] = x
  BY <1>7 DEF Surjection
<1> QED BY <1>1, <1>3, <1>4, <1>5, <1>8

-----------------------------------------------------------------------------
(* The terms in their turn, the passages in their order *)

Token == Word \cup {"[=", "]", "[", "[SUPERSEDED]"}

LEMMA RowsIs ==
  ASSUME NEW terms \in Lexicons, NEW s \in Surfaces(terms)
  PROVE  /\ s \in Seq(Word) /\ s # <<>> /\ GlossOf(terms, s) \in Seq(Word)
         /\ Min(RowsOf(terms, s)) \in Nat
         /\ Min(RowsOf(terms, s)) \in DOMAIN terms /\ terms[Min(RowsOf(terms, s))].surface = s
<1> DEFINE Row == [surface : Seq(Word) \ {<<>>}, gloss : Seq(Word)]
<1>1. terms \in Seq(Row)
  BY LexiconsAssumption
<1> HIDE DEF Row
<1>2. DOMAIN terms = 1..Len(terms) /\ Len(terms) \in Nat
  BY <1>1, LenProperties
<1>3. ASSUME NEW i \in DOMAIN terms
      PROVE  /\ terms[i].surface \in Seq(Word) /\ terms[i].surface # <<>>
             /\ terms[i].gloss \in Seq(Word)
  <2>1. terms[i] \in Row
    BY <1>1, <1>2, <1>3, ElementOfSeq
  <2> QED BY <2>1 DEF Row
<1>4. PICK rows : rows = RowsOf(terms, s)
  OBVIOUS
<1>5. rows \in SUBSET Nat /\ rows # {} /\ \A i \in rows : i <= Len(terms)
  BY <1>2, <1>4 DEF RowsOf, Surfaces
<1>6. Max(rows) \in rows /\ Min(rows) \in rows
  BY <1>2, <1>5, MaxIs, MinIs
<1>7. \A i \in rows : i \in DOMAIN terms /\ terms[i].surface = s
  BY <1>4 DEF RowsOf
<1>8. GlossOf(terms, s) = terms[Max(rows)].gloss
  BY <1>4 DEF GlossOf
<1> QED BY <1>3, <1>4, <1>5, <1>6, <1>7, <1>8

LEMMA SurfacesAreFinite ==
  ASSUME NEW terms \in Lexicons
  PROVE  IsFiniteSet(Surfaces(terms)) /\ Cardinality(Surfaces(terms)) \in Nat
<1>1. PICK n \in Nat : DOMAIN terms = 1..n
  <2>1. terms \in Seq([surface : Seq(Word) \ {<<>>}, gloss : Seq(Word)])
    BY LexiconsAssumption
  <2> QED BY <2>1, LenProperties
<1> DEFINE f == [i \in 1..n |-> terms[i].surface]
<1>2. f \in Surjection(1..n, Surfaces(terms))
  <2>1. f \in [1..n -> Surfaces(terms)]
    BY <1>1 DEF Surfaces
  <2>2. \A s \in Surfaces(terms) : \E i \in 1..n : f[i] = s
    BY <1>1 DEF Surfaces
  <2> HIDE DEF f
  <2> QED BY <2>1, <2>2 DEF Surjection
<1>3. IsFiniteSet(1..n)
  BY FS_Interval
<1>4. IsFiniteSet(Surfaces(terms))
  <2> HIDE DEF f
  <2> QED BY <1>2, <1>3, FS_Surjection
<1> QED BY <1>4, FS_CardinalityType

LEMMA LengthType ==
  ASSUME NEW s \in Seq(Word)
  PROVE  LengthOf(s) \in Int
<1> DEFINE w == [i \in DOMAIN s |-> Letters[s[i]]]
           P(f) == f = [t \in SUBSET (DOMAIN s) |->
                          IF t = {} THEN 0 ELSE Letters[s[Pick(t)]] + f[t \ {Pick(t)}]]
<1>1. /\ DOMAIN s = 1..Len(s) /\ Len(s) \in Nat
      /\ \A i \in DOMAIN s : s[i] \in Word
  BY LenProperties, ElementOfSeq
<1>2. PICK sum : sum = MapThenSumSet(LAMBDA i : Letters[s[i]], DOMAIN s)
  OBVIOUS
<1>3. sum = (CHOOSE f : P(f))[DOMAIN s]
  BY <1>2 DEF MapThenSumSet, MapThenFoldSet, Pick
<1>4. ASSUME NEW f PROVE P(f) <=> Adds(f, w, DOMAIN s)
  <2>1. \A t \in SUBSET (DOMAIN s) : t # {} => w[Pick(t)] = Letters[s[Pick(t)]]
    <3>1. \A t \in SUBSET (DOMAIN s) : t # {} => Pick(t) \in DOMAIN s
      BY DEF Pick
    <3> QED BY <3>1
  <2>2. [t \in SUBSET (DOMAIN s) |->
            IF t = {} THEN 0 ELSE Letters[s[Pick(t)]] + f[t \ {Pick(t)}]]
        = [t \in SUBSET (DOMAIN s) |-> IF t = {} THEN 0 ELSE w[Pick(t)] + f[t \ {Pick(t)}]]
    <3> HIDE DEF w
    <3> QED BY <2>1
  <2> HIDE DEF w
  <2> QED BY <2>2 DEF Adds
<1>5. (CHOOSE f : P(f)) = (CHOOSE f : Adds(f, w, DOMAIN s))
  <2> HIDE DEF P, w
  <2> QED BY <1>4
<1>6. sum = SumOf(w, DOMAIN s)
  <2> HIDE DEF P, w
  <2> QED BY <1>3, <1>5, SumUnfolds
<1>7. IsFiniteSet(DOMAIN s)
  BY <1>1, FS_Interval
<1>8. \A i \in DOMAIN s : w[i] \in Nat
  BY <1>1, WordsAssumption
<1>9. sum \in Nat
  <2> HIDE DEF w
  <2> QED BY <1>6, <1>7, <1>8, SumType
<1>10. LengthOf(s) = sum + Len(s) - 1
  BY <1>2 DEF LengthOf
<1> QED BY <1>1, <1>9, <1>10

LEMMA InTurnIs ==
  ASSUME NEW terms \in Lexicons, NEW n, n = Cardinality(Surfaces(terms))
  PROVE  /\ InTurn(terms) \in [1..n -> Surfaces(terms)] /\ n \in Nat
         /\ \A i, j \in 1..n : i # j => InTurn(terms)[i] # InTurn(terms)[j]
         /\ \A s \in Surfaces(terms) : \E i \in 1..n : InTurn(terms)[i] = s
<1>1. PICK S : S = Surfaces(terms)
  OBVIOUS
<1> DEFINE Rank(s) == Min(RowsOf(terms, s))
           R == {p \in S \X S : \/ LengthOf(p[1]) > LengthOf(p[2])
                                \/ LengthOf(p[1]) = LengthOf(p[2]) /\ Rank(p[1]) < Rank(p[2])}
<1>2. \A s \in S : LengthOf(s) \in Int /\ Rank(s) \in Nat /\ terms[Rank(s)].surface = s
  BY <1>1, RowsIs, LengthType
<1>3. InTurn(terms) = Sorted(S, R)
  BY <1>1 DEF InTurn
<1> HIDE DEF Rank
<1>4. \A x, y \in S : <<x, y>> \in R <=>
        \/ LengthOf(x) > LengthOf(y)
        \/ LengthOf(x) = LengthOf(y) /\ Rank(x) < Rank(y)
  OBVIOUS
<1> HIDE DEF R
<1>5. Orders(R, S)
  <2>1. \A x, y \in S : x # y => <<x, y>> \in R \/ <<y, x>> \in R
    <3>1. \A x, y \in S : x # y => Rank(x) # Rank(y)
      BY <1>2
    <3> QED BY <1>2, <1>4, <3>1
  <2>2. ASSUME NEW x \in S, NEW y \in S PROVE ~(<<x, y>> \in R /\ <<y, x>> \in R)
    <3>1. /\ LengthOf(x) \in Int /\ LengthOf(y) \in Int
          /\ Rank(x) \in Nat /\ Rank(y) \in Nat
      BY <1>2
    <3>2. ~(/\ \/ LengthOf(x) > LengthOf(y)
               \/ LengthOf(x) = LengthOf(y) /\ Rank(x) < Rank(y)
            /\ \/ LengthOf(y) > LengthOf(x)
               \/ LengthOf(y) = LengthOf(x) /\ Rank(y) < Rank(x))
      BY <3>1
    <3> QED BY <1>4, <3>2
  <2>3. ASSUME NEW x \in S, NEW y \in S, NEW z \in S, <<x, y>> \in R, <<y, z>> \in R
        PROVE  <<x, z>> \in R
    <3>1. /\ LengthOf(x) \in Int /\ LengthOf(y) \in Int /\ LengthOf(z) \in Int
          /\ Rank(x) \in Nat /\ Rank(y) \in Nat /\ Rank(z) \in Nat
      BY <1>2
    <3>2. /\ \/ LengthOf(x) > LengthOf(y)
             \/ LengthOf(x) = LengthOf(y) /\ Rank(x) < Rank(y)
          /\ \/ LengthOf(y) > LengthOf(z)
             \/ LengthOf(y) = LengthOf(z) /\ Rank(y) < Rank(z)
      BY <1>4, <2>3
    <3>3. \/ LengthOf(x) > LengthOf(z)
          \/ LengthOf(x) = LengthOf(z) /\ Rank(x) < Rank(z)
      BY <3>1, <3>2
    <3> QED BY <1>4, <3>3
  <2> QED BY <2>1, <2>2, <2>3 DEF Orders
<1>6. IsFiniteSet(S)
  BY <1>1, SurfacesAreFinite
<1> QED BY <1>1, <1>3, <1>5, <1>6, SortedIs

LEMMA OrderedIs ==
  ASSUME NEW nodes \in SUBSET Passages, IsFiniteSet(nodes)
  PROVE  Ordered(nodes) \in [1..Cardinality(nodes) -> nodes] /\ Cardinality(nodes) \in Nat
<1> DEFINE R == {p \in nodes \X nodes : \/ p[1].doc < p[2].doc
                                        \/ p[1].doc = p[2].doc /\ p[1].seq < p[2].seq}
<1>1. \A p \in nodes : p.doc \in Nat /\ p.seq \in Nat
  BY PassagesAssumption
<1>2. \A p, q \in nodes : p.doc = q.doc /\ p.seq = q.seq => p = q
  BY PassagesAssumption
<1>3. Ordered(nodes) = Sorted(nodes, R)
  BY DEF Ordered
<1>4. \A x, y \in nodes : <<x, y>> \in R <=>
        x.doc < y.doc \/ (x.doc = y.doc /\ x.seq < y.seq)
  OBVIOUS
<1> HIDE DEF R
<1>5. Orders(R, nodes)
  <2>1. \A x, y \in nodes : x # y => <<x, y>> \in R \/ <<y, x>> \in R
    BY <1>1, <1>2, <1>4
  <2>2. ASSUME NEW x \in nodes, NEW y \in nodes PROVE ~(<<x, y>> \in R /\ <<y, x>> \in R)
    <3>1. /\ x.doc \in Nat /\ y.doc \in Nat /\ x.seq \in Nat /\ y.seq \in Nat
      BY <1>1
    <3>2. ~(/\ x.doc < y.doc \/ (x.doc = y.doc /\ x.seq < y.seq)
            /\ y.doc < x.doc \/ (y.doc = x.doc /\ y.seq < x.seq))
      BY <3>1
    <3> QED BY <1>4, <3>2
  <2>3. ASSUME NEW x \in nodes, NEW y \in nodes, NEW z \in nodes,
               <<x, y>> \in R, <<y, z>> \in R
        PROVE  <<x, z>> \in R
    <3>1. /\ x.doc \in Nat /\ y.doc \in Nat /\ z.doc \in Nat
          /\ x.seq \in Nat /\ y.seq \in Nat /\ z.seq \in Nat
      BY <1>1
    <3>2. /\ x.doc < y.doc \/ (x.doc = y.doc /\ x.seq < y.seq)
          /\ y.doc < z.doc \/ (y.doc = z.doc /\ y.seq < z.seq)
      BY <1>4, <2>3
    <3>3. x.doc < z.doc \/ (x.doc = z.doc /\ x.seq < z.seq)
      BY <3>1, <3>2
    <3> QED BY <1>4, <3>3
  <2> QED BY <2>1, <2>2, <2>3 DEF Orders
<1> QED BY <1>3, <1>5, SortedIs

LEMMA AssembledType ==
  ASSUME NEW p \in Passages
  PROVE  /\ ForAssembly(p) \in Seq(Token)
         /\ \A i \in 1..Len(ForAssembly(p)) : ForAssembly(p)[i] # "[="
<1> DEFINE Plain == Token \ {"[="}
<1>1. p.section_path \in Seq(Word) /\ p.body \in Seq(Word)
  BY PassagesAssumption
<1>2. Word \subseteq Plain /\ {"]", "[", "[SUPERSEDED]"} \subseteq Plain
  BY WordsAssumption DEF Token
<1> HIDE DEF Plain
<1>3. PICK path, body : path = p.section_path /\ body = p.body
  OBVIOUS
<1>4. path \in Seq(Plain) /\ body \in Seq(Plain)
  BY <1>1, <1>2, <1>3, SeqMonotonic
<1>5. PICK a : a = IF p.superseded THEN <<"[SUPERSEDED]">> ELSE <<>>
  OBVIOUS
<1>6. PICK b : b = IF path = <<>> THEN <<>> ELSE <<"[">> \o path \o <<"]">>
  OBVIOUS
<1>7. a \in Seq(Plain)
  BY <1>2, <1>5
<1>8. b \in Seq(Plain)
  <2>1. PICK l, r : l = <<"[">> /\ r = <<"]">>
    OBVIOUS
  <2>2. l \in Seq(Plain) /\ r \in Seq(Plain) /\ <<>> \in Seq(Plain)
    BY <1>2, <2>1
  <2>3. (l \o path) \o r \in Seq(Plain)
    BY <1>4, <2>2, ConcatProperties
  <2> QED BY <1>6, <2>1, <2>2, <2>3
<1>9. (a \o b) \o body \in Seq(Plain)
  BY <1>4, <1>7, <1>8, ConcatProperties
<1>10. ForAssembly(p) = (a \o b) \o body
  BY <1>3, <1>5, <1>6 DEF ForAssembly
<1>11. PICK t : t = ForAssembly(p)
  OBVIOUS
<1>12. t \in Seq(Plain)
  BY <1>9, <1>10, <1>11
<1>13. t \in Seq(Token)
  BY <1>12, SeqMonotonic DEF Plain
<1>14. \A i \in 1..Len(t) : t[i] # "[="
  BY <1>12, ElementOfSeq DEF Plain
<1> QED BY <1>11, <1>13, <1>14

-----------------------------------------------------------------------------
(* The text without its glosses *)

\* u is s with i put in after position k.
Inserted(s, k, i) == SubSeq(s, 1, k) \o i \o SubSeq(s, k + 1, Len(s))

IsInserted(u, s, k, i) ==
  /\ Len(u) = Len(s) + Len(i)
  /\ \A m \in 1..k : u[m] = s[m]
  /\ \A m \in 1..Len(i) : u[k + m] = i[m]
  /\ \A m \in k + 1 .. Len(s) : u[m + Len(i)] = s[m]

LEMMA InsertedIs ==
  ASSUME NEW E, NEW s \in Seq(E), NEW k \in 0..Len(s), NEW i \in Seq(E)
  PROVE  Inserted(s, k, i) \in Seq(E) /\ IsInserted(Inserted(s, k, i), s, k, i)
<1>1. PICK n \in Nat : n = Len(s)
  BY LenProperties
<1>2. PICK l \in Nat : l = Len(i)
  BY LenProperties
<1>3. PICK a : a = SubSeq(s, 1, k)
  OBVIOUS
<1>4. PICK b : b = SubSeq(s, k + 1, n)
  OBVIOUS
<1>5. k \in Nat /\ k <= n /\ \A m \in 1..n : s[m] \in E
  BY <1>1, ElementOfSeq
<1>6. a \in Seq(E) /\ Len(a) = k /\ \A m \in 1..k : a[m] = s[m]
  BY <1>3, <1>5, SubSeqProperties
<1>7. b \in Seq(E) /\ Len(b) = n - k /\ \A m \in 1 .. n - k : b[m] = s[k + m]
  <2>1. \A m \in k + 1 .. n : s[m] \in E
    BY <1>5
  <2>2. /\ b \in Seq(E) /\ Len(b) = IF k + 1 <= n THEN n - (k + 1) + 1 ELSE 0
        /\ \A m \in 1 .. n - (k + 1) + 1 : b[m] = s[(k + 1) + m - 1]
    BY <1>4, <1>5, <2>1, SubSeqProperties
  <2>3. Len(b) = n - k
    BY <1>5, <2>2
  <2>4. ASSUME NEW m \in 1 .. n - k PROVE b[m] = s[k + m]
    <3>1. m \in 1 .. n - (k + 1) + 1 /\ (k + 1) + m - 1 = k + m
      BY <1>5
    <3> QED BY <2>2, <3>1
  <2> QED BY <2>2, <2>3, <2>4
<1>8. PICK c : c = a \o i
  OBVIOUS
<1>9. /\ c \in Seq(E) /\ Len(c) = k + l
      /\ \A m \in 1 .. k + l : c[m] = IF m <= k THEN a[m] ELSE i[m - k]
  BY <1>2, <1>6, <1>8, ConcatProperties
<1>10. PICK u : u = c \o b
  OBVIOUS
<1>11. /\ u \in Seq(E) /\ Len(u) = (k + l) + (n - k)
       /\ \A m \in 1 .. (k + l) + (n - k) :
            u[m] = IF m <= k + l THEN c[m] ELSE b[m - (k + l)]
  <2>1. /\ u \in Seq(E) /\ Len(u) = Len(c) + Len(b)
        /\ \A m \in 1 .. Len(c) + Len(b) : u[m] = IF m <= Len(c) THEN c[m] ELSE b[m - Len(c)]
    BY <1>7, <1>9, <1>10, ConcatProperties
  <2>2. Len(c) = k + l /\ Len(b) = n - k
    BY <1>7, <1>9
  <2> QED BY <2>1, <2>2
<1>12. u = Inserted(s, k, i)
  BY <1>1, <1>3, <1>4, <1>8, <1>10 DEF Inserted
<1>13. ASSUME NEW m \in 1..k PROVE u[m] = s[m]
  <2>1. m \in 1 .. (k + l) + (n - k) /\ m <= k + l /\ m <= k /\ m \in 1 .. k + l
    BY <1>5
  <2> QED BY <1>6, <1>9, <1>11, <2>1
<1>14. ASSUME NEW m \in 1..l PROVE u[k + m] = i[m]
  <2>1. /\ k + m \in 1 .. (k + l) + (n - k) /\ k + m <= k + l /\ ~(k + m <= k)
        /\ k + m \in 1 .. k + l /\ (k + m) - k = m
    BY <1>5
  <2> QED BY <1>9, <1>11, <2>1
<1>15. ASSUME NEW m \in k + 1 .. n PROVE u[m + l] = s[m]
  <2>1. /\ m + l \in 1 .. (k + l) + (n - k) /\ ~(m + l <= k + l)
        /\ (m + l) - (k + l) \in 1 .. n - k /\ k + ((m + l) - (k + l)) = m
    BY <1>5
  <2> QED BY <1>7, <1>11, <2>1
<1>16. Len(u) = n + l
  BY <1>5, <1>11
<1>17. IsInserted(u, s, k, i)
  BY <1>1, <1>2, <1>13, <1>14, <1>15, <1>16 DEF IsInserted
<1> QED BY <1>11, <1>12, <1>17

BareStep(done, w) ==
  IF w = "[=" THEN [done EXCEPT !.depth = @ + 1]
  ELSE IF done.depth = 0 THEN [done EXCEPT !.words = Append(@, w)]
  ELSE IF w = "]" THEN [done EXCEPT !.depth = @ - 1]
  ELSE done

Unread == [depth |-> 0, words |-> <<>>]
Reading == [depth : Nat, words : Seq(Token)]

\* r reads the first n words of s.
Reads(r, s, n) ==
  /\ r[0] = Unread
  /\ \A k \in 1..n : r[k] = BareStep(r[k - 1], s[k])

LEMMA BareStepType ==
  ASSUME NEW done \in Reading, NEW w \in Token
  PROVE  BareStep(done, w) \in Reading
<1>1. done.depth \in Nat /\ done.words \in Seq(Token)
  BY DEF Reading
<1>2. Append(done.words, w) \in Seq(Token)
  BY <1>1, AppendProperties
<1>3. CASE w = "[="
  BY <1>1, <1>3 DEF BareStep, Reading
<1>4. CASE w # "[=" /\ done.depth = 0
  BY <1>1, <1>2, <1>4 DEF BareStep, Reading
<1>5. CASE w # "[=" /\ done.depth # 0
  <2>1. done.depth - 1 \in Nat
    BY <1>1, <1>5
  <2> QED BY <1>1, <1>5, <2>1 DEF BareStep, Reading
<1> QED BY <1>3, <1>4, <1>5

LEMMA UnreadType == Unread \in Reading
BY EmptySeq DEF Unread, Reading

LEMMA ReadsType ==
  ASSUME NEW s \in Seq(Token), NEW r, NEW n \in Nat, n <= Len(s), Reads(r, s, n)
  PROVE  \A k \in 0..n : r[k] \in Reading
<1> DEFINE N == {k \in Nat : k <= n => r[k] \in Reading}
<1>1. 0 \in N
  BY UnreadType DEF Reads
<1>2. ASSUME NEW k \in Nat, k \in N PROVE k + 1 \in N
  <2>1. SUFFICES ASSUME k + 1 <= n PROVE r[k + 1] \in Reading
    OBVIOUS
  <2>2. k + 1 \in 1..n /\ (k + 1) - 1 = k /\ k <= n /\ k + 1 \in 1..Len(s)
    BY <2>1, LenProperties
  <2>3. r[k] \in Reading /\ s[k + 1] \in Token
    BY <1>2, <2>2, ElementOfSeq
  <2>4. r[k + 1] = BareStep(r[k], s[k + 1])
    <3> HIDE DEF N
    <3> QED BY <2>2 DEF Reads
  <2> QED BY <2>3, <2>4, BareStepType
<1>3. Nat \subseteq N
  <2> HIDE DEF N
  <2> QED BY <1>1, <1>2, SetInduction
<1> QED BY <1>3

LEMMA ReadsAgree ==
  ASSUME NEW s, NEW r, NEW q, NEW n \in Nat, Reads(r, s, n), Reads(q, s, n)
  PROVE  \A k \in 0..n : r[k] = q[k]
<1> DEFINE N == {k \in Nat : k <= n => r[k] = q[k]}
<1>1. 0 \in N
  BY DEF Reads
<1>2. ASSUME NEW k \in Nat, k \in N PROVE k + 1 \in N
  <2>1. SUFFICES ASSUME k + 1 <= n PROVE r[k + 1] = q[k + 1]
    OBVIOUS
  <2>2. k + 1 \in 1..n /\ (k + 1) - 1 = k /\ k <= n
    BY <2>1
  <2>3. r[k] = q[k]
    BY <1>2, <2>2
  <2> HIDE DEF N
  <2> QED BY <2>2, <2>3 DEF Reads
<1>3. Nat \subseteq N
  <2> HIDE DEF N
  <2> QED BY <1>1, <1>2, SetInduction
<1> QED BY <1>3

BareFold(f, s) ==
  f = [t \in SUBSET (DOMAIN s) |->
         IF t = {} THEN Unread ELSE BareStep(f[t \ {Max(t)}], s[Max(t)])]

LEMMA BareUnfolds ==
  ASSUME NEW s
  PROVE  Bare(s) = (CHOOSE f : BareFold(f, s))[DOMAIN s].words
BY DEF Bare, FoldLeft, MapThenFoldSet, BareFold, BareStep, Unread

LEMMA BareReads ==
  ASSUME NEW s \in Seq(Token)
  PROVE  \E r : Reads(r, s, Len(s)) /\ Bare(s) = r[Len(s)].words
<1>1. PICK n \in Nat : n = Len(s)
  BY LenProperties
<1>2. DOMAIN s = 1..n /\ \A i \in 1..n : s[i] \in Token
  BY <1>1, LenProperties, ElementOfSeq
<1>3. \E f : BareFold(f, s)
  <2> DEFINE g == [p \in Reading \X (1..n) |-> BareStep(p[1], s[p[2]])]
  <2>1. g \in [Reading \X (1..n) -> Reading]
    BY <1>2, BareStepType
  <2>2. Unread \in Reading
    BY UnreadType
  <2>3. \A p \in Reading, i \in 1..n : g[<<p, i>>] = BareStep(p, s[i])
    OBVIOUS
  <2> HIDE DEF g
  <2>4. PICK f \in [SUBSET (1..n) -> Reading] : FoldOf(f, g, Unread, n)
    BY <2>1, <2>2, FoldExists
  <2>5. ASSUME NEW t \in SUBSET (1..n), t # {}
        PROVE  g[<<f[t \ {Max(t)}], Max(t)>>] = BareStep(f[t \ {Max(t)}], s[Max(t)])
    <3>1. t \in SUBSET Nat /\ \A y \in t : y <= n
      OBVIOUS
    <3>2. Max(t) \in 1..n
      BY <2>5, <3>1, MaxIs
    <3>3. f[t \ {Max(t)}] \in Reading
      OBVIOUS
    <3> QED BY <2>3, <3>2, <3>3
  <2>6. f = [t \in SUBSET (1..n) |->
               IF t = {} THEN Unread ELSE BareStep(f[t \ {Max(t)}], s[Max(t)])]
    BY <2>4, <2>5 DEF FoldOf
  <2> QED BY <1>2, <2>6 DEF BareFold
<1>4. PICK h : h = (CHOOSE f : BareFold(f, s))
  OBVIOUS
<1>5. BareFold(h, s) /\ Bare(s) = h[1..n].words
  BY <1>2, <1>3, <1>4, BareUnfolds
<1>6. \A t \in SUBSET (1..n) :
        h[t] = IF t = {} THEN Unread ELSE BareStep(h[t \ {Max(t)}], s[Max(t)])
  BY <1>2, <1>5 DEF BareFold
<1> DEFINE r == [k \in 0..n |-> h[1..k]]
<1>7. r[0] = Unread
  <2>1. 1..0 = {} /\ {} \in SUBSET (1..n) /\ 0 \in 0..n
    OBVIOUS
  <2>2. h[{}] = Unread
    BY <1>6, <2>1
  <2> QED BY <2>1, <2>2
<1>8. ASSUME NEW k \in 1..n PROVE r[k] = BareStep(r[k - 1], s[k])
  <2>1. k \in 0..n /\ k - 1 \in 0..n
    OBVIOUS
  <2>2. r[k] = h[1..k] /\ r[k - 1] = h[1 .. k - 1]
    BY <2>1
  <2>3. /\ 1..k \in SUBSET (1..n) /\ 1..k # {} /\ Max(1..k) = k
        /\ (1..k) \ {k} = 1 .. k - 1
    BY PrefixMax
  <2> HIDE DEF r
  <2> QED BY <1>6, <2>2, <2>3
<1>9. r[n] = h[1..n]
  OBVIOUS
<1> HIDE DEF r
<1>10. Reads(r, s, n)
  BY <1>7, <1>8 DEF Reads
<1> QED BY <1>1, <1>5, <1>9, <1>10

\* What a gloss is put in as.
LEMMA BracketedIs ==
  ASSUME NEW gloss \in Seq(Word)
  PROVE  /\ Bracketed(gloss) \in Seq(Token) /\ Len(gloss) \in Nat
         /\ Len(Bracketed(gloss)) = Len(gloss) + 2
         /\ Bracketed(gloss)[1] = "[=" /\ Bracketed(gloss)[Len(gloss) + 2] = "]"
         /\ \A m \in 1..Len(gloss) : Bracketed(gloss)[m + 1] = gloss[m] /\ gloss[m] \in Word
<1>1. PICK n \in Nat : n = Len(gloss)
  BY LenProperties
<1>2. gloss \in Seq(Token) /\ \A m \in 1..n : gloss[m] \in Word
  BY <1>1, SeqMonotonic, ElementOfSeq DEF Token
<1>3. PICK a, b : a = <<"[=">> /\ b = <<"]">>
  OBVIOUS
<1>4. /\ a \in Seq(Token) /\ b \in Seq(Token) /\ Len(a) = 1 /\ Len(b) = 1
      /\ a[1] = "[=" /\ b[1] = "]"
  BY <1>3 DEF Token
<1>5. PICK c : c = a \o gloss
  OBVIOUS
<1>6. /\ c \in Seq(Token) /\ Len(c) = 1 + n
      /\ \A m \in 1 .. 1 + n : c[m] = IF m <= 1 THEN a[m] ELSE gloss[m - 1]
  <2>1. /\ c \in Seq(Token) /\ Len(c) = Len(a) + Len(gloss)
        /\ \A m \in 1 .. Len(a) + Len(gloss) :
             c[m] = IF m <= Len(a) THEN a[m] ELSE gloss[m - Len(a)]
    BY <1>2, <1>4, <1>5, ConcatProperties
  <2> QED BY <1>1, <1>4, <2>1
<1>7. PICK u : u = c \o b
  OBVIOUS
<1>8. /\ u \in Seq(Token) /\ Len(u) = (1 + n) + 1
      /\ \A m \in 1 .. (1 + n) + 1 : u[m] = IF m <= 1 + n THEN c[m] ELSE b[m - (1 + n)]
  <2>1. /\ u \in Seq(Token) /\ Len(u) = Len(c) + Len(b)
        /\ \A m \in 1 .. Len(c) + Len(b) :
             u[m] = IF m <= Len(c) THEN c[m] ELSE b[m - Len(c)]
    BY <1>4, <1>6, <1>7, ConcatProperties
  <2> QED BY <1>4, <1>6, <2>1
<1>9. u = Bracketed(gloss)
  BY <1>3, <1>5, <1>7 DEF Bracketed
<1>10. u[1] = "[="
  BY <1>4, <1>6, <1>8
<1>11. u[n + 2] = "]"
  <2>1. n + 2 \in 1 .. (1 + n) + 1 /\ ~(n + 2 <= 1 + n) /\ (n + 2) - (1 + n) = 1
    OBVIOUS
  <2> QED BY <1>4, <1>8, <2>1
<1>12. ASSUME NEW m \in 1..n PROVE u[m + 1] = gloss[m]
  <2>1. /\ m + 1 \in 1 .. (1 + n) + 1 /\ m + 1 <= 1 + n /\ m + 1 \in 1 .. 1 + n
        /\ ~(m + 1 <= 1) /\ (m + 1) - 1 = m
    OBVIOUS
  <2> QED BY <1>6, <1>8, <2>1
<1> QED BY <1>1, <1>2, <1>8, <1>9, <1>10, <1>11, <1>12

\* A gloss put in anywhere, within another gloss, too, leaves the bare text alone.
LEMMA InsertedBare ==
  ASSUME NEW s \in Seq(Token), NEW k \in 0..Len(s), NEW gloss \in Seq(Word)
  PROVE  Bare(Inserted(s, k, Bracketed(gloss))) = Bare(s)
<1>1. PICK i : i = Bracketed(gloss)
  OBVIOUS
<1>2. PICK n \in Nat : n = Len(s)
  BY LenProperties
<1>3. PICK g \in Nat : g = Len(gloss)
  BY LenProperties
<1>4. PICK l \in Nat : l = g + 2
  OBVIOUS
<1>5. /\ i \in Seq(Token) /\ Len(i) = l /\ i[1] = "[=" /\ i[l] = "]"
      /\ \A m \in 1..g : i[m + 1] \in Word
  BY <1>1, <1>3, <1>4, BracketedIs
<1>6. PICK u : u = Inserted(s, k, i)
  OBVIOUS
<1>7. /\ u \in Seq(Token) /\ Len(u) = n + l /\ k \in Nat /\ k <= n
      /\ \A m \in 1..k : u[m] = s[m]
      /\ \A m \in 1..l : u[k + m] = i[m]
      /\ \A m \in k + 1 .. n : u[m + l] = s[m]
  <2>1. u \in Seq(Token) /\ IsInserted(u, s, k, i)
    BY <1>5, <1>6, InsertedIs
  <2> QED BY <1>2, <1>5, <2>1 DEF IsInserted
<1>8. PICK r : Reads(r, s, n) /\ Bare(s) = r[n].words
  BY <1>2, BareReads
<1>9. PICK q : Reads(q, u, n + l) /\ Bare(u) = q[n + l].words
  BY <1>7, BareReads
<1>10. r[0] = Unread /\ \A m \in 1..n : r[m] = BareStep(r[m - 1], s[m])
  BY <1>8 DEF Reads
<1>11. q[0] = Unread /\ \A m \in 1 .. n + l : q[m] = BareStep(q[m - 1], u[m])
  BY <1>9 DEF Reads
<1>12. \A m \in 0..k : r[m] = q[m]
  <2>1. \A m \in 1..k : m \in 1..n /\ m \in 1 .. n + l
    BY <1>7
  <2>2. Reads(r, s, k) /\ Reads(q, s, k)
    BY <1>7, <1>10, <1>11, <2>1 DEF Reads
  <2> QED BY <1>7, <2>2, ReadsAgree
<1>13. PICK d : d = r[k]
  OBVIOUS
<1>14. d \in Reading /\ q[k] = d
  <2>1. k \in 0..n /\ k \in 0..k
    BY <1>7
  <2>2. \A m \in 0..n : r[m] \in Reading
    BY <1>2, <1>8, ReadsType
  <2> QED BY <1>12, <1>13, <2>1, <2>2
<1>15. PICK deep : deep = [d EXCEPT !.depth = @ + 1]
  OBVIOUS
<1>16. /\ deep.depth = d.depth + 1 /\ deep.depth # 0 /\ d.depth \in Nat
       /\ [deep EXCEPT !.depth = @ - 1] = d
  <2>1. PICK y \in Nat : \E w \in Seq(Token) : d = [depth |-> y, words |-> w]
    BY <1>14 DEF Reading
  <2>2. PICK w \in Seq(Token) : d = [depth |-> y, words |-> w]
    BY <2>1
  <2>3. deep = [depth |-> y + 1, words |-> w]
    BY <1>15, <2>2
  <2>4. [deep EXCEPT !.depth = @ - 1] = [depth |-> (y + 1) - 1, words |-> w]
    BY <2>3
  <2>5. (y + 1) - 1 = y /\ y + 1 # 0
    OBVIOUS
  <2> QED BY <2>2, <2>3, <2>4, <2>5
<1>17. \A j \in 0..g : q[k + j + 1] = deep
  <2> DEFINE N == {j \in Nat : j <= g => q[k + j + 1] = deep}
  <2>1. 0 \in N
    <3>1. k + 1 \in 1 .. n + l /\ (k + 1) - 1 = k /\ 1 \in 1..l
      BY <1>4, <1>7
    <3>2. q[k + 1] = BareStep(q[k], u[k + 1]) /\ u[k + 1] = "[="
      BY <1>5, <1>7, <1>11, <3>1
    <3>3. q[k + 1] = deep
      BY <1>14, <1>15, <3>2 DEF BareStep
    <3>4. k + 0 + 1 = k + 1
      BY <1>7
    <3> QED BY <3>3, <3>4
  <2>2. ASSUME NEW j \in Nat, j \in N PROVE j + 1 \in N
    <3>1. SUFFICES ASSUME j + 1 <= g PROVE q[k + (j + 1) + 1] = deep
      OBVIOUS
    <3>2. PICK m \in Nat : m = k + (j + 1) + 1
      BY <1>7
    <3>3. /\ m \in 1 .. n + l /\ m - 1 = k + j + 1 /\ j <= g
          /\ j + 2 \in 1..l /\ m = k + (j + 2) /\ j + 1 \in 1..g /\ (j + 1) + 1 = j + 2
      BY <1>4, <1>7, <3>1, <3>2
    <3>4. q[m - 1] = deep
      BY <2>2, <3>3
    <3>5. u[m] = i[j + 2] /\ i[j + 2] \in Word
      BY <1>5, <1>7, <3>3
    <3>6. u[m] # "[=" /\ u[m] # "]"
      BY <3>5, WordsAssumption
    <3>7. q[m] = BareStep(deep, u[m])
      <4> HIDE DEF N
      <4> QED BY <1>11, <3>3, <3>4
    <3>8. q[m] = deep
      BY <1>16, <3>6, <3>7 DEF BareStep
    <3> QED BY <3>2, <3>8
  <2>3. Nat \subseteq N
    <3> HIDE DEF N
    <3> QED BY <2>1, <2>2, SetInduction
  <2>4. \A j \in 0..g : j \in Nat /\ j <= g
    OBVIOUS
  <2> QED BY <2>3, <2>4
<1>18. q[k + l] = d
  <2>1. k + l \in 1 .. n + l /\ (k + l) - 1 = k + g + 1 /\ l \in 1..l /\ g \in 0..g
    BY <1>4, <1>7
  <2>2. q[k + l] = BareStep(deep, "]")
    <3>1. q[k + l] = BareStep(q[(k + l) - 1], u[k + l]) /\ u[k + l] = "]"
      BY <1>5, <1>7, <1>11, <2>1
    <3> QED BY <1>17, <2>1, <3>1
  <2> QED BY <1>16, <2>2 DEF BareStep
<1> DEFINE p == [m \in 0..n |-> IF m < k THEN r[m] ELSE q[m + l]]
<1>19. \A m \in 0..n : p[m] = IF m < k THEN r[m] ELSE q[m + l]
  OBVIOUS
<1> HIDE DEF p
<1>20. k \in 0..n /\ n \in 0..n /\ 0 \in 0..n /\ p[k] = r[k] /\ p[n] = q[n + l]
  BY <1>7, <1>13, <1>18, <1>19
<1>21. p[0] = Unread
  BY <1>7, <1>10, <1>19, <1>20
<1>22. ASSUME NEW m \in 1..n PROVE p[m] = BareStep(p[m - 1], s[m])
  <2>1. m \in 0..n /\ m - 1 \in 0..n
    OBVIOUS
  <2>2. CASE m <= k
    <3>1. p[m] = r[m]
      BY <1>7, <1>19, <1>20, <2>1, <2>2
    <3>2. p[m - 1] = r[m - 1]
      BY <1>7, <1>19, <2>1, <2>2
    <3> QED BY <1>10, <3>1, <3>2
  <2>3. CASE m > k
    <3>1. /\ ~(m < k) /\ ~(m - 1 < k) /\ m + l \in 1 .. n + l
          /\ (m - 1) + l = (m + l) - 1 /\ m \in k + 1 .. n
      BY <1>7, <2>3
    <3>2. p[m] = q[m + l] /\ p[m - 1] = q[(m + l) - 1]
      BY <1>19, <2>1, <3>1
    <3>3. q[m + l] = BareStep(q[(m + l) - 1], u[m + l]) /\ u[m + l] = s[m]
      BY <1>7, <1>11, <3>1
    <3> QED BY <3>2, <3>3
  <2> QED BY <1>7, <2>2, <2>3
<1>23. Reads(p, s, n)
  BY <1>21, <1>22 DEF Reads
<1>24. p[n] = r[n]
  BY <1>8, <1>20, <1>23, ReadsAgree
<1>25. Bare(u) = Bare(s)
  BY <1>8, <1>9, <1>20, <1>24
<1> QED BY <1>1, <1>6, <1>25

\* A text without glosses is bare.
LEMMA PlainIsBare ==
  ASSUME NEW s \in Seq(Token), \A i \in 1..Len(s) : s[i] # "[="
  PROVE  Bare(s) = s
<1>1. PICK n \in Nat : n = Len(s)
  BY LenProperties
<1>2. PICK r : Reads(r, s, n) /\ Bare(s) = r[n].words
  BY <1>1, BareReads
<1> DEFINE N == {k \in Nat : k <= n => r[k] = [depth |-> 0, words |-> SubSeq(s, 1, k)]}
<1>3. 0 \in N
  <2>1. SubSeq(s, 1, 0) = <<>>
    BY SubSeqEmpty
  <2> QED BY <1>2, <2>1 DEF Reads, Unread
<1>4. ASSUME NEW k \in Nat, k \in N PROVE k + 1 \in N
  <2>1. SUFFICES ASSUME k + 1 <= n
                 PROVE  r[k + 1] = [depth |-> 0, words |-> SubSeq(s, 1, k + 1)]
    OBVIOUS
  <2>2. k + 1 \in 1..n /\ (k + 1) - 1 = k /\ k <= n /\ 1 \in 1..n
    BY <2>1
  <2>3. PICK d : d = r[k]
    OBVIOUS
  <2>4. PICK t : t = SubSeq(s, 1, k)
    OBVIOUS
  <2>5. d = [depth |-> 0, words |-> t]
    BY <1>4, <2>2, <2>3, <2>4
  <2>6. r[k + 1] = BareStep(d, s[k + 1])
    <3> HIDE DEF N
    <3> QED BY <1>2, <2>2, <2>3 DEF Reads
  <2>7. BareStep(d, s[k + 1]) = [depth |-> 0, words |-> Append(t, s[k + 1])]
    <3>1. s[k + 1] # "[=" /\ d.depth = 0 /\ d.words = t
      BY <1>1, <2>2, <2>5
    <3>2. BareStep(d, s[k + 1]) = [d EXCEPT !.words = Append(t, s[k + 1])]
      BY <3>1 DEF BareStep
    <3> QED BY <2>5, <3>2
  <2>8. Append(t, s[k + 1]) = SubSeq(s, 1, k + 1)
    <3>1. \A i \in 1..n : s[i] \in Token
      BY <1>1, ElementOfSeq
    <3>2. \A i \in 1..k : s[i] \in Token
      BY <2>2, <3>1
    <3>3. t \in Seq(Token) /\ Len(t) = k /\ \A i \in 1..k : t[i] = s[i]
      <4>1. /\ t \in Seq(Token) /\ Len(t) = IF 1 <= k THEN k - 1 + 1 ELSE 0
            /\ \A i \in 1 .. k - 1 + 1 : t[i] = s[1 + i - 1]
        BY <2>4, <3>2, SubSeqProperties
      <4> QED BY <4>1
    <3>4. PICK a : a = Append(t, s[k + 1])
      OBVIOUS
    <3>5. a \in Seq(Token) /\ Len(a) = k + 1 /\ (\A i \in 1..k : a[i] = s[i]) /\ a[k + 1] = s[k + 1]
      <4>1. s[k + 1] \in Token
        BY <2>2, <3>1
      <4> QED BY <3>3, <3>4, <4>1, AppendProperties
    <3>6. PICK b : b = SubSeq(s, 1, k + 1)
      OBVIOUS
    <3>7. b \in Seq(Token) /\ Len(b) = k + 1 /\ \A i \in 1 .. k + 1 : b[i] = s[i]
      <4>1. \A i \in 1 .. k + 1 : s[i] \in Token
        BY <2>2, <3>1
      <4>2. /\ b \in Seq(Token) /\ Len(b) = IF 1 <= k + 1 THEN (k + 1) - 1 + 1 ELSE 0
            /\ \A i \in 1 .. (k + 1) - 1 + 1 : b[i] = s[1 + i - 1]
        BY <3>6, <4>1, SubSeqProperties
      <4> QED BY <4>2
    <3>8. \A i \in 1 .. k + 1 : a[i] = b[i]
      BY <3>5, <3>7
    <3> QED BY <3>4, <3>5, <3>6, <3>7, <3>8, SeqEqual
  <2> QED BY <2>6, <2>7, <2>8
<1>5. Nat \subseteq N
  <2> HIDE DEF N
  <2> QED BY <1>3, <1>4, SetInduction
<1>6. r[n].words = SubSeq(s, 1, n)
  <2>1. n \in N /\ n <= n
    <3> HIDE DEF N
    <3> QED BY <1>5
  <2>2. r[n] = [depth |-> 0, words |-> SubSeq(s, 1, n)]
    BY <2>1
  <2> QED BY <2>2
<1> QED BY <1>1, <1>2, <1>6, SubSeqFull

-----------------------------------------------------------------------------
(* Splicing term after term *)

Glossed(terms) == [text : Seq(Token), seen : SUBSET Surfaces(terms)]

\* Whether s gets its gloss where t is being spliced, given what is already seen.
IsNew(terms, seen, t, s) == s \notin seen /\ GlossOf(terms, s) # <<>> /\ EndsIn(t, s) # {}

SpliceIn(terms, done, s) ==
  [text |-> Inserted(done.text, Min(EndsIn(done.text, s)), Bracketed(GlossOf(terms, s))),
   seen |-> done.seen \cup {s}]

LEMMA SpliceIs ==
  ASSUME NEW terms \in Lexicons, NEW done \in Glossed(terms), NEW s \in Surfaces(terms)
  PROVE  /\ Splice(done, s, GlossOf(terms, s)) =
              IF IsNew(terms, done.seen, done.text, s) THEN SpliceIn(terms, done, s) ELSE done
         /\ Splice(done, s, GlossOf(terms, s)) \in Glossed(terms)
         /\ EndsIn(done.text, s) # {} =>
              /\ Min(EndsIn(done.text, s)) \in 1..Len(done.text)
              /\ Min(EndsIn(done.text, s)) \in EndsIn(done.text, s)
              /\ \A e \in EndsIn(done.text, s) : Min(EndsIn(done.text, s)) <= e
<1>1. PICK t, seen : t = done.text /\ seen = done.seen
  OBVIOUS
<1>2. t \in Seq(Token) /\ seen \in SUBSET Surfaces(terms)
  BY <1>1 DEF Glossed
<1>3. PICK g : g = GlossOf(terms, s)
  OBVIOUS
<1>4. g \in Seq(Word) /\ s \in Seq(Word) /\ s # <<>>
  BY <1>3, RowsIs
<1>5. Len(s) \in Nat /\ Len(s) # 0 /\ Len(t) \in Nat
  BY <1>2, <1>4, LenProperties, EmptySeq
<1>6. PICK ends : ends = EndsIn(t, s)
  OBVIOUS
<1>7. ends \in SUBSET (1..Len(t))
  <2>1. \A e \in ends : e \in Len(s) .. Len(t)
    BY <1>6 DEF EndsIn
  <2> QED BY <1>5, <2>1
<1>8. PICK end : end = Min(ends)
  OBVIOUS
<1>9. ends # {} => end \in ends /\ end \in 1..Len(t) /\ \A e \in ends : end <= e
  <2>1. ends \in SUBSET Nat
    BY <1>5, <1>7
  <2>2. ends # {} => end \in ends /\ \A e \in ends : end <= e
    BY <1>8, <2>1, MinIs
  <2> QED BY <1>7, <2>2
<1>10. PICK i : i = Bracketed(g)
  OBVIOUS
<1>11. i \in Seq(Token)
  BY <1>4, <1>10, BracketedIs
<1>12. Splice(done, s, g) =
         IF s \in seen \/ g = <<>> \/ ends = {} THEN done
         ELSE [text |-> Inserted(t, end, i), seen |-> seen \cup {s}]
  BY <1>1, <1>6, <1>8, <1>10 DEF Splice, Inserted
<1>13. ends # {} => Inserted(t, end, i) \in Seq(Token)
  <2>1. end \in 1..Len(t) => end \in 0..Len(t)
    BY <1>5
  <2> QED BY <1>2, <1>9, <1>11, <2>1, InsertedIs
<1>14. Splice(done, s, g) \in Glossed(terms)
  BY <1>2, <1>12, <1>13 DEF Glossed
<1>15. Splice(done, s, g) =
         IF IsNew(terms, seen, t, s) THEN SpliceIn(terms, done, s) ELSE done
  BY <1>1, <1>3, <1>6, <1>8, <1>10, <1>12 DEF IsNew, SpliceIn
<1> QED BY <1>1, <1>3, <1>6, <1>8, <1>9, <1>14, <1>15

\* r splices the first n of the terms ss into a text.
Splices(r, text, terms, seen, ss, n) ==
  /\ r[0] = [text |-> text, seen |-> seen]
  /\ \A k \in 1..n : r[k] = Splice(r[k - 1], ss[k], GlossOf(terms, ss[k]))
  /\ \A k \in 0..n : r[k] \in Glossed(terms)

SpliceFold(f, text, terms, seen, ss) ==
  f = [t \in SUBSET (DOMAIN ss) |->
         IF t = {} THEN [text |-> text, seen |-> seen]
         ELSE Splice(f[t \ {Max(t)}], ss[Max(t)], GlossOf(terms, ss[Max(t)]))]

LEMMA SplicesUnfold ==
  ASSUME NEW text, NEW terms, NEW seen
  PROVE  SpliceGlosses(text, terms, seen) =
           (CHOOSE f : SpliceFold(f, text, terms, seen, InTurn(terms)))[DOMAIN InTurn(terms)]
BY DEF SpliceGlosses, FoldLeft, MapThenFoldSet, SpliceFold

LEMMA SplicesRun ==
  ASSUME NEW terms \in Lexicons, NEW text \in Seq(Token), NEW seen \in SUBSET Surfaces(terms)
  PROVE  LET n == Cardinality(Surfaces(terms)) IN
         \E r : /\ Splices(r, text, terms, seen, InTurn(terms), n)
                /\ SpliceGlosses(text, terms, seen) = r[n]
<1>1. PICK n \in Nat : n = Cardinality(Surfaces(terms))
  BY SurfacesAreFinite
<1>2. PICK ss : ss = InTurn(terms)
  OBVIOUS
<1>3. ss \in [1..n -> Surfaces(terms)] /\ DOMAIN ss = 1..n
  BY <1>1, <1>2, InTurnIs
<1>4. PICK Q : Q = Glossed(terms)
  OBVIOUS
<1>5. PICK b : b = [text |-> text, seen |-> seen]
  OBVIOUS
<1>6. b \in Q
  BY <1>4, <1>5 DEF Glossed
<1>7. \A q \in Q, i \in 1..n : Splice(q, ss[i], GlossOf(terms, ss[i])) \in Q
  BY <1>3, <1>4, SpliceIs
<1>8. \E f : SpliceFold(f, text, terms, seen, ss)
  <2> DEFINE g == [p \in Q \X (1..n) |-> Splice(p[1], ss[p[2]], GlossOf(terms, ss[p[2]]))]
  <2>1. g \in [Q \X (1..n) -> Q]
    BY <1>7
  <2>2. \A p \in Q, i \in 1..n : g[<<p, i>>] = Splice(p, ss[i], GlossOf(terms, ss[i]))
    OBVIOUS
  <2> HIDE DEF g
  <2>3. PICK f \in [SUBSET (1..n) -> Q] : FoldOf(f, g, b, n)
    BY <1>6, <2>1, FoldExists
  <2>4. ASSUME NEW t \in SUBSET (1..n), t # {}
        PROVE  g[<<f[t \ {Max(t)}], Max(t)>>] =
                 Splice(f[t \ {Max(t)}], ss[Max(t)], GlossOf(terms, ss[Max(t)]))
    <3>1. t \in SUBSET Nat /\ \A y \in t : y <= n
      OBVIOUS
    <3>2. Max(t) \in 1..n
      BY <2>4, <3>1, MaxIs
    <3>3. f[t \ {Max(t)}] \in Q
      OBVIOUS
    <3> QED BY <2>2, <3>2, <3>3
  <2>5. f = [t \in SUBSET (1..n) |->
               IF t = {} THEN b
               ELSE Splice(f[t \ {Max(t)}], ss[Max(t)], GlossOf(terms, ss[Max(t)]))]
    BY <2>3, <2>4 DEF FoldOf
  <2> QED BY <1>3, <1>5, <2>5 DEF SpliceFold
<1>9. PICK h : h = (CHOOSE f : SpliceFold(f, text, terms, seen, ss))
  OBVIOUS
<1>10. SpliceFold(h, text, terms, seen, ss) /\ SpliceGlosses(text, terms, seen) = h[1..n]
  BY <1>2, <1>3, <1>8, <1>9, SplicesUnfold
<1>11. \A t \in SUBSET (1..n) :
         h[t] = IF t = {} THEN b
                ELSE Splice(h[t \ {Max(t)}], ss[Max(t)], GlossOf(terms, ss[Max(t)]))
  BY <1>3, <1>5, <1>10 DEF SpliceFold
<1> DEFINE r == [k \in 0..n |-> h[1..k]]
<1>12. r[0] = b
  <2>1. 1..0 = {} /\ {} \in SUBSET (1..n) /\ 0 \in 0..n
    OBVIOUS
  <2>2. h[{}] = b
    BY <1>11, <2>1
  <2> QED BY <2>1, <2>2
<1>13. ASSUME NEW k \in 1..n PROVE r[k] = Splice(r[k - 1], ss[k], GlossOf(terms, ss[k]))
  <2>1. k \in 0..n /\ k - 1 \in 0..n
    OBVIOUS
  <2>2. r[k] = h[1..k] /\ r[k - 1] = h[1 .. k - 1]
    BY <2>1
  <2>3. /\ 1..k \in SUBSET (1..n) /\ 1..k # {} /\ Max(1..k) = k
        /\ (1..k) \ {k} = 1 .. k - 1
    BY PrefixMax
  <2> HIDE DEF r
  <2> QED BY <1>11, <2>2, <2>3
<1>14. r[n] = h[1..n]
  OBVIOUS
<1> HIDE DEF r
<1>15. \A k \in 0..n : r[k] \in Q
  <2> DEFINE N == {k \in Nat : k <= n => r[k] \in Q}
  <2>1. 0 \in N
    BY <1>6, <1>12
  <2>2. ASSUME NEW k \in Nat, k \in N PROVE k + 1 \in N
    <3>1. SUFFICES ASSUME k + 1 <= n PROVE r[k + 1] \in Q
      OBVIOUS
    <3>2. k + 1 \in 1..n /\ (k + 1) - 1 = k /\ k <= n
      BY <3>1
    <3>3. r[k] \in Q
      BY <2>2, <3>2
    <3> HIDE DEF N
    <3> QED BY <1>7, <1>13, <3>2, <3>3
  <2>3. Nat \subseteq N
    <3> HIDE DEF N
    <3> QED BY <2>1, <2>2, SetInduction
  <2> QED BY <2>3
<1>16. Splices(r, text, terms, seen, ss, n)
  BY <1>4, <1>5, <1>12, <1>13, <1>15 DEF Splices
<1> QED BY <1>1, <1>2, <1>10, <1>14, <1>16

\* Splicing leaves the bare text alone.
LEMMA SplicesBare ==
  ASSUME NEW terms \in Lexicons, NEW text \in Seq(Token), NEW seen \in SUBSET Surfaces(terms)
  PROVE  /\ SpliceGlosses(text, terms, seen) \in Glossed(terms)
         /\ Bare(SpliceGlosses(text, terms, seen).text) = Bare(text)
<1>1. PICK n \in Nat : n = Cardinality(Surfaces(terms))
  BY SurfacesAreFinite
<1>2. PICK ss : ss = InTurn(terms)
  OBVIOUS
<1>3. PICK r : /\ Splices(r, text, terms, seen, ss, n)
               /\ SpliceGlosses(text, terms, seen) = r[n]
  BY <1>1, <1>2, SplicesRun
<1>4. \A i \in 1..n : ss[i] \in Surfaces(terms)
  BY <1>1, <1>2, InTurnIs
<1> DEFINE N == {k \in Nat : k <= n => Bare(r[k].text) = Bare(text)}
<1>5. 0 \in N
  BY <1>3 DEF Splices
<1>6. ASSUME NEW k \in Nat, k \in N PROVE k + 1 \in N
  <2>1. SUFFICES ASSUME k + 1 <= n PROVE Bare(r[k + 1].text) = Bare(text)
    OBVIOUS
  <2>2. k + 1 \in 1..n /\ (k + 1) - 1 = k /\ k <= n /\ k \in 0..n
    BY <2>1
  <2>3. PICK done, s : done = r[k] /\ s = ss[k + 1]
    OBVIOUS
  <2>4. done \in Glossed(terms) /\ s \in Surfaces(terms)
    BY <1>3, <1>4, <2>2, <2>3 DEF Splices
  <2>5. r[k + 1] = Splice(done, s, GlossOf(terms, s))
    <3> HIDE DEF N
    <3> QED BY <1>3, <2>2, <2>3 DEF Splices
  <2>6. Bare(done.text) = Bare(text)
    BY <1>6, <2>2, <2>3
  <2>7. CASE IsNew(terms, done.seen, done.text, s)
    <3>1. r[k + 1] = SpliceIn(terms, done, s)
      BY <2>4, <2>5, <2>7, SpliceIs
    <3>2. PICK e : e = Min(EndsIn(done.text, s))
      OBVIOUS
    <3>3. e \in 1..Len(done.text) /\ done.text \in Seq(Token)
      BY <2>4, <2>7, <3>2, SpliceIs DEF IsNew, Glossed
    <3>4. e \in 0..Len(done.text)
      BY <3>3, LenProperties
    <3>5. PICK g : g = GlossOf(terms, s) /\ g \in Seq(Word)
      BY <2>4, RowsIs
    <3>6. r[k + 1].text = Inserted(done.text, e, Bracketed(g))
      BY <3>1, <3>2, <3>5 DEF SpliceIn
    <3> QED BY <2>6, <3>3, <3>4, <3>5, <3>6, InsertedBare
  <2>8. CASE ~IsNew(terms, done.seen, done.text, s)
    <3>1. r[k + 1] = done
      BY <2>4, <2>5, <2>8, SpliceIs
    <3> QED BY <2>6, <3>1
  <2> QED BY <2>7, <2>8
<1>7. Nat \subseteq N
  <2> HIDE DEF N
  <2> QED BY <1>5, <1>6, SetInduction
<1>8. n \in N /\ n <= n /\ n \in 0..n
  <2> HIDE DEF N
  <2> QED BY <1>7
<1>9. Bare(r[n].text) = Bare(text)
  BY <1>8
<1>10. r[n] \in Glossed(terms)
  <2> HIDE DEF N
  <2> QED BY <1>3, <1>8 DEF Splices
<1> QED BY <1>3, <1>9, <1>10

-----------------------------------------------------------------------------
(* A gloss for each term at most *)

\* The marks of a text are where h puts the terms T.
CoversText(h, T, text) ==
  /\ h \in [T -> Nat]
  /\ \A j \in 1..Len(text) : text[j] = "[=" => \E s \in T : h[s] = j

LEMMA InsertedCovers ==
  ASSUME NEW t \in Seq(Token), NEW e \in 0..Len(t), NEW gloss \in Seq(Word),
         NEW T, NEW s, s \notin T, NEW h, CoversText(h, T, t)
  PROVE  \E g : CoversText(g, T \cup {s}, Inserted(t, e, Bracketed(gloss)))
<1>1. PICK i : i = Bracketed(gloss)
  OBVIOUS
<1>2. PICK n \in Nat : n = Len(t)
  BY LenProperties
<1>3. PICK o \in Nat : o = Len(gloss)
  BY LenProperties
<1>4. PICK l \in Nat : l = o + 2
  OBVIOUS
<1>5. /\ i \in Seq(Token) /\ Len(i) = l /\ i[1] = "[=" /\ i[l] = "]"
      /\ \A m \in 1..o : i[m + 1] \in Word
  BY <1>1, <1>3, <1>4, BracketedIs
<1>6. PICK u : u = Inserted(t, e, i)
  OBVIOUS
<1>7. /\ u \in Seq(Token) /\ Len(u) = n + l /\ e \in Nat /\ e <= n
      /\ \A m \in 1..e : u[m] = t[m]
      /\ \A m \in 1..l : u[e + m] = i[m]
      /\ \A m \in e + 1 .. n : u[m + l] = t[m]
  <2>1. u \in Seq(Token) /\ IsInserted(u, t, e, i)
    BY <1>5, <1>6, InsertedIs
  <2> QED BY <1>2, <1>5, <2>1 DEF IsInserted
<1> DEFINE g == [x \in T \cup {s} |-> IF x = s THEN e + 1
                                      ELSE IF h[x] > e THEN h[x] + l ELSE h[x]]
<1>8. g \in [T \cup {s} -> Nat]
  <2>1. \A x \in T : h[x] \in Nat
    BY DEF CoversText
  <2>2. \A x \in T \cup {s} : x # s => x \in T
    OBVIOUS
  <2> QED BY <1>7, <2>1, <2>2
<1>9. g[s] = e + 1 /\ \A x \in T : g[x] = IF h[x] > e THEN h[x] + l ELSE h[x]
  OBVIOUS
<1> HIDE DEF g
<1>10. ASSUME NEW j \in 1..Len(u), u[j] = "[=" PROVE \E x \in T \cup {s} : g[x] = j
  <2>1. j \in Nat /\ 1 <= j /\ j <= n + l
    BY <1>7, <1>10
  <2>2. CASE j <= e
    <3>1. j \in 1..n /\ t[j] = "[="
      BY <1>7, <1>10, <2>1, <2>2
    <3>2. PICK x \in T : h[x] = j
      BY <1>2, <3>1 DEF CoversText
    <3>3. g[x] = j
      BY <1>7, <1>9, <2>1, <2>2, <3>2
    <3> QED BY <3>3
  <2>3. CASE e < j /\ j <= e + l
    <3>1. PICK m \in 1..l : j = e + m
      <4>1. j - e \in 1..l /\ j = e + (j - e)
        BY <1>7, <2>1, <2>3
      <4> QED BY <4>1
    <3>2. i[m] = "[="
      BY <1>7, <1>10, <3>1
    <3>3. m = 1
      <4>1. m # l
        BY <1>5, <3>2
      <4>2. m # 1 => m - 1 \in 1..o /\ (m - 1) + 1 = m
        BY <1>4, <4>1
      <4>3. m # 1 => i[m] \in Word
        BY <1>5, <4>2
      <4> QED BY <3>2, <4>3, WordsAssumption
    <3>4. g[s] = j
      BY <1>9, <3>1, <3>3
    <3> QED BY <3>4
  <2>4. CASE j > e + l
    <3>1. PICK m \in e + 1 .. n : j = m + l
      <4>1. j - l \in e + 1 .. n /\ j = (j - l) + l
        BY <1>7, <2>1, <2>4
      <4> QED BY <4>1
    <3>2. m \in 1..n /\ t[m] = "[=" /\ m > e
      BY <1>7, <1>10, <3>1
    <3>3. PICK x \in T : h[x] = m
      BY <1>2, <3>2 DEF CoversText
    <3>4. g[x] = j
      BY <1>9, <3>1, <3>2, <3>3
    <3> QED BY <3>4
  <2> QED BY <1>7, <2>1, <2>2, <2>3, <2>4
<1>11. CoversText(g, T \cup {s}, u)
  BY <1>8, <1>10 DEF CoversText
<1> QED BY <1>1, <1>6, <1>11

\* The marks splicing leaves are those of the terms it adds to the seen ones.
LEMMA SplicesCover ==
  ASSUME NEW terms \in Lexicons, NEW text \in Seq(Token), NEW seen \in SUBSET Surfaces(terms),
         \A i \in 1..Len(text) : text[i] # "[="
  PROVE  LET done == SpliceGlosses(text, terms, seen) IN
         /\ seen \subseteq done.seen
         /\ \E h : CoversText(h, done.seen \ seen, done.text)
<1>1. PICK n \in Nat : n = Cardinality(Surfaces(terms))
  BY SurfacesAreFinite
<1>2. PICK ss : ss = InTurn(terms)
  OBVIOUS
<1>3. PICK r : /\ Splices(r, text, terms, seen, ss, n)
               /\ SpliceGlosses(text, terms, seen) = r[n]
  BY <1>1, <1>2, SplicesRun
<1>4. \A i \in 1..n : ss[i] \in Surfaces(terms)
  BY <1>1, <1>2, InTurnIs
<1> DEFINE Good(done) == /\ seen \subseteq done.seen
                         /\ \E h : CoversText(h, done.seen \ seen, done.text)
           N == {k \in Nat : k <= n => Good(r[k])}
<1>5. 0 \in N
  <2>1. r[0].text = text /\ r[0].seen = seen
    BY <1>3 DEF Splices
  <2> DEFINE h == [x \in seen \ seen |-> 0]
  <2>2. h \in [seen \ seen -> Nat]
    OBVIOUS
  <2> HIDE DEF h
  <2>3. CoversText(h, seen \ seen, text)
    BY <2>2 DEF CoversText
  <2> QED BY <2>1, <2>3
<1>6. ASSUME NEW k \in Nat, k \in N PROVE k + 1 \in N
  <2> HIDE DEF Good
  <2>1. SUFFICES ASSUME k + 1 <= n PROVE Good(r[k + 1])
    OBVIOUS
  <2>2. k + 1 \in 1..n /\ (k + 1) - 1 = k /\ k <= n /\ k \in 0..n
    BY <2>1
  <2>3. PICK done, s : done = r[k] /\ s = ss[k + 1]
    OBVIOUS
  <2>4. done \in Glossed(terms) /\ s \in Surfaces(terms)
    BY <1>3, <1>4, <2>2, <2>3 DEF Splices
  <2>5. r[k + 1] = Splice(done, s, GlossOf(terms, s))
    <3> HIDE DEF N
    <3> QED BY <1>3, <2>2, <2>3 DEF Splices
  <2>6. Good(done)
    BY <1>6, <2>2, <2>3
  <2>7. CASE IsNew(terms, done.seen, done.text, s)
    <3>1. r[k + 1] = SpliceIn(terms, done, s)
      BY <2>4, <2>5, <2>7, SpliceIs
    <3>2. PICK e : e = Min(EndsIn(done.text, s))
      OBVIOUS
    <3>3. e \in 1..Len(done.text) /\ done.text \in Seq(Token)
      BY <2>4, <2>7, <3>2, SpliceIs DEF IsNew, Glossed
    <3>4. e \in 0..Len(done.text)
      BY <3>3, LenProperties
    <3>5. PICK g : g = GlossOf(terms, s) /\ g \in Seq(Word)
      BY <2>4, RowsIs
    <3>6. PICK h : CoversText(h, done.seen \ seen, done.text)
      BY <2>6 DEF Good
    <3>7. s \notin done.seen \ seen /\ s \notin seen
      BY <2>6, <2>7 DEF IsNew, Good
    <3>8. \E f : CoversText(f, (done.seen \ seen) \cup {s},
                            Inserted(done.text, e, Bracketed(g)))
      BY <3>3, <3>4, <3>5, <3>6, <3>7, InsertedCovers
    <3>9. /\ r[k + 1].text = Inserted(done.text, e, Bracketed(g))
          /\ r[k + 1].seen = done.seen \cup {s}
      BY <3>1, <3>2, <3>5 DEF SpliceIn
    <3>10. r[k + 1].seen \ seen = (done.seen \ seen) \cup {s} /\ seen \subseteq r[k + 1].seen
      BY <2>6, <3>7, <3>9 DEF Good
    <3> QED BY <3>8, <3>9, <3>10 DEF Good
  <2>8. CASE ~IsNew(terms, done.seen, done.text, s)
    <3>1. r[k + 1] = done
      BY <2>4, <2>5, <2>8, SpliceIs
    <3> QED BY <2>6, <3>1
  <2> QED BY <2>7, <2>8
<1>7. Nat \subseteq N
  <2> HIDE DEF N
  <2> QED BY <1>5, <1>6, SetInduction
<1>8. n \in N /\ n <= n
  <2> HIDE DEF N
  <2> QED BY <1>7
<1>9. Good(r[n])
  <2> HIDE DEF Good
  <2> QED BY <1>8
<1> QED BY <1>3, <1>9

-----------------------------------------------------------------------------
(* Passage after passage *)

Plain(nodes) == [i \in 1..Cardinality(nodes) |-> ForAssembly(Ordered(nodes)[i])]

Assembled(terms) == [parts : Seq(Seq(Token)), seen : SUBSET Surfaces(terms)]

PartStep(done, p, terms) ==
  LET body == SpliceGlosses(ForAssembly(p), terms, done.seen)
  IN  [parts |-> Append(done.parts, body.text), seen |-> body.seen]

PartFold(f, terms, ps) ==
  f = [t \in SUBSET (DOMAIN ps) |->
         IF t = {} THEN [parts |-> <<>>, seen |-> {}]
         ELSE PartStep(f[t \ {Max(t)}], ps[Max(t)], terms)]

LEMMA PartsUnfold ==
  ASSUME NEW nodes, NEW terms
  PROVE  Parts(nodes, terms) =
           (CHOOSE f : PartFold(f, terms, Ordered(nodes)))[DOMAIN Ordered(nodes)].parts
BY DEF Parts, FoldLeft, MapThenFoldSet, PartFold, PartStep

LEMMA PartStepType ==
  ASSUME NEW terms \in Lexicons, NEW done \in Assembled(terms), NEW p \in Passages
  PROVE  LET body == SpliceGlosses(ForAssembly(p), terms, done.seen) IN
         /\ PartStep(done, p, terms) \in Assembled(terms)
         /\ body.text \in Seq(Token) /\ body.seen \in SUBSET Surfaces(terms)
         /\ PartStep(done, p, terms).seen = body.seen
         /\ PartStep(done, p, terms).parts = Append(done.parts, body.text)
<1>1. PICK body : body = SpliceGlosses(ForAssembly(p), terms, done.seen)
  OBVIOUS
<1>2. done.seen \in SUBSET Surfaces(terms) /\ done.parts \in Seq(Seq(Token))
  BY DEF Assembled
<1>3. ForAssembly(p) \in Seq(Token)
  BY AssembledType
<1>4. body \in Glossed(terms)
  BY <1>1, <1>2, <1>3, SplicesBare
<1>5. body.text \in Seq(Token) /\ body.seen \in SUBSET Surfaces(terms)
  BY <1>4 DEF Glossed
<1>6. Append(done.parts, body.text) \in Seq(Seq(Token))
  BY <1>2, <1>5, AppendProperties
<1>7. PartStep(done, p, terms) = [parts |-> Append(done.parts, body.text), seen |-> body.seen]
  BY <1>1 DEF PartStep
<1>8. PartStep(done, p, terms) \in Assembled(terms)
  BY <1>5, <1>6, <1>7 DEF Assembled
<1> QED BY <1>1, <1>5, <1>7, <1>8

\* text is the n passages of nodes, q what is seen before and after each.
AssembledAs(text, nodes, terms, q, n) ==
  /\ text \in Seq(Seq(Token)) /\ Len(text) = n
  /\ q[0] = {} /\ \A k \in 0..n : q[k] \in SUBSET Surfaces(terms)
  /\ \A k \in 1..n :
       /\ q[k] = SpliceGlosses(Plain(nodes)[k], terms, q[k - 1]).seen
       /\ text[k] = SpliceGlosses(Plain(nodes)[k], terms, q[k - 1]).text

LEMMA PartsAre ==
  ASSUME NEW terms \in Lexicons, NEW nodes \in SUBSET Passages, IsFiniteSet(nodes)
  PROVE  \E q : AssembledAs(Parts(nodes, terms), nodes, terms, q, Cardinality(nodes))
<1>1. PICK n \in Nat : n = Cardinality(nodes)
  BY FS_CardinalityType
<1>2. PICK ps : ps = Ordered(nodes)
  OBVIOUS
<1>3. ps \in [1..n -> Passages] /\ DOMAIN ps = 1..n
  <2>1. ps \in [1..n -> nodes]
    BY <1>1, <1>2, OrderedIs
  <2> QED BY <2>1
<1>4. PICK Q : Q = Assembled(terms)
  OBVIOUS
<1>5. PICK b : b = [parts |-> <<>>, seen |-> {}]
  OBVIOUS
<1>6. b \in Q
  BY <1>4, <1>5, EmptySeq DEF Assembled
<1>7. \A d \in Q, i \in 1..n : PartStep(d, ps[i], terms) \in Q
  BY <1>3, <1>4, PartStepType
<1>8. \E f : PartFold(f, terms, ps)
  <2> DEFINE g == [x \in Q \X (1..n) |-> PartStep(x[1], ps[x[2]], terms)]
  <2>1. g \in [Q \X (1..n) -> Q]
    BY <1>7
  <2>2. \A d \in Q, i \in 1..n : g[<<d, i>>] = PartStep(d, ps[i], terms)
    OBVIOUS
  <2> HIDE DEF g
  <2>3. PICK f \in [SUBSET (1..n) -> Q] : FoldOf(f, g, b, n)
    BY <1>6, <2>1, FoldExists
  <2>4. ASSUME NEW t \in SUBSET (1..n), t # {}
        PROVE  g[<<f[t \ {Max(t)}], Max(t)>>] = PartStep(f[t \ {Max(t)}], ps[Max(t)], terms)
    <3>1. t \in SUBSET Nat /\ \A y \in t : y <= n
      OBVIOUS
    <3>2. Max(t) \in 1..n
      BY <2>4, <3>1, MaxIs
    <3>3. f[t \ {Max(t)}] \in Q
      OBVIOUS
    <3> QED BY <2>2, <3>2, <3>3
  <2>5. f = [t \in SUBSET (1..n) |->
               IF t = {} THEN b ELSE PartStep(f[t \ {Max(t)}], ps[Max(t)], terms)]
    BY <2>3, <2>4 DEF FoldOf
  <2> QED BY <1>3, <1>5, <2>5 DEF PartFold
<1>9. PICK h : h = (CHOOSE f : PartFold(f, terms, ps))
  OBVIOUS
<1>10. PartFold(h, terms, ps) /\ Parts(nodes, terms) = h[1..n].parts
  BY <1>2, <1>3, <1>8, <1>9, PartsUnfold
<1>11. \A t \in SUBSET (1..n) :
         h[t] = IF t = {} THEN b ELSE PartStep(h[t \ {Max(t)}], ps[Max(t)], terms)
  BY <1>3, <1>5, <1>10 DEF PartFold
<1> DEFINE r == [k \in 0..n |-> h[1..k]]
<1>12. r[0] = b
  <2>1. 1..0 = {} /\ {} \in SUBSET (1..n) /\ 0 \in 0..n
    OBVIOUS
  <2>2. h[{}] = b
    BY <1>11, <2>1
  <2> QED BY <2>1, <2>2
<1>13. ASSUME NEW k \in 1..n PROVE r[k] = PartStep(r[k - 1], ps[k], terms)
  <2>1. k \in 0..n /\ k - 1 \in 0..n
    OBVIOUS
  <2>2. r[k] = h[1..k] /\ r[k - 1] = h[1 .. k - 1]
    BY <2>1
  <2>3. /\ 1..k \in SUBSET (1..n) /\ 1..k # {} /\ Max(1..k) = k
        /\ (1..k) \ {k} = 1 .. k - 1
    BY PrefixMax
  <2> HIDE DEF r
  <2> QED BY <1>11, <2>2, <2>3
<1>14. r[n] = h[1..n]
  OBVIOUS
<1> HIDE DEF r
<1> DEFINE Text(k) == SpliceGlosses(Plain(nodes)[k], terms, r[k - 1].seen)
           So(k) == /\ r[k] \in Q /\ Len(r[k].parts) = k
                    /\ \A j \in 1..k : /\ r[j].seen = Text(j).seen
                                       /\ r[k].parts[j] = Text(j).text
           N == {k \in Nat : k <= n => So(k)}
<1>15. 0 \in N
  <2>1. So(0)
    BY <1>5, <1>6, <1>12
  <2> QED BY <2>1
<1>16. ASSUME NEW k \in Nat, k \in N PROVE k + 1 \in N
  <2> HIDE DEF So
  <2>1. SUFFICES ASSUME k + 1 <= n PROVE So(k + 1)
    OBVIOUS
  <2>2. k + 1 \in 1..n /\ (k + 1) - 1 = k /\ k <= n
    BY <2>1
  <2>3. So(k)
    BY <1>16, <2>2
  <2> HIDE DEF N
  <2>4. PICK d, p, e : d = r[k] /\ p = ps[k + 1] /\ e = r[k + 1]
    OBVIOUS
  <2>5. d \in Assembled(terms) /\ p \in Passages /\ Len(d.parts) = k
    BY <1>3, <1>4, <2>2, <2>3, <2>4 DEF So
  <2>6. e = PartStep(d, p, terms)
    BY <1>13, <2>2, <2>4
  <2>7. Plain(nodes)[k + 1] = ForAssembly(p)
    BY <1>1, <1>2, <2>2, <2>4 DEF Plain
  <2>8. PICK body : body = SpliceGlosses(ForAssembly(p), terms, d.seen)
    OBVIOUS
  <2>9. Text(k + 1) = body
    BY <2>2, <2>4, <2>7, <2>8
  <2>10. /\ e \in Assembled(terms) /\ body.text \in Seq(Token)
         /\ e.seen = body.seen /\ e.parts = Append(d.parts, body.text)
    BY <2>5, <2>6, <2>8, PartStepType
  <2>11. /\ Len(e.parts) = k + 1 /\ e.parts[k + 1] = body.text
         /\ \A j \in 1..k : e.parts[j] = d.parts[j]
    <3>1. d.parts \in Seq(Seq(Token))
      BY <2>5 DEF Assembled
    <3> QED BY <2>5, <2>10, <3>1, AppendProperties
  <2>12. ASSUME NEW j \in 1 .. k + 1
         PROVE  r[j].seen = Text(j).seen /\ e.parts[j] = Text(j).text
    <3> HIDE DEF Text
    <3>1. CASE j = k + 1
      BY <2>4, <2>9, <2>10, <2>11, <3>1
    <3>2. CASE j # k + 1
      <4>1. j \in 1..k
        BY <3>2
      <4>2. r[j].seen = Text(j).seen /\ d.parts[j] = Text(j).text
        BY <2>3, <2>4, <4>1 DEF So
      <4> QED BY <2>11, <4>1, <4>2
    <3> QED BY <3>1, <3>2
  <2> HIDE DEF Text
  <2> QED BY <1>4, <2>4, <2>10, <2>11, <2>12 DEF So
<1>17. Nat \subseteq N
  <2> HIDE DEF N
  <2> QED BY <1>15, <1>16, SetInduction
<1>18. \A k \in 0..n : So(k)
  <2> HIDE DEF So
  <2> QED BY <1>17
<1> DEFINE q == [k \in 0..n |-> r[k].seen]
<1>19. \A k \in 0..n : q[k] = r[k].seen
  OBVIOUS
<1> HIDE DEF q, So, N
<1>20. \A k \in 0..n : q[k] \in SUBSET Surfaces(terms)
  BY <1>4, <1>18, <1>19 DEF So, Assembled
<1>21. q[0] = {}
  BY <1>5, <1>12, <1>19
<1>22. PICK text : text = Parts(nodes, terms)
  OBVIOUS
<1>23. text = r[n].parts /\ n \in 0..n
  BY <1>10, <1>14, <1>22
<1>24. text \in Seq(Seq(Token)) /\ Len(text) = n
  BY <1>4, <1>18, <1>23 DEF So, Assembled
<1>25. ASSUME NEW k \in 1..n
       PROVE  /\ q[k] = SpliceGlosses(Plain(nodes)[k], terms, q[k - 1]).seen
              /\ text[k] = SpliceGlosses(Plain(nodes)[k], terms, q[k - 1]).text
  <2>1. k \in 0..n /\ k - 1 \in 0..n
    OBVIOUS
  <2>2. r[k].seen = Text(k).seen /\ text[k] = Text(k).text
    <3> HIDE DEF Text
    <3> QED BY <1>18, <1>23 DEF So
  <2>3. Text(k) = SpliceGlosses(Plain(nodes)[k], terms, q[k - 1])
    BY <1>19, <2>1
  <2> HIDE DEF Text
  <2> QED BY <1>19, <2>1, <2>2, <2>3
<1>26. AssembledAs(text, nodes, terms, q, n)
  BY <1>20, <1>21, <1>24, <1>25 DEF AssembledAs
<1> QED BY <1>1, <1>22, <1>26

LEMMA PlainIs ==
  ASSUME NEW nodes \in SUBSET Passages, IsFiniteSet(nodes), NEW k \in 1..Cardinality(nodes)
  PROVE  /\ Plain(nodes)[k] \in Seq(Token)
         /\ \A i \in 1..Len(Plain(nodes)[k]) : Plain(nodes)[k][i] # "[="
<1>1. Ordered(nodes)[k] \in Passages /\ Plain(nodes)[k] = ForAssembly(Ordered(nodes)[k])
  BY OrderedIs DEF Plain
<1> QED BY <1>1, AssembledType

\* The first half of Annotates: the passages read on unchanged.
LEMMA PassagesReadOn ==
  ASSUME NEW terms \in Lexicons, NEW nodes \in SUBSET Passages, IsFiniteSet(nodes)
  PROVE  LET text == Parts(nodes, terms) IN [i \in DOMAIN text |-> Bare(text[i])] = Plain(nodes)
<1>1. PICK n \in Nat : n = Cardinality(nodes)
  BY FS_CardinalityType
<1>2. PICK text : text = Parts(nodes, terms)
  OBVIOUS
<1>3. PICK q : AssembledAs(text, nodes, terms, q, n)
  BY <1>1, <1>2, PartsAre
<1>4. DOMAIN text = 1..n /\ DOMAIN Plain(nodes) = 1..n
  BY <1>1, <1>3, LenProperties DEF AssembledAs, Plain
<1>5. ASSUME NEW i \in 1..n PROVE Bare(text[i]) = Plain(nodes)[i]
  <2>1. PICK t : t = Plain(nodes)[i]
    OBVIOUS
  <2>2. t \in Seq(Token) /\ \A j \in 1..Len(t) : t[j] # "[="
    BY <1>1, <2>1, PlainIs
  <2>3. q[i - 1] \in SUBSET Surfaces(terms) /\ text[i] = SpliceGlosses(t, terms, q[i - 1]).text
    <3>1. i - 1 \in 0..n
      OBVIOUS
    <3> QED BY <1>3, <1>4, <2>1, <3>1 DEF AssembledAs
  <2>4. Bare(text[i]) = Bare(t)
    BY <2>2, <2>3, SplicesBare
  <2> QED BY <2>1, <2>2, <2>4, PlainIsBare
<1>6. [i \in DOMAIN text |-> Bare(text[i])] = Plain(nodes)
  <2>1. Plain(nodes) = [i \in 1..n |-> Plain(nodes)[i]]
    BY <1>1 DEF Plain
  <2> QED BY <1>4, <1>5, <2>1
<1> QED BY <1>2, <1>6

\* The second part of Annotates: no gloss beyond one for each term.
LEMMA OneGlossEach ==
  ASSUME NEW terms \in Lexicons, NEW nodes \in SUBSET Passages, IsFiniteSet(nodes)
  PROVE  Cardinality(Marked(Parts(nodes, terms))) <= Cardinality(Surfaces(terms))
<1>1. PICK n \in Nat : n = Cardinality(nodes)
  BY FS_CardinalityType
<1>2. PICK text : text = Parts(nodes, terms)
  OBVIOUS
<1>3. PICK q : AssembledAs(text, nodes, terms, q, n)
  BY <1>1, <1>2, PartsAre
<1>4. PICK S : S = Surfaces(terms)
  OBVIOUS
<1> DEFINE Covered(k) == \E g \in [q[k] -> Nat \X Nat] :
                           \A i \in 1..k : \A j \in 1..Len(text[i]) :
                             text[i][j] = "[=" => \E s \in q[k] : g[s] = <<i, j>>
           N == {k \in Nat : k <= n => Covered(k)}
<1>5. 0 \in N
  <2> DEFINE g == [s \in q[0] |-> <<0, 0>>]
  <2>1. g \in [q[0] -> Nat \X Nat]
    OBVIOUS
  <2>2. \A i \in 1..0 : FALSE
    OBVIOUS
  <2> HIDE DEF g
  <2>3. Covered(0)
    BY <2>1, <2>2
  <2> QED BY <2>3
<1>6. ASSUME NEW k \in Nat, k \in N PROVE k + 1 \in N
  <2> HIDE DEF Covered
  <2>1. SUFFICES ASSUME k + 1 <= n PROVE Covered(k + 1)
    OBVIOUS
  <2>2. k + 1 \in 1..n /\ (k + 1) - 1 = k /\ k <= n /\ k \in 0..n /\ k + 1 \in 0..n
    BY <2>1
  <2>3. Covered(k)
    BY <1>6, <2>2
  <2> HIDE DEF N
  <2>4. PICK t : t = Plain(nodes)[k + 1]
    OBVIOUS
  <2>5. t \in Seq(Token) /\ \A j \in 1..Len(t) : t[j] # "[="
    BY <1>1, <2>2, <2>4, PlainIs
  <2>6. PICK done : done = SpliceGlosses(t, terms, q[k])
    OBVIOUS
  <2>7. q[k] \in SUBSET S /\ q[k + 1] = done.seen /\ text[k + 1] = done.text
    BY <1>3, <1>4, <2>2, <2>4, <2>6 DEF AssembledAs
  <2>8. q[k] \subseteq done.seen /\ \E h : CoversText(h, done.seen \ q[k], done.text)
    BY <1>4, <2>5, <2>6, <2>7, SplicesCover
  <2>9. PICK h : CoversText(h, done.seen \ q[k], done.text)
    BY <2>8
  <2>10. PICK g \in [q[k] -> Nat \X Nat] :
           \A i \in 1..k : \A j \in 1..Len(text[i]) :
             text[i][j] = "[=" => \E s \in q[k] : g[s] = <<i, j>>
    BY <2>3 DEF Covered
  <2> DEFINE f == [s \in q[k + 1] |-> IF s \in q[k] THEN g[s] ELSE <<k + 1, h[s]>>]
  <2>11. f \in [q[k + 1] -> Nat \X Nat]
    BY <2>7, <2>9 DEF CoversText
  <2>12. /\ \A s \in q[k] : s \in q[k + 1] /\ f[s] = g[s]
         /\ \A s \in done.seen \ q[k] : s \in q[k + 1] /\ f[s] = <<k + 1, h[s]>>
    BY <2>7, <2>8
  <2> HIDE DEF f
  <2>13. ASSUME NEW i \in 1 .. k + 1, NEW j \in 1..Len(text[i]), text[i][j] = "[="
         PROVE  \E s \in q[k + 1] : f[s] = <<i, j>>
    <3>1. CASE i = k + 1
      <4>1. j \in 1..Len(done.text) /\ done.text[j] = "[="
        BY <2>7, <2>13, <3>1
      <4>2. PICK s \in done.seen \ q[k] : h[s] = j
        BY <2>9, <4>1 DEF CoversText
      <4> QED BY <2>12, <3>1, <4>2
    <3>2. CASE i # k + 1
      <4>1. i \in 1..k
        BY <3>2
      <4>2. PICK s \in q[k] : g[s] = <<i, j>>
        BY <2>10, <2>13, <4>1
      <4> QED BY <2>12, <4>2
    <3> QED BY <3>1, <3>2
  <2> QED BY <2>11, <2>13 DEF Covered
<1>7. Nat \subseteq N
  <2> HIDE DEF N
  <2> QED BY <1>5, <1>6, SetInduction
<1>8. n \in N /\ n <= n /\ n \in 0..n
  <2> HIDE DEF N
  <2> QED BY <1>7
<1>9. PICK g \in [q[n] -> Nat \X Nat] :
        \A i \in 1..n : \A j \in 1..Len(text[i]) :
          text[i][j] = "[=" => \E s \in q[n] : g[s] = <<i, j>>
  BY <1>8
<1>10. q[n] \in SUBSET S
  BY <1>3, <1>4, <1>8 DEF AssembledAs
<1>11. PICK M : M = Marked(text)
  OBVIOUS
<1>12. ASSUME NEW p \in M PROVE \E s \in q[n] : g[s] = p
  <2>1. text \in Seq(Seq(Token)) /\ DOMAIN text = 1..n
    BY <1>3, LenProperties DEF AssembledAs
  <2>2. PICK i \in 1..n : p \in {i} \X DOMAIN text[i] /\ text[p[1]][p[2]] = "[="
    BY <1>11, <1>12, <2>1 DEF Marked
  <2>3. PICK j \in DOMAIN text[i] : p = <<i, j>>
    BY <2>2
  <2>4. text[i] \in Seq(Token)
    <3>1. i \in 1..Len(text)
      BY <1>3 DEF AssembledAs
    <3> QED BY <2>1, <3>1, ElementOfSeq
  <2>5. j \in 1..Len(text[i])
    BY <2>3, <2>4, LenProperties
  <2> QED BY <1>9, <2>2, <2>3, <2>5
<1>13. IsFiniteSet(S) /\ Cardinality(S) \in Nat
  BY <1>4, SurfacesAreFinite
<1>14. CASE M = {}
  BY <1>2, <1>4, <1>11, <1>13, <1>14, FS_EmptySet
<1>15. CASE M # {}
  <2>1. PICK m \in M : TRUE
    BY <1>15
  <2> DEFINE f == [s \in S |-> IF s \in q[n] /\ g[s] \in M THEN g[s] ELSE m]
  <2>2. f \in [S -> M]
    OBVIOUS
  <2>3. \A p \in M : \E s \in S : f[s] = p
    BY <1>10, <1>12
  <2> HIDE DEF f
  <2>4. f \in Surjection(S, M)
    BY <2>2, <2>3 DEF Surjection
  <2>5. Cardinality(M) <= Cardinality(S)
    BY <1>13, <2>4, FS_Surjection
  <2> QED BY <1>2, <1>4, <1>11, <2>5
<1> QED BY <1>14, <1>15

-----------------------------------------------------------------------------
(* A text with notes woven in *)

\* x has the n words of t, each followed by its note in b, word j at place p[j].
Woven(x, t, n, b, p) ==
  /\ p \in [1 .. n + 1 -> Nat] /\ p[1] = 1 /\ Len(x) = p[n + 1] - 1
  /\ \A j \in 1..n : p[j + 1] = p[j] + 1 + Len(b[j]) /\ x[p[j]] = t[j]
  /\ \A j \in 1..n : \A m \in 1..Len(b[j]) : x[p[j] + m] = b[j][m]

Ascends(p, n) == \A i, j \in 1..n : i <= j => p[i] + (j - i) <= p[j]
LieIn(p, n, x) == \A j \in 1..n : p[j] \in Nat /\ j <= p[j] /\ p[j] <= Len(x)

LEMMA PlacesGrow ==
  ASSUME NEW n \in Nat, NEW b \in [1..n -> Seq(Token)], NEW x, NEW t, NEW p, Woven(x, t, n, b, p)
  PROVE  Ascends(p, n + 1) /\ LieIn(p, n, x)
<1>1. \A j \in 1 .. n + 1 : p[j] \in Nat
  BY DEF Woven
<1>2. \A j \in 1..n : p[j] + 1 <= p[j + 1]
  <2>1. ASSUME NEW j \in 1..n PROVE p[j] + 1 <= p[j + 1]
    <3>1. Len(b[j]) \in Nat
      BY LenProperties
    <3>2. p[j + 1] = p[j] + 1 + Len(b[j])
      BY DEF Woven
    <3>3. p[j] \in Nat
      BY <1>1
    <3> QED BY <3>1, <3>2, <3>3
  <2> QED BY <2>1
<1> DEFINE N == {d \in Nat : \A i \in 1 .. n + 1 : i + d <= n + 1 => p[i] + d <= p[i + d]}
<1>3. 0 \in N
  BY <1>1
<1>4. ASSUME NEW d \in Nat, d \in N PROVE d + 1 \in N
  <2>1. SUFFICES ASSUME NEW i \in 1 .. n + 1, i + (d + 1) <= n + 1
                 PROVE  p[i] + (d + 1) <= p[i + (d + 1)]
    OBVIOUS
  <2>2. PICK k \in 1..n : k = i + d
    BY <2>1
  <2>3. p[i] + d <= p[k] /\ i + (d + 1) = k + 1 /\ k \in 1 .. n + 1 /\ k + 1 \in 1 .. n + 1
    BY <1>4, <2>1, <2>2
  <2> HIDE DEF N
  <2>4. p[i] \in Nat /\ p[k] \in Nat /\ p[k + 1] \in Nat /\ p[k] + 1 <= p[k + 1]
    BY <1>1, <1>2, <2>3
  <2>5. p[i + (d + 1)] = p[k + 1]
    BY <2>3
  <2>6. PICK y : y = p[i]
    OBVIOUS
  <2>7. PICK z : z = p[k]
    OBVIOUS
  <2>8. PICK w : w = p[k + 1]
    OBVIOUS
  <2>9. y + (d + 1) <= w
    BY <2>3, <2>4, <2>6, <2>7, <2>8
  <2> QED BY <2>5, <2>6, <2>8, <2>9
<1>5. Nat \subseteq N
  <2> HIDE DEF N
  <2> QED BY <1>3, <1>4, SetInduction
<1>6. ASSUME NEW i \in 1 .. n + 1, NEW j \in 1 .. n + 1, i <= j PROVE p[i] + (j - i) <= p[j]
  <2>1. j - i \in N /\ i + (j - i) = j
    <3> HIDE DEF N
    <3> QED BY <1>5, <1>6
  <2> QED BY <2>1
<1>7. ASSUME NEW j \in 1..n PROVE p[j] \in Nat /\ j <= p[j] /\ p[j] <= Len(x)
  <2>1. 1 \in 1 .. n + 1 /\ j \in 1 .. n + 1 /\ n + 1 \in 1 .. n + 1 /\ 1 <= j /\ j <= n + 1
    OBVIOUS
  <2>2. p[1] + (j - 1) <= p[j] /\ p[j] + ((n + 1) - j) <= p[n + 1]
    BY <1>6, <2>1
  <2>3. p[1] = 1 /\ Len(x) = p[n + 1] - 1 /\ p[j] \in Nat /\ p[n + 1] \in Nat
    BY <1>1, <2>1 DEF Woven
  <2> QED BY <2>1, <2>2, <2>3
<1> QED BY <1>6, <1>7 DEF Ascends, LieIn

\* Position e is that of word j or within the note behind it.
Behind(x, b, p, j, e) == e = p[j] \/ \E m \in 1..Len(b[j]) : e = p[j] + m /\ x[e] = b[j][m]

\* Every position is that of a word or within the note behind one.
LEMMA PlaceOf ==
  ASSUME NEW n \in Nat, NEW b \in [1..n -> Seq(Token)], NEW x, NEW t, NEW p, Woven(x, t, n, b, p),
         NEW e \in 1..Len(x)
  PROVE  \E j \in 1..n : Behind(x, b, p, j, e)
<1>1. /\ \A j \in 1 .. n + 1 : p[j] \in Nat
      /\ p[1] = 1 /\ Len(x) = p[n + 1] - 1 /\ n + 1 \in 1 .. n + 1
  <2>1. n + 1 \in 1 .. n + 1
    OBVIOUS
  <2> QED BY <2>1 DEF Woven
<1>2. e \in Nat /\ 1 <= e /\ e < p[n + 1]
  BY <1>1
<1>3. n # 0
  BY <1>1, <1>2
<1> DEFINE T == {j \in 1..n : p[j] <= e}
<1>4. T \in SUBSET Nat /\ 1 \in T /\ \A j \in T : j <= n
  BY <1>1, <1>2, <1>3
<1>5. PICK j \in T : \A i \in T : i <= j
  <2> HIDE DEF T
  <2> QED BY <1>4, GreatestNat
<1>6. j \in 1..n /\ p[j] <= e /\ p[j] \in Nat
  BY <1>1, <1>5
<1>7. e < p[j + 1]
  <2>1. CASE j = n
    BY <1>2, <2>1
  <2>2. CASE j # n
    <3>1. j + 1 \in 1..n /\ j + 1 \notin T
      BY <1>5, <1>6, <2>2
    <3>2. p[j + 1] \in Nat /\ ~(p[j + 1] <= e)
      BY <1>1, <3>1
    <3> QED BY <1>2, <3>2
  <2> QED BY <2>1, <2>2
<1>8. p[j + 1] = p[j] + 1 + Len(b[j]) /\ Len(b[j]) \in Nat
  BY <1>6, LenProperties DEF Woven
<1>9. CASE e = p[j]
  BY <1>6, <1>9 DEF Behind
<1>10. CASE e # p[j]
  <2>1. PICK m \in 1..Len(b[j]) : e = p[j] + m
    <3>1. e - p[j] \in 1..Len(b[j]) /\ e = p[j] + (e - p[j])
      BY <1>2, <1>6, <1>7, <1>8, <1>10
    <3> QED BY <3>1
  <2>2. x[e] = b[j][m]
    BY <1>6, <2>1 DEF Woven
  <2> QED BY <1>6, <2>1, <2>2 DEF Behind
<1> QED BY <1>9, <1>10

LEMMA WovenIsUnique ==
  ASSUME NEW n \in Nat, NEW b \in [1..n -> Seq(Token)], NEW t,
         NEW x \in Seq(Token), NEW y \in Seq(Token),
         NEW p, Woven(x, t, n, b, p), NEW q, Woven(y, t, n, b, q)
  PROVE  x = y
<1> DEFINE N == {k \in Nat : k <= n => p[k + 1] = q[k + 1]}
<1>1. 0 \in N
  BY DEF Woven
<1>2. ASSUME NEW k \in Nat, k \in N PROVE k + 1 \in N
  <2>1. SUFFICES ASSUME k + 1 <= n PROVE p[(k + 1) + 1] = q[(k + 1) + 1]
    OBVIOUS
  <2>2. k + 1 \in 1..n /\ k <= n /\ p[k + 1] = q[k + 1]
    BY <1>2, <2>1
  <2> HIDE DEF N
  <2> QED BY <2>2 DEF Woven
<1>3. Nat \subseteq N
  <2> HIDE DEF N
  <2> QED BY <1>1, <1>2, SetInduction
<1>4. ASSUME NEW j \in 1 .. n + 1 PROVE p[j] = q[j]
  <2>1. j - 1 \in N /\ (j - 1) + 1 = j /\ j - 1 <= n
    <3> HIDE DEF N
    <3> QED BY <1>3
  <2> QED BY <2>1
<1>5. Len(x) = Len(y)
  BY <1>4 DEF Woven
<1>6. ASSUME NEW e \in 1..Len(x) PROVE x[e] = y[e]
  <2>1. PICK j \in 1..n : Behind(x, b, p, j, e)
    BY PlaceOf
  <2>2. p[j] = q[j]
    BY <1>4
  <2>3. CASE e = p[j]
    BY <2>2, <2>3 DEF Woven
  <2>4. CASE e # p[j]
    <3>1. PICK m \in 1..Len(b[j]) : e = p[j] + m /\ x[e] = b[j][m]
      BY <2>1, <2>4 DEF Behind
    <3> QED BY <2>2, <3>1 DEF Woven
  <2> QED BY <2>3, <2>4
<1> QED BY <1>5, <1>6, SeqEqual

\* A text is woven without notes.
LEMMA WovenPlain ==
  ASSUME NEW t \in Seq(Token), NEW n, n = Len(t), NEW b \in [1..n -> Seq(Token)],
         \A j \in 1..n : b[j] = <<>>
  PROVE  \E p : Woven(t, t, n, b, p)
<1>1. n \in Nat
  BY LenProperties
<1> DEFINE p == [j \in 1 .. n + 1 |-> j]
<1>2. p \in [1 .. n + 1 -> Nat] /\ \A j \in 1 .. n + 1 : p[j] = j
  OBVIOUS
<1> HIDE DEF p
<1>3. \A j \in 1..n : Len(b[j]) = 0
  BY EmptySeq
<1>4. \A j \in 1..n : p[j + 1] = p[j] + 1 + Len(b[j]) /\ t[p[j]] = t[j]
  BY <1>1, <1>2, <1>3
<1>5. \A j \in 1..n : \A m \in 1..Len(b[j]) : FALSE
  BY <1>3
<1>6. p[1] = 1 /\ Len(t) = p[n + 1] - 1
  BY <1>1, <1>2
<1> QED BY <1>2, <1>4, <1>5, <1>6 DEF Woven

\* A note is put in behind a word that has none.
LEMMA WovenInsert ==
  ASSUME NEW n \in Nat, NEW b \in [1..n -> Seq(Token)], NEW t, NEW x \in Seq(Token),
         NEW p, Woven(x, t, n, b, p), NEW j \in 1..n, b[j] = <<>>, NEW i \in Seq(Token)
  PROVE  \E q : Woven(Inserted(x, p[j], i), t, n, [b EXCEPT ![j] = i], q)
<1>1. PICK l \in Nat : l = Len(i)
  BY LenProperties
<1>2. PICK e : e = p[j]
  OBVIOUS
<1>3. PICK N \in Nat : N = Len(x)
  BY LenProperties
<1>4. e \in 0..N /\ e \in Nat /\ e <= N
  <2>1. LieIn(p, n, x)
    BY PlacesGrow
  <2>2. e \in Nat /\ e <= N
    BY <1>2, <1>3, <2>1 DEF LieIn
  <2> QED BY <2>2
<1>5. PICK u : u = Inserted(x, e, i)
  OBVIOUS
<1>6. /\ Len(u) = N + l
      /\ \A m \in 1..e : u[m] = x[m]
      /\ \A m \in 1..l : u[e + m] = i[m]
      /\ \A m \in e + 1 .. N : u[m + l] = x[m]
  <2>1. IsInserted(u, x, e, i)
    BY <1>3, <1>4, <1>5, InsertedIs
  <2> QED BY <1>1, <1>3, <2>1 DEF IsInserted
<1> DEFINE q == [m \in 1 .. n + 1 |-> IF m <= j THEN p[m] ELSE p[m] + l]
           c == [b EXCEPT ![j] = i]
<1>7. /\ p \in [1 .. n + 1 -> Nat] /\ p[1] = 1 /\ N = p[n + 1] - 1
      /\ \A m \in 1 .. n + 1 : p[m] \in Nat
  BY <1>3 DEF Woven
<1>8. q \in [1 .. n + 1 -> Nat]
  <2>1. ASSUME NEW m \in 1 .. n + 1 PROVE (IF m <= j THEN p[m] ELSE p[m] + l) \in Nat
    <3>1. PICK y \in Nat : y = p[m]
      BY <1>7
    <3>2. y + l \in Nat
      OBVIOUS
    <3> QED BY <3>1, <3>2
  <2> QED BY <2>1
<1>9. \A m \in 1 .. n + 1 : q[m] = IF m <= j THEN p[m] ELSE p[m] + l
  OBVIOUS
<1>10. c[j] = i /\ \A m \in 1..n : m # j => c[m] = b[m]
  OBVIOUS
<1> HIDE DEF q, c
<1>11. q[1] = 1 /\ Len(u) = q[n + 1] - 1
  <2>1. 1 \in 1 .. n + 1 /\ 1 <= j /\ n + 1 \in 1 .. n + 1 /\ ~(n + 1 <= j)
    OBVIOUS
  <2>2. q[1] = 1 /\ q[n + 1] = p[n + 1] + l /\ p[n + 1] \in Nat
    BY <1>7, <1>9, <2>1
  <2>3. PICK z \in Nat : z = p[n + 1]
    BY <2>2
  <2>4. N = z - 1 /\ N + l = (z + l) - 1
    BY <1>7, <2>3
  <2> QED BY <1>6, <2>2, <2>3, <2>4
<1>12. \A k, m \in 1 .. n + 1 : k <= m => p[k] + (m - k) <= p[m]
  <2>1. Ascends(p, n + 1)
    BY PlacesGrow
  <2> QED BY <2>1 DEF Ascends
<1>13. ASSUME NEW k \in 1..n
       PROVE  /\ q[k + 1] = q[k] + 1 + Len(c[k]) /\ u[q[k]] = t[k]
              /\ \A m \in 1..Len(c[k]) : u[q[k] + m] = c[k][m]
  <2>1. /\ p[k + 1] = p[k] + 1 + Len(b[k]) /\ x[p[k]] = t[k] /\ Len(b[k]) \in Nat
        /\ \A m \in 1..Len(b[k]) : x[p[k] + m] = b[k][m]
    BY LenProperties DEF Woven
  <2>2. k \in 1 .. n + 1 /\ k + 1 \in 1 .. n + 1 /\ j \in 1 .. n + 1 /\ j + 1 \in 1 .. n + 1
    OBVIOUS
  <2>3. p[k] \in Nat /\ p[k + 1] \in Nat /\ 1 <= p[k] /\ p[k] <= N
    <3>1. LieIn(p, n, x)
      BY PlacesGrow
    <3>2. p[k] \in Nat /\ k <= p[k] /\ p[k] <= N
      BY <1>3, <3>1 DEF LieIn
    <3>3. PICK y \in Nat : y = p[k]
      BY <3>2
    <3>4. 1 <= y
      BY <3>2, <3>3
    <3>5. p[k + 1] \in Nat
      BY <1>7, <2>2
    <3> QED BY <3>2, <3>3, <3>4, <3>5
  <2>4. CASE k < j
    <3>1. k <= j /\ k + 1 <= j /\ k # j
      BY <2>4
    <3>2. q[k] = p[k] /\ q[k + 1] = p[k + 1] /\ c[k] = b[k]
      BY <1>9, <1>10, <2>2, <3>1
    <3>3. p[k + 1] <= e
      <4>1. p[k + 1] + (j - (k + 1)) <= p[j]
        BY <1>12, <2>2, <3>1
      <4>2. PICK z \in Nat : z = p[k + 1]
        BY <2>3
      <4>3. z + (j - (k + 1)) <= e
        BY <1>2, <4>1, <4>2
      <4>4. z <= e
        BY <1>4, <3>1, <4>3
      <4> QED BY <4>2, <4>4
    <3>4. p[k] \in 1..e /\ \A m \in 1..Len(b[k]) : p[k] + m \in 1..e
      <4>1. PICK y, z, o : y = p[k] /\ z = p[k + 1] /\ o = Len(b[k])
        OBVIOUS
      <4>2. /\ y \in Nat /\ z \in Nat /\ o \in Nat /\ e \in Nat
            /\ 1 <= y /\ z = y + 1 + o /\ z <= e
        BY <1>4, <2>1, <2>3, <3>3, <4>1
      <4>3. y \in 1..e /\ \A m \in 1..o : y + m \in 1..e
        BY <4>2
      <4> QED BY <4>1, <4>3
    <3> QED BY <1>6, <2>1, <3>2, <3>4
  <2>5. CASE k = j
    <3>1. k <= j /\ ~(k + 1 <= j) /\ Len(b[k]) = 0
      BY <2>5, EmptySeq
    <3>2. q[k] = e /\ q[k + 1] = p[k + 1] + l /\ c[k] = i
      BY <1>2, <1>9, <1>10, <2>2, <2>5, <3>1
    <3>3. p[k + 1] = e + 1 /\ e \in 1..e
      <4>1. p[k] = e /\ p[k + 1] = p[k] + 1 + 0
        BY <1>2, <2>1, <2>5, <3>1
      <4>2. 1 <= e /\ e + 1 + 0 = e + 1
        BY <1>4, <2>3, <4>1
      <4> QED BY <1>4, <4>1, <4>2
    <3>4. q[k + 1] = q[k] + 1 + Len(c[k])
      BY <1>1, <1>4, <3>2, <3>3
    <3>5. u[q[k]] = t[k]
      BY <1>2, <1>6, <2>1, <2>5, <3>2, <3>3
    <3> QED BY <1>1, <1>6, <3>2, <3>4, <3>5
  <2>6. CASE k > j
    <3>1. ~(k <= j) /\ ~(k + 1 <= j) /\ k # j /\ j <= k
      BY <2>6
    <3>2. q[k] = p[k] + l /\ q[k + 1] = p[k + 1] + l /\ c[k] = b[k]
      BY <1>9, <1>10, <2>2, <3>1
    <3>3. p[k] > e
      <4>1. p[j] + (k - j) <= p[k]
        BY <1>12, <2>2, <3>1
      <4>2. PICK z \in Nat : z = p[k]
        BY <2>3
      <4>3. e + (k - j) <= z
        BY <1>2, <4>1, <4>2
      <4>4. z > e
        BY <1>4, <2>6, <4>3
      <4> QED BY <4>2, <4>4
    <3>4. p[k + 1] - 1 <= N
      <4>1. n + 1 \in 1 .. n + 1 /\ k + 1 <= n + 1
        OBVIOUS
      <4>2. p[k + 1] + ((n + 1) - (k + 1)) <= p[n + 1]
        BY <1>12, <2>2, <4>1
      <4>3. PICK y \in Nat : y = p[k + 1]
        BY <2>3
      <4>4. PICK z \in Nat : z = p[n + 1]
        BY <1>7, <4>1
      <4>5. y + ((n + 1) - (k + 1)) <= z /\ N = z - 1
        BY <1>7, <4>2, <4>3, <4>4
      <4>6. y - 1 <= N
        BY <4>1, <4>5
      <4> QED BY <4>3, <4>6
    <3>5. p[k] \in e + 1 .. N
      BY <1>4, <2>3, <3>3
    <3>6. q[k + 1] = q[k] + 1 + Len(c[k])
      <4>1. PICK y \in Nat : y = p[k]
        BY <2>3
      <4>2. PICK o \in Nat : o = Len(b[k])
        BY <2>1
      <4>3. (y + 1 + o) + l = (y + l) + 1 + o
        OBVIOUS
      <4> QED BY <2>1, <3>2, <4>1, <4>2, <4>3
    <3>7. u[q[k]] = t[k]
      BY <1>6, <2>1, <3>2, <3>5
    <3>8. ASSUME NEW m \in 1..Len(b[k]) PROVE u[q[k] + m] = b[k][m]
      <4>1. PICK y, z, o : y = p[k] /\ z = p[k + 1] /\ o = Len(b[k])
        OBVIOUS
      <4>2. /\ y \in Nat /\ z \in Nat /\ o \in Nat /\ e \in Nat
            /\ y > e /\ z = y + 1 + o /\ z - 1 <= N /\ m \in 1..o
        BY <1>4, <2>1, <2>3, <3>3, <3>4, <4>1
      <4>3. y + m \in e + 1 .. N /\ (y + m) + l = (y + l) + m
        BY <4>2
      <4>4. u[(y + m) + l] = x[y + m]
        BY <1>6, <4>3
      <4> QED BY <2>1, <3>2, <4>1, <4>3, <4>4
    <3> QED BY <3>2, <3>6, <3>7, <3>8
  <2> QED BY <2>4, <2>5, <2>6
<1>14. Woven(u, t, n, c, q)
  BY <1>8, <1>11, <1>13 DEF Woven
<1> QED BY <1>2, <1>5, <1>14 DEF c

\* What is flattened from the words with their notes.
LEMMA FlattenWoven ==
  ASSUME NEW t, NEW n \in Nat, NEW b \in [1..n -> Seq(Token)], NEW c \in [1..n -> Seq(Token)],
         \A j \in 1..n : t[j] \in Token /\ c[j] = <<t[j]>> \o b[j]
  PROVE  FlattenSeq(c) \in Seq(Token) /\ \E p : Woven(FlattenSeq(c), t, n, b, p)
<1> DEFINE Prefix(k) == [j \in 1..k |-> c[j]]
           N == {k \in Nat : k <= n => /\ FlattenSeq(Prefix(k)) \in Seq(Token)
                                       /\ \E p : Woven(FlattenSeq(Prefix(k)), t, k, b, p)}
<1>1. \A k \in 0..n : Prefix(k) \in [1..k -> Seq(Token)]
  OBVIOUS
<1>2. 0 \in N
  <2>1. PICK e : e = Prefix(0)
    OBVIOUS
  <2>2. e \in [1..0 -> Seq(Token)]
    BY <1>1, <2>1
  <2>3. e \in Seq(Seq(Token)) /\ Len(e) = 0
    BY <2>2, Sequences
  <2>4. e = <<>>
    BY <2>3, EmptySeq
  <2>5. FlattenSeq(e) = <<>>
    BY <2>3, <2>4 DEF FlattenSeq
  <2> DEFINE p == [j \in 1 .. 0 + 1 |-> 1]
  <2>6. p \in [1 .. 0 + 1 -> Nat] /\ p[1] = 1 /\ p[0 + 1] = 1
    OBVIOUS
  <2> HIDE DEF p
  <2>7. <<>> \in Seq(Token) /\ Len(<<>>) = 0
    OBVIOUS
  <2>8. \A j \in 1..0 : FALSE
    OBVIOUS
  <2>9. Woven(<<>>, t, 0, b, p)
    BY <2>6, <2>7, <2>8 DEF Woven
  <2> QED BY <2>1, <2>5, <2>7, <2>9
<1>3. ASSUME NEW k \in Nat, k \in N PROVE k + 1 \in N
  <2> HIDE DEF Prefix
  <2>1. SUFFICES ASSUME k + 1 <= n
                 PROVE  /\ FlattenSeq(Prefix(k + 1)) \in Seq(Token)
                        /\ \E p : Woven(FlattenSeq(Prefix(k + 1)), t, k + 1, b, p)
    OBVIOUS
  <2>2. k + 1 \in 1..n /\ k <= n /\ k \in 0..n /\ k + 1 \in 0..n
    BY <2>1
  <2>3. PICK cc, dd : cc = Prefix(k) /\ dd = Prefix(k + 1)
    OBVIOUS
  <2>4. cc \in [1..k -> Seq(Token)] /\ dd \in [1 .. k + 1 -> Seq(Token)]
    <3> QED BY <1>1, <2>2, <2>3
  <2>5. (\A j \in 1..k : dd[j] = cc[j]) /\ dd[k + 1] = c[k + 1]
    BY <2>3 DEF Prefix
  <2>6. PICK x, y, d : x = FlattenSeq(cc) /\ y = FlattenSeq(dd) /\ d = c[k + 1]
    OBVIOUS
  <2>7. y = x \o d
    BY <2>4, <2>5, <2>6, FlattenGrows
  <2>8. x \in Seq(Token) /\ \E p : Woven(x, t, k, b, p)
    BY <1>3, <2>2, <2>3, <2>6
  <2> HIDE DEF N
  <2>9. PICK p : Woven(x, t, k, b, p)
    BY <2>8
  <2>10. PICK o \in Nat : o = Len(b[k + 1])
    <3>1. b[k + 1] \in Seq(Token)
      BY <2>2
    <3> QED BY <3>1, LenProperties
  <2>11. PICK w, note : w = <<t[k + 1]>> /\ note = b[k + 1]
    OBVIOUS
  <2>12. /\ w \in Seq(Token) /\ Len(w) = 1 /\ w[1] = t[k + 1]
         /\ note \in Seq(Token) /\ Len(note) = o
    <3>1. t[k + 1] \in Token /\ b[k + 1] \in Seq(Token)
      BY <2>2
    <3> QED BY <2>10, <2>11, <3>1
  <2>13. d = w \o note
    BY <2>2, <2>6, <2>11
  <2>14. /\ d \in Seq(Token) /\ Len(d) = 1 + o
         /\ \A m \in 1 .. 1 + o : d[m] = IF m <= 1 THEN w[m] ELSE note[m - 1]
    <3>1. /\ d \in Seq(Token) /\ Len(d) = Len(w) + Len(note)
          /\ \A m \in 1 .. Len(w) + Len(note) :
               d[m] = IF m <= Len(w) THEN w[m] ELSE note[m - Len(w)]
      BY <2>12, <2>13, ConcatProperties
    <3> QED BY <2>12, <3>1
  <2>15. d[1] = t[k + 1] /\ \A m \in 1..o : d[1 + m] = note[m]
    <3>1. d[1] = t[k + 1]
      BY <2>12, <2>14
    <3>2. ASSUME NEW m \in 1..o PROVE d[1 + m] = note[m]
      <4>1. 1 + m \in 1 .. 1 + o /\ ~(1 + m <= 1) /\ (1 + m) - 1 = m
        OBVIOUS
      <4> QED BY <2>14, <4>1
    <3> QED BY <3>1, <3>2
  <2>16. PICK l \in Nat : l = Len(x)
    BY <2>8, LenProperties
  <2>17. /\ y \in Seq(Token) /\ Len(y) = l + (1 + o)
         /\ \A m \in 1 .. l + (1 + o) : y[m] = IF m <= l THEN x[m] ELSE d[m - l]
    <3>1. /\ y \in Seq(Token) /\ Len(y) = Len(x) + Len(d)
          /\ \A m \in 1 .. Len(x) + Len(d) :
               y[m] = IF m <= Len(x) THEN x[m] ELSE d[m - Len(x)]
      BY <2>7, <2>8, <2>14, ConcatProperties
    <3> QED BY <2>14, <2>16, <3>1
  <2>18. (\A m \in 1..l : y[m] = x[m]) /\ \A m \in 1 .. 1 + o : y[l + m] = d[m]
    <3>1. ASSUME NEW m \in 1..l PROVE y[m] = x[m]
      <4>1. m \in 1 .. l + (1 + o) /\ m <= l
        OBVIOUS
      <4> QED BY <2>17, <4>1
    <3>2. ASSUME NEW m \in 1 .. 1 + o PROVE y[l + m] = d[m]
      <4>1. l + m \in 1 .. l + (1 + o) /\ ~(l + m <= l) /\ (l + m) - l = m
        OBVIOUS
      <4> QED BY <2>17, <4>1
    <3> QED BY <3>1, <3>2
  <2>19. /\ p \in [1 .. k + 1 -> Nat] /\ p[1] = 1 /\ l = p[k + 1] - 1
    BY <2>9, <2>16 DEF Woven
  <2>20. p[k + 1] = l + 1
    <3>1. k + 1 \in 1 .. k + 1
      OBVIOUS
    <3>2. p[k + 1] \in Nat
      BY <2>19, <3>1
    <3> QED BY <2>19, <3>2
  <2> DEFINE q == [m \in 1 .. (k + 1) + 1 |-> IF m = (k + 1) + 1 THEN (l + 1) + 1 + o ELSE p[m]]
  <2>21. q \in [1 .. (k + 1) + 1 -> Nat]
    <3>1. ASSUME NEW m \in 1 .. (k + 1) + 1, m # (k + 1) + 1 PROVE p[m] \in Nat
      <4>1. m \in 1 .. k + 1
        BY <3>1
      <4> QED BY <2>19, <4>1
    <3> QED BY <3>1
  <2>22. q[(k + 1) + 1] = (l + 1) + 1 + o /\ \A m \in 1 .. k + 1 : q[m] = p[m]
    OBVIOUS
  <2> HIDE DEF q
  <2>23. q[1] = 1 /\ Len(y) = q[(k + 1) + 1] - 1
    <3>1. 1 \in 1 .. k + 1
      OBVIOUS
    <3>2. l + (1 + o) = ((l + 1) + 1 + o) - 1
      OBVIOUS
    <3>3. q[1] = 1
      BY <2>19, <2>22, <3>1
    <3>4. Len(y) = q[(k + 1) + 1] - 1
      BY <2>17, <2>22, <3>2
    <3> QED BY <3>3, <3>4
  <2>24. ASSUME NEW j \in 1 .. k + 1
         PROVE  /\ q[j + 1] = q[j] + 1 + Len(b[j]) /\ y[q[j]] = t[j]
                /\ \A m \in 1..Len(b[j]) : y[q[j] + m] = b[j][m]
    <3>1. CASE j = k + 1
      <4>1. q[j] = l + 1 /\ q[j + 1] = (l + 1) + 1 + o /\ Len(b[j]) = o
        BY <2>10, <2>20, <2>22, <3>1
      <4>2. y[l + 1] = d[1]
        <5>1. 1 \in 1 .. 1 + o
          OBVIOUS
        <5> QED BY <2>18, <5>1
      <4>3. ASSUME NEW m \in 1..o PROVE y[(l + 1) + m] = note[m]
        <5>1. 1 + m \in 1 .. 1 + o /\ l + (1 + m) = (l + 1) + m
          OBVIOUS
        <5> QED BY <2>15, <2>18, <5>1
      <4> QED BY <2>11, <2>15, <3>1, <4>1, <4>2, <4>3
    <3>2. CASE j # k + 1
      <4>1. j \in 1..k /\ j \in 1 .. k + 1 /\ j + 1 \in 1 .. k + 1 /\ j \in 1..n
        BY <2>2, <3>2
      <4>2. /\ p[j + 1] = p[j] + 1 + Len(b[j]) /\ x[p[j]] = t[j]
            /\ \A m \in 1..Len(b[j]) : x[p[j] + m] = b[j][m]
        BY <2>9, <4>1 DEF Woven
      <4>3. q[j] = p[j] /\ q[j + 1] = p[j + 1]
        BY <2>22, <4>1
      <4>4. p[j + 1] <= l + 1 /\ p[j] \in Nat /\ 1 <= p[j] /\ p[j + 1] \in Nat
        <5> DEFINE bb == [i \in 1..k |-> b[i]]
        <5>1. bb \in [1..k -> Seq(Token)] /\ \A i \in 1..k : bb[i] = b[i]
          BY <2>2
        <5> HIDE DEF bb
        <5>2. Woven(x, t, k, bb, p)
          <6>1. ASSUME NEW i \in 1..k
                PROVE  /\ p[i + 1] = p[i] + 1 + Len(bb[i]) /\ x[p[i]] = t[i]
                       /\ \A m \in 1..Len(bb[i]) : x[p[i] + m] = bb[i][m]
            <7>1. bb[i] = b[i]
              BY <5>1
            <7> QED BY <2>9, <7>1 DEF Woven
          <6>2. /\ p \in [1 .. k + 1 -> Nat] /\ p[1] = 1 /\ Len(x) = p[k + 1] - 1
            BY <2>9 DEF Woven
          <6> QED BY <6>1, <6>2 DEF Woven
        <5>3. Ascends(p, k + 1) /\ LieIn(p, k, x)
          BY <5>1, <5>2, PlacesGrow
        <5>4. p[j + 1] + ((k + 1) - (j + 1)) <= p[k + 1]
          <6>1. k + 1 \in 1 .. k + 1 /\ j + 1 <= k + 1
            BY <4>1
          <6> QED BY <4>1, <5>3, <6>1 DEF Ascends
        <5>5. p[j + 1] \in Nat /\ p[j] \in Nat
          BY <2>19, <4>1
        <5>6. j <= p[j]
          BY <4>1, <5>3 DEF LieIn
        <5> QED BY <2>20, <4>1, <5>4, <5>5, <5>6
      <4>5. Len(b[j]) \in Nat
        BY <4>1, LenProperties
      <4>6. PICK v, z, g : v = p[j] /\ z = p[j + 1] /\ g = Len(b[j])
        OBVIOUS
      <4>7. v \in 1..l /\ \A m \in 1..g : v + m \in 1..l
        <5>1. /\ v \in Nat /\ z \in Nat /\ g \in Nat /\ 1 <= v
              /\ z = v + 1 + g /\ z <= l + 1
          BY <4>2, <4>4, <4>5, <4>6
        <5> QED BY <5>1
      <4>8. y[v] = x[v] /\ \A m \in 1..g : y[v + m] = x[v + m]
        BY <2>18, <4>7
      <4> QED BY <4>2, <4>3, <4>6, <4>8
    <3> QED BY <3>1, <3>2
  <2>25. Woven(y, t, k + 1, b, q)
    BY <2>21, <2>23, <2>24 DEF Woven
  <2> QED BY <2>3, <2>6, <2>17, <2>25
<1>4. Nat \subseteq N
  <2> HIDE DEF N
  <2> QED BY <1>2, <1>3, SetInduction
<1>5. n \in N /\ n <= n
  <2> HIDE DEF N
  <2> QED BY <1>4
<1>6. Prefix(n) = c
  OBVIOUS
<1>7. FlattenSeq(Prefix(n)) \in Seq(Token) /\ \E p : Woven(FlattenSeq(Prefix(n)), t, n, b, p)
  <2> HIDE DEF Prefix
  <2> QED BY <1>5
<1> HIDE DEF Prefix
<1> QED BY <1>6, <1>7

-----------------------------------------------------------------------------
(* Where a term ends in a woven text *)

LEMMA EndsAt ==
  ASSUME NEW text \in Seq(Token), NEW s \in Seq(Word), s # <<>>, NEW i
  PROVE  i \in EndsIn(text, s) <=> /\ i \in Len(s) .. Len(text)
                                   /\ \A m \in 1..Len(s) : text[(i - Len(s)) + m] = s[m]
<1>1. PICK l \in Nat : l = Len(s)
  BY LenProperties
<1>2. PICK n \in Nat : n = Len(text)
  BY LenProperties
<1>3. l # 0
  BY <1>1, EmptySeq
<1>4. SUFFICES ASSUME i \in l..n
               PROVE  SubSeq(text, i + 1 - l, i) = s <=>
                        \A m \in 1..l : text[(i - l) + m] = s[m]
  BY <1>1, <1>2 DEF EndsIn
<1>5. PICK f, u : f = i + 1 - l /\ u = SubSeq(text, f, i)
  OBVIOUS
<1>6. \A j \in f..i : text[j] \in Token
  <2>1. \A j \in f..i : j \in 1..n
    BY <1>4, <1>5
  <2> QED BY <1>2, <2>1, ElementOfSeq
<1>7. /\ u \in Seq(Token) /\ Len(u) = IF f <= i THEN i - f + 1 ELSE 0
      /\ \A j \in 1 .. i - f + 1 : u[j] = text[f + j - 1]
  <2>1. f \in Int /\ i \in Int
    BY <1>4, <1>5
  <2> QED BY <1>5, <1>6, <2>1, SubSeqProperties
<1>8. f <= i /\ i - f + 1 = l
  BY <1>3, <1>4, <1>5
<1>9. Len(u) = l /\ \A j \in 1..l : u[j] = text[(i - l) + j]
  <2>1. \A j \in 1..l : f + j - 1 = (i - l) + j
    BY <1>4, <1>5
  <2> QED BY <1>7, <1>8, <2>1
<1>10. s \in Seq(Token)
  BY SeqMonotonic DEF Token
<1>11. u = s <=> \A j \in 1..l : u[j] = s[j]
  BY <1>1, <1>7, <1>9, <1>10, SeqEqual
<1> QED BY <1>5, <1>9, <1>11

\* s has no word in common with a note, nor with a word that has one.
Shuns(s, t, n, b) ==
  \A j \in 1..n : b[j] # <<>> =>
    /\ t[j] \notin ToSet(s)
    /\ \E gloss \in Seq(Word) : b[j] = Bracketed(gloss) /\ ToSet(s) \cap ToSet(gloss) = {}

LEMMA WordOf ==
  ASSUME NEW s \in Seq(Word), NEW m \in 1..Len(s)
  PROVE  s[m] \in Word /\ s[m] \in ToSet(s)
<1>1. s[m] \in Word
  BY ElementOfSeq
<1>2. m \in DOMAIN s
  BY LenProperties
<1> QED BY <1>1, <1>2 DEF ToSet

\* A word of s stands in no note.
LEMMA ShunnedPlace ==
  ASSUME NEW n \in Nat, NEW b \in [1..n -> Seq(Token)], NEW x \in Seq(Token), NEW t,
         NEW p, Woven(x, t, n, b, p), NEW s \in Seq(Word), Shuns(s, t, n, b),
         NEW e \in 1..Len(x), NEW m \in 1..Len(s), x[e] = s[m]
  PROVE  \E j \in 1..n : e = p[j]
<1>1. PICK j \in 1..n : Behind(x, b, p, j, e)
  BY PlaceOf
<1>2. SUFFICES ASSUME NEW k \in 1..Len(b[j]), x[e] = b[j][k] PROVE FALSE
  BY <1>1 DEF Behind
<1>3. b[j] # <<>>
  BY <1>2, EmptySeq
<1>4. PICK gloss \in Seq(Word) : b[j] = Bracketed(gloss) /\ ToSet(s) \cap ToSet(gloss) = {}
  BY <1>3 DEF Shuns
<1>5. PICK g \in Nat : g = Len(gloss)
  BY LenProperties
<1>6. PICK i : i = Bracketed(gloss)
  OBVIOUS
<1>7. /\ Len(i) = g + 2 /\ i[1] = "[=" /\ i[g + 2] = "]"
      /\ \A h \in 1..g : i[h + 1] = gloss[h]
  BY <1>5, <1>6, BracketedIs
<1>8. s[m] \in Word /\ s[m] \in ToSet(s)
  BY WordOf
<1>9. k \in 1 .. g + 2 /\ i[k] = s[m]
  BY <1>2, <1>4, <1>6, <1>7
<1>10. k # 1 /\ k # g + 2
  BY <1>7, <1>8, <1>9, WordsAssumption
<1>11. k - 1 \in 1..g /\ (k - 1) + 1 = k
  BY <1>9, <1>10
<1>12. gloss[k - 1] = s[m]
  BY <1>7, <1>9, <1>11
<1>13. gloss[k - 1] \in ToSet(gloss)
  BY <1>5, <1>11, WordOf
<1> QED BY <1>4, <1>8, <1>12, <1>13

LEMMA WovenEnds ==
  ASSUME NEW t \in Seq(Token), NEW n, n = Len(t), NEW b \in [1..n -> Seq(Token)],
         NEW x \in Seq(Token), NEW p, Woven(x, t, n, b, p),
         NEW s \in Seq(Word), s # <<>>, Shuns(s, t, n, b)
  PROVE  EndsIn(x, s) = {p[j] : j \in EndsIn(t, s)}
<1>1. PICK l \in Nat : l = Len(s)
  BY LenProperties
<1>2. l # 0
  BY <1>1, EmptySeq
<1>3. n \in Nat
  BY LenProperties
<1>4. PICK N \in Nat : N = Len(x)
  BY LenProperties
<1>5. /\ \A i, j \in 1 .. n + 1 : i <= j => p[i] + (j - i) <= p[j]
      /\ \A j \in 1..n : p[j] \in Nat /\ j <= p[j] /\ p[j] <= N
  <2>1. Ascends(p, n + 1) /\ LieIn(p, n, x)
    BY <1>3, PlacesGrow
  <2> QED BY <1>4, <2>1 DEF Ascends, LieIn
<1>6. \A i, j \in 1..n : i < j => p[i] < p[j]
  <2>1. ASSUME NEW i \in 1..n, NEW j \in 1..n, i < j PROVE p[i] < p[j]
    <3>1. i \in 1 .. n + 1 /\ j \in 1 .. n + 1 /\ i <= j
      BY <1>3, <2>1
    <3>2. p[i] + (j - i) <= p[j]
      BY <1>5, <3>1
    <3>3. p[i] \in Nat /\ p[j] \in Nat
      BY <1>5
    <3>4. PICK y, z : y = p[i] /\ z = p[j]
      OBVIOUS
    <3>5. y < z
      BY <1>3, <2>1, <3>2, <3>3, <3>4
    <3> QED BY <3>4, <3>5
  <2> QED BY <2>1
<1>7. \A e : e \in EndsIn(x, s) <=> e \in l..N /\ \A m \in 1..l : x[(e - l) + m] = s[m]
  BY <1>1, <1>4, EndsAt
<1>8. \A j : j \in EndsIn(t, s) <=> j \in l..n /\ \A m \in 1..l : t[(j - l) + m] = s[m]
  BY <1>1, EndsAt
<1>9. ASSUME NEW j \in EndsIn(t, s) PROVE p[j] \in EndsIn(x, s)
  <2>1. j \in l..n /\ j \in 1..n /\ \A m \in 1..l : t[(j - l) + m] = s[m]
    BY <1>2, <1>8
  <2> DEFINE M == {m \in Nat : m < l => p[j - m] = p[j] - m}
  <2>2. 0 \in M
    <3>1. p[j - 0] = p[j] - 0
      <4>1. p[j] \in Nat
        BY <1>5, <2>1
      <4> QED BY <4>1, <2>1, <1>3
    <3> QED BY <3>1
  <2>3. ASSUME NEW m \in Nat, m \in M PROVE m + 1 \in M
    <3>1. SUFFICES ASSUME m + 1 < l PROVE p[j - (m + 1)] = p[j] - (m + 1)
      OBVIOUS
    <3>2. PICK k \in 1..n : k = j - (m + 1)
      BY <1>3, <2>1, <3>1
    <3>3. j - m = k + 1 /\ m < l /\ l - (m + 1) \in 1..l /\ k = (j - l) + (l - (m + 1))
      BY <1>3, <2>1, <3>1, <3>2
    <3>4. p[k + 1] = p[j] - m
      BY <2>3, <3>3
    <3> HIDE DEF M
    <3>5. t[k] = s[l - (m + 1)]
      BY <2>1, <3>3
    <3>6. t[k] \in ToSet(s)
      BY <1>1, <3>3, <3>5, WordOf
    <3>7. b[k] = <<>>
      BY <3>6 DEF Shuns
    <3>8. p[k + 1] = p[k] + 1 + Len(b[k])
      BY DEF Woven
    <3>9. Len(b[k]) = 0
      BY <3>7, EmptySeq
    <3>10. p[k] \in Nat /\ p[j] \in Nat
      BY <1>5, <2>1
    <3>11. PICK y \in Nat : y = p[k]
      BY <3>10
    <3>12. PICK z \in Nat : z = p[j]
      BY <3>10
    <3>13. y + 1 = z - m
      BY <3>4, <3>8, <3>9, <3>11, <3>12
    <3>14. y = z - (m + 1)
      BY <3>13
    <3> QED BY <3>2, <3>11, <3>12, <3>14
  <2>4. Nat \subseteq M
    <3> HIDE DEF M
    <3> QED BY <2>2, <2>3, SetInduction
  <2>5. PICK e \in Nat : e = p[j] /\ j <= e /\ e <= N
    BY <1>5, <2>1
  <2>6. ASSUME NEW m \in 1..l PROVE x[(e - l) + m] = s[m]
    <3>1. l - m \in Nat /\ l - m < l /\ j - (l - m) = (j - l) + m
          /\ (j - l) + m \in 1..n /\ e - (l - m) = (e - l) + m
      BY <1>3, <2>1, <2>5
    <3>2. p[j - (l - m)] = e - (l - m)
      <4>1. l - m \in M
        <5> HIDE DEF M
        <5> QED BY <2>4, <3>1
      <4> QED BY <2>5, <3>1, <4>1
    <3>3. x[p[(j - l) + m]] = t[(j - l) + m]
      BY <3>1 DEF Woven
    <3> QED BY <2>1, <3>1, <3>2, <3>3
  <2>7. e \in l..N
    BY <2>1, <2>5
  <2> QED BY <1>7, <2>5, <2>6, <2>7
<1>10. ASSUME NEW e \in EndsIn(x, s) PROVE \E j \in EndsIn(t, s) : e = p[j]
  <2>1. e \in l..N /\ \A m \in 1..l : x[(e - l) + m] = s[m]
    BY <1>7
  <2>2. ASSUME NEW m \in 1..l PROVE \E j \in 1..n : (e - l) + m = p[j]
    <3>1. PICK f : f = (e - l) + m
      OBVIOUS
    <3>2. f \in 1..Len(x)
      BY <1>4, <2>1, <3>1
    <3>3. x[f] = s[m] /\ m \in 1..Len(s)
      BY <1>1, <2>1, <3>1
    <3>4. \E j \in 1..n : f = p[j]
      BY <1>3, <3>2, <3>3, ShunnedPlace
    <3> QED BY <3>1, <3>4
  <2>3. PICK j \in 1..n : (e - l) + 1 = p[j]
    <3>1. 1 \in 1..l
      BY <1>2
    <3> QED BY <2>2, <3>1
  <2> DEFINE M == {m \in Nat : m < l => j + m \in 1..n /\ p[j + m] = (e - l) + (m + 1)}
  <2>4. 0 \in M
    BY <1>3, <2>3
  <2>5. ASSUME NEW m \in Nat, m \in M PROVE m + 1 \in M
    <3>1. SUFFICES ASSUME m + 1 < l
                   PROVE  j + (m + 1) \in 1..n /\ p[j + (m + 1)] = (e - l) + ((m + 1) + 1)
      OBVIOUS
    <3>2. PICK k \in 1..n : k = j + m /\ p[k] = (e - l) + (m + 1)
      BY <2>5, <3>1
    <3> HIDE DEF M
    <3>3. (m + 1) + 1 \in 1..l
      BY <3>1
    <3>4. PICK i \in 1..n : (e - l) + ((m + 1) + 1) = p[i]
      BY <2>2, <3>3
    <3>5. p[i] \in Nat /\ p[k] \in Nat /\ e \in Int
      BY <1>5, <2>1
    <3>6. PICK y, z : y = p[k] /\ z = p[i]
      OBVIOUS
    <3>7. z = y + 1
      BY <3>2, <3>4, <3>5, <3>6
    <3>8. ~(i < k) /\ i # k
      <4>1. i < k => z < y
        BY <1>6, <3>6
      <4>2. i = k => z = y
        BY <3>6
      <4>3. y \in Nat /\ z \in Nat
        BY <3>5, <3>6
      <4>4. ~(z < y) /\ z # y
        BY <3>7, <4>3
      <4> QED BY <4>1, <4>2, <4>4
    <3>9. k + 1 \in 1..n /\ k + 1 <= i
      BY <1>3, <3>8
    <3>10. ~(k + 1 < i)
      <4>1. k + 1 < i => p[k] < p[k + 1] /\ p[k + 1] < p[i]
        BY <1>6, <3>9
      <4>2. p[k + 1] \in Nat
        BY <1>5, <3>9
      <4>3. PICK w : w = p[k + 1]
        OBVIOUS
      <4>4. ~(y < w /\ w < z)
        BY <3>5, <3>6, <3>7, <4>2, <4>3
      <4> QED BY <3>6, <4>1, <4>3, <4>4
    <3>11. i = k + 1 /\ i = j + (m + 1)
      BY <1>3, <3>2, <3>9, <3>10
    <3> QED BY <3>4, <3>9, <3>11
  <2>6. Nat \subseteq M
    <3> HIDE DEF M
    <3> QED BY <2>4, <2>5, SetInduction
  <2>7. ASSUME NEW m \in Nat, m < l PROVE j + m \in 1..n /\ p[j + m] = (e - l) + (m + 1)
    <3>1. m \in M
      <4> HIDE DEF M
      <4> QED BY <2>6
    <3> QED BY <2>7, <3>1
  <2> HIDE DEF M
  <2>8. PICK i : i = j + (l - 1)
    OBVIOUS
  <2>9. i \in 1..n /\ p[i] = e
    <3>1. l - 1 \in Nat /\ l - 1 < l /\ (e - l) + ((l - 1) + 1) = e
      BY <1>2, <2>1
    <3> QED BY <2>7, <2>8, <3>1
  <2>10. ASSUME NEW m \in 1..l PROVE t[(i - l) + m] = s[m]
    <3>1. m - 1 \in Nat /\ m - 1 < l /\ (i - l) + m = j + (m - 1) /\ (m - 1) + 1 = m
      BY <2>8
    <3>2. j + (m - 1) \in 1..n /\ p[j + (m - 1)] = (e - l) + ((m - 1) + 1)
      BY <2>7, <3>1
    <3>3. x[p[j + (m - 1)]] = t[j + (m - 1)]
      BY <3>2 DEF Woven
    <3> QED BY <2>1, <3>1, <3>2, <3>3
  <2>11. i \in l..n
    BY <1>2, <1>3, <2>8, <2>9
  <2> QED BY <1>8, <2>9, <2>10, <2>11
<1> QED BY <1>9, <1>10

\* Where a term is first is first where notes are woven in.
LEMMA WovenFirst ==
  ASSUME NEW t \in Seq(Token), NEW n, n = Len(t), NEW b \in [1..n -> Seq(Token)],
         NEW x \in Seq(Token), NEW p, Woven(x, t, n, b, p),
         NEW s \in Seq(Word), s # <<>>, Shuns(s, t, n, b)
  PROVE  /\ EndsIn(x, s) = {} <=> EndsIn(t, s) = {}
         /\ EndsIn(t, s) # {} => /\ Min(EndsIn(t, s)) \in 1..n
                                 /\ Min(EndsIn(t, s)) \in EndsIn(t, s)
                                 /\ Min(EndsIn(x, s)) = p[Min(EndsIn(t, s))]
<1>1. PICK P, Q : P = EndsIn(t, s) /\ Q = EndsIn(x, s)
  OBVIOUS
<1>2. Q = {p[j] : j \in P}
  BY <1>1, WovenEnds
<1>3. n \in Nat /\ Len(x) \in Nat /\ Len(s) \in Nat /\ Len(s) # 0
  BY LenProperties, EmptySeq
<1>4. P \in SUBSET (1..n) /\ P \in SUBSET Nat
  <2>1. \A j \in P : j \in Len(s)..n
    BY <1>1 DEF EndsIn
  <2> QED BY <1>3, <2>1
<1>5. Q = {} <=> P = {}
  BY <1>2
<1>6. ASSUME P # {} PROVE Min(P) \in 1..n /\ Min(P) \in P /\ Min(Q) = p[Min(P)]
  <2>1. PICK j : j = Min(P)
    OBVIOUS
  <2>2. j \in P /\ j \in 1..n /\ \A i \in P : j <= i
    BY <1>4, <1>6, <2>1, MinIs
  <2>3. /\ \A i, k \in 1 .. n + 1 : i <= k => p[i] + (k - i) <= p[k]
        /\ \A i \in 1..n : p[i] \in Nat
    <3>1. Ascends(p, n + 1) /\ LieIn(p, n, x)
      BY <1>3, PlacesGrow
    <3> QED BY <3>1 DEF Ascends, LieIn
  <2>4. ASSUME NEW e \in Q PROVE p[j] <= e
    <3>1. PICK i \in P : e = p[i]
      BY <1>2
    <3>2. i \in 1..n /\ i \in 1 .. n + 1 /\ j \in 1 .. n + 1 /\ j <= i
      BY <1>3, <1>4, <2>2
    <3>3. p[j] + (i - j) <= p[i] /\ p[i] \in Nat /\ p[j] \in Nat
      BY <2>2, <2>3, <3>2
    <3>4. PICK y, z : y = p[j] /\ z = p[i]
      OBVIOUS
    <3>5. y <= z
      BY <3>2, <3>3, <3>4
    <3> QED BY <3>1, <3>4, <3>5
  <2>5. p[j] \in Q /\ Q \in SUBSET Nat /\ Q # {}
    BY <1>2, <1>4, <2>2, <2>3
  <2>6. Min(Q) \in Q /\ \A e \in Q : Min(Q) <= e
    BY <2>5, MinIs
  <2>7. PICK y, z : y = Min(Q) /\ z = p[j]
    OBVIOUS
  <2>8. y \in Nat /\ z \in Nat /\ y <= z /\ z <= y
    BY <2>4, <2>5, <2>6, <2>7
  <2>9. y = z
    BY <2>8
  <2> QED BY <2>1, <2>2, <2>7, <2>9
<1> QED BY <1>1, <1>5, <1>6

-----------------------------------------------------------------------------
(* Terms that are apart are glossed where they first occur *)

\* The terms of A that end for the first time at word j.
EndingFirst(t, A, j) == {s \in A : EndsIn(t, s) # {} /\ j = Min(EndsIn(t, s))}

NoteOn(here, terms) ==
  IF here = {} THEN <<>> ELSE Bracketed(GlossOf(terms, CHOOSE s \in here : TRUE))

Notes(t, terms, A) == [j \in 1..Len(t) |-> NoteOn(EndingFirst(t, A, j), terms)]

LEMMA EndsOfTerm ==
  ASSUME NEW terms \in Lexicons, NEW t \in Seq(Token), NEW s \in Surfaces(terms), EndsIn(t, s) # {}
  PROVE  /\ Min(EndsIn(t, s)) \in 1..Len(t) /\ Min(EndsIn(t, s)) \in EndsIn(t, s)
         /\ \A j \in EndsIn(t, s) : j \in 1..Len(t) /\ t[j] \in ToSet(s)
<1>1. s \in Seq(Word) /\ s # <<>>
  BY RowsIs
<1>2. PICK l \in Nat : l = Len(s) /\ l # 0
  BY <1>1, LenProperties, EmptySeq
<1>3. PICK n \in Nat : n = Len(t)
  BY LenProperties
<1>4. ASSUME NEW j \in EndsIn(t, s) PROVE j \in 1..n /\ t[j] \in ToSet(s)
  <2>1. j \in l..n /\ \A m \in 1..l : t[(j - l) + m] = s[m]
    BY <1>1, <1>2, <1>3, EndsAt
  <2>2. l \in 1..l /\ (j - l) + l = j /\ j \in 1..n
    BY <1>2, <2>1
  <2>3. t[j] = s[l]
    BY <2>1, <2>2
  <2> QED BY <1>1, <1>2, <2>2, <2>3, WordOf
<1>5. PICK ends : ends = EndsIn(t, s)
  OBVIOUS
<1>6. ends \in SUBSET Nat /\ ends # {}
  BY <1>4, <1>5
<1>7. Min(ends) \in ends
  BY <1>6, MinIs
<1> QED BY <1>3, <1>4, <1>5, <1>7

LEMMA NotesAre ==
  ASSUME NEW terms \in Lexicons, NEW t \in Seq(Token), NEW A \in SUBSET Surfaces(terms)
  PROVE  /\ Notes(t, terms, A) \in [1..Len(t) -> Seq(Token)]
         /\ \A j \in 1..Len(t) : Notes(t, terms, A)[j] # <<>> =>
              \E s \in A : /\ Notes(t, terms, A)[j] = Bracketed(GlossOf(terms, s))
                           /\ j \in EndsIn(t, s)
<1>1. ASSUME NEW j \in 1..Len(t), EndingFirst(t, A, j) # {}
      PROVE  LET s == CHOOSE s \in EndingFirst(t, A, j) : TRUE IN
             /\ s \in A /\ j \in EndsIn(t, s) /\ Bracketed(GlossOf(terms, s)) \in Seq(Token)
  <2>1. PICK s : s = CHOOSE x \in EndingFirst(t, A, j) : TRUE
    OBVIOUS
  <2>2. s \in EndingFirst(t, A, j)
    BY <1>1, <2>1
  <2>3. s \in A /\ s \in Surfaces(terms) /\ EndsIn(t, s) # {} /\ j = Min(EndsIn(t, s))
    BY <2>2 DEF EndingFirst
  <2>4. j \in EndsIn(t, s)
    BY <2>3, EndsOfTerm
  <2>5. Bracketed(GlossOf(terms, s)) \in Seq(Token)
    BY <2>3, RowsIs, BracketedIs
  <2> QED BY <2>1, <2>3, <2>4, <2>5
<1>2. <<>> \in Seq(Token)
  OBVIOUS
<1>3. Notes(t, terms, A) \in [1..Len(t) -> Seq(Token)]
  <2>1. ASSUME NEW j \in 1..Len(t) PROVE NoteOn(EndingFirst(t, A, j), terms) \in Seq(Token)
    BY <1>1, <1>2 DEF NoteOn
  <2> QED BY <2>1 DEF Notes
<1>4. ASSUME NEW j \in 1..Len(t), Notes(t, terms, A)[j] # <<>>
      PROVE  \E s \in A : /\ Notes(t, terms, A)[j] = Bracketed(GlossOf(terms, s))
                          /\ j \in EndsIn(t, s)
  <2>1. EndingFirst(t, A, j) # {}
    BY <1>4 DEF Notes, NoteOn
  <2>2. Notes(t, terms, A)[j] =
          Bracketed(GlossOf(terms, CHOOSE s \in EndingFirst(t, A, j) : TRUE))
    BY <2>1 DEF Notes, NoteOn
  <2> QED BY <1>1, <2>1, <2>2
<1> QED BY <1>3, <1>4

\* A term that has no note yet shuns all of them.
LEMMA NotesShunned ==
  ASSUME NEW terms \in Lexicons, AreApart(terms), NEW t \in Seq(Token),
         NEW A \in SUBSET Surfaces(terms), NEW s \in Surfaces(terms), s \notin A
  PROVE  Shuns(s, t, Len(t), Notes(t, terms, A))
<1>1. SUFFICES ASSUME NEW j \in 1..Len(t), Notes(t, terms, A)[j] # <<>>
               PROVE  /\ t[j] \notin ToSet(s)
                      /\ \E gloss \in Seq(Word) : /\ Notes(t, terms, A)[j] = Bracketed(gloss)
                                                  /\ ToSet(s) \cap ToSet(gloss) = {}
  BY DEF Shuns
<1>2. PICK a \in A : Notes(t, terms, A)[j] = Bracketed(GlossOf(terms, a)) /\ j \in EndsIn(t, a)
  BY <1>1, NotesAre
<1>3. a \in Surfaces(terms) /\ a # s /\ EndsIn(t, a) # {}
  BY <1>2
<1>4. t[j] \in ToSet(a)
  BY <1>2, <1>3, EndsOfTerm
<1>5. ToSet(s) \cap (ToSet(a) \cup ToSet(GlossOf(terms, a))) = {}
  BY <1>3 DEF AreApart
<1>6. GlossOf(terms, a) \in Seq(Word)
  BY <1>3, RowsIs
<1> QED BY <1>2, <1>4, <1>5, <1>6

LEMMA NotesGrow ==
  ASSUME NEW terms \in Lexicons, AreApart(terms), NEW t \in Seq(Token),
         NEW A \in SUBSET Surfaces(terms), NEW s \in Surfaces(terms), s \notin A,
         EndsIn(t, s) # {}, NEW f, f = Min(EndsIn(t, s))
  PROVE  /\ Notes(t, terms, A)[f] = <<>>
         /\ Notes(t, terms, A \cup {s}) =
              [Notes(t, terms, A) EXCEPT ![f] = Bracketed(GlossOf(terms, s))]
<1>1. f \in 1..Len(t) /\ f \in EndsIn(t, s) /\ t[f] \in ToSet(s)
  BY EndsOfTerm
<1>2. EndingFirst(t, A, f) = {}
  <2>1. SUFFICES ASSUME NEW a \in A, EndsIn(t, a) # {}, f = Min(EndsIn(t, a)) PROVE FALSE
    BY DEF EndingFirst
  <2>2. a \in Surfaces(terms) /\ a # s
    OBVIOUS
  <2>3. t[f] \in ToSet(a)
    BY <2>1, <2>2, EndsOfTerm
  <2> QED BY <1>1, <2>2, <2>3 DEF AreApart
<1>3. EndingFirst(t, A \cup {s}, f) = {s}
  BY <1>2 DEF EndingFirst
<1>4. \A j \in 1..Len(t) : j # f => EndingFirst(t, A \cup {s}, j) = EndingFirst(t, A, j)
  BY DEF EndingFirst
<1>5. Notes(t, terms, A)[f] = <<>>
  BY <1>1, <1>2 DEF Notes, NoteOn
<1>6. Notes(t, terms, A \cup {s})[f] = Bracketed(GlossOf(terms, s))
  <2>1. (CHOOSE x \in EndingFirst(t, A \cup {s}, f) : TRUE) = s
    BY <1>3
  <2>2. EndingFirst(t, A \cup {s}, f) # {}
    BY <1>3
  <2> QED BY <1>1, <2>1, <2>2 DEF Notes, NoteOn
<1>7. ASSUME NEW j \in 1..Len(t), j # f
      PROVE  Notes(t, terms, A \cup {s})[j] = Notes(t, terms, A)[j]
  BY <1>4, <1>7 DEF Notes
<1>8. PICK d, e : d = Notes(t, terms, A \cup {s}) /\ e = Notes(t, terms, A)
  OBVIOUS
<1>9. d \in [1..Len(t) -> Seq(Token)] /\ e \in [1..Len(t) -> Seq(Token)]
  <2>1. A \cup {s} \in SUBSET Surfaces(terms)
    OBVIOUS
  <2> QED BY <1>8, <2>1, NotesAre
<1>10. d = [e EXCEPT ![f] = Bracketed(GlossOf(terms, s))]
  BY <1>1, <1>6, <1>7, <1>8, <1>9
<1> QED BY <1>5, <1>8, <1>10

\* The terms that are new in a text.
News(terms, seen, t) == {s \in Surfaces(terms) : IsNew(terms, seen, t, s)}

LEMMA SplicesWeave ==
  ASSUME NEW terms \in Lexicons, AreApart(terms), NEW t \in Seq(Token),
         NEW seen \in SUBSET Surfaces(terms)
  PROVE  LET done == SpliceGlosses(t, terms, seen)
             A == News(terms, seen, t)
         IN  /\ done.seen = seen \cup A
             /\ \E p : Woven(done.text, t, Len(t), Notes(t, terms, A), p)
<1>1. PICK n \in Nat : n = Cardinality(Surfaces(terms))
  BY SurfacesAreFinite
<1>2. PICK ss : ss = InTurn(terms)
  OBVIOUS
<1>3. PICK r : /\ Splices(r, t, terms, seen, ss, n)
               /\ SpliceGlosses(t, terms, seen) = r[n]
  BY <1>1, <1>2, SplicesRun
<1>4. /\ \A i \in 1..n : ss[i] \in Surfaces(terms)
      /\ \A i, j \in 1..n : i # j => ss[i] # ss[j]
      /\ \A s \in Surfaces(terms) : \E i \in 1..n : ss[i] = s
  BY <1>1, <1>2, InTurnIs
<1> DEFINE B(k) == {s \in News(terms, seen, t) : \E i \in 1..k : ss[i] = s}
           Good(k) == /\ r[k].seen = seen \cup B(k)
                      /\ \E p : Woven(r[k].text, t, Len(t), Notes(t, terms, B(k)), p)
           N == {k \in Nat : k <= n => Good(k)}
<1>5. \A k \in Nat : B(k) \in SUBSET Surfaces(terms)
  BY DEF News
<1>6. 0 \in N
  <2>1. B(0) = {}
    OBVIOUS
  <2>2. r[0].text = t /\ r[0].seen = seen
    BY <1>3 DEF Splices
  <2>3. \A j \in 1..Len(t) : Notes(t, terms, {})[j] = <<>>
    BY DEF Notes, NoteOn, EndingFirst
  <2>4. Notes(t, terms, {}) \in [1..Len(t) -> Seq(Token)]
    BY NotesAre
  <2>5. \E p : Woven(t, t, Len(t), Notes(t, terms, {}), p)
    BY <2>3, <2>4, WovenPlain
  <2> HIDE DEF B
  <2> QED BY <2>1, <2>2, <2>5
<1>7. ASSUME NEW k \in Nat, k \in N PROVE k + 1 \in N
  <2> HIDE DEF Good
  <2>1. SUFFICES ASSUME k + 1 <= n PROVE Good(k + 1)
    OBVIOUS
  <2>2. k + 1 \in 1..n /\ (k + 1) - 1 = k /\ k <= n /\ k \in 0..n
    BY <2>1
  <2>3. Good(k)
    BY <1>7, <2>2
  <2> HIDE DEF N
  <2>4. PICK done, s : done = r[k] /\ s = ss[k + 1]
    OBVIOUS
  <2>5. PICK C : C = B(k)
    OBVIOUS
  <2>6. done \in Glossed(terms) /\ s \in Surfaces(terms) /\ C \in SUBSET Surfaces(terms)
    <3> HIDE DEF B
    <3> QED BY <1>3, <1>4, <1>5, <2>2, <2>4, <2>5 DEF Splices
  <2>7. r[k + 1] = Splice(done, s, GlossOf(terms, s))
    BY <1>3, <2>2, <2>4 DEF Splices
  <2>8. s \notin C
    <3>1. \A i \in 1..k : i \in 1..n /\ i # k + 1
      BY <2>2
    <3> QED BY <1>4, <2>2, <2>4, <2>5, <3>1
  <2>9. B(k + 1) = IF s \in News(terms, seen, t) THEN C \cup {s} ELSE C
    <3>1. ASSUME NEW x PROVE (\E i \in 1 .. k + 1 : ss[i] = x) <=> (\E i \in 1..k : ss[i] = x) \/ x = s
      <4>1. \A i \in 1 .. k + 1 : i \in 1..k \/ i = k + 1
        OBVIOUS
      <4>2. k + 1 \in 1 .. k + 1 /\ \A i \in 1..k : i \in 1 .. k + 1
        OBVIOUS
      <4> QED BY <2>4, <4>1, <4>2
    <3> QED BY <2>5, <3>1
  <2>10. PICK b : b = Notes(t, terms, C)
    OBVIOUS
  <2>11. done.seen = seen \cup C /\ \E p : Woven(done.text, t, Len(t), b, p)
    <3> HIDE DEF B
    <3> QED BY <2>3, <2>4, <2>5, <2>10 DEF Good
  <2>12. PICK p : Woven(done.text, t, Len(t), b, p)
    BY <2>11
  <2>13. b \in [1..Len(t) -> Seq(Token)] /\ Shuns(s, t, Len(t), b)
    BY <2>6, <2>8, <2>10, NotesAre, NotesShunned
  <2>14. s \in Seq(Word) /\ s # <<>> /\ done.text \in Seq(Token)
    BY <2>6, RowsIs DEF Glossed
  <2>15. /\ EndsIn(done.text, s) = {} <=> EndsIn(t, s) = {}
         /\ EndsIn(t, s) # {} => /\ Min(EndsIn(t, s)) \in 1..Len(t)
                                 /\ Min(EndsIn(done.text, s)) = p[Min(EndsIn(t, s))]
    BY <2>12, <2>13, <2>14, WovenFirst
  <2>16. IsNew(terms, done.seen, done.text, s) <=> s \in News(terms, seen, t)
    BY <2>6, <2>8, <2>11, <2>15 DEF IsNew, News
  <2> HIDE DEF B
  <2>17. CASE s \in News(terms, seen, t)
    <3>1. r[k + 1] = SpliceIn(terms, done, s)
      BY <2>6, <2>7, <2>16, <2>17, SpliceIs
    <3>2. EndsIn(t, s) # {}
      BY <2>17 DEF News, IsNew
    <3>3. PICK f : f = Min(EndsIn(t, s))
      OBVIOUS
    <3>4. f \in 1..Len(t) /\ Min(EndsIn(done.text, s)) = p[f]
      BY <2>15, <3>2, <3>3
    <3>5. PICK i : i = Bracketed(GlossOf(terms, s))
      OBVIOUS
    <3>6. i \in Seq(Token)
      BY <2>6, <3>5, RowsIs, BracketedIs
    <3>7. b[f] = <<>> /\ Notes(t, terms, C \cup {s}) = [b EXCEPT ![f] = i]
      BY <2>6, <2>8, <2>10, <3>2, <3>3, <3>5, NotesGrow
    <3>8. \E q : Woven(Inserted(done.text, p[f], i), t, Len(t), [b EXCEPT ![f] = i], q)
      <4>1. Len(t) \in Nat
        BY LenProperties
      <4> QED BY <2>12, <2>13, <2>14, <3>4, <3>6, <3>7, <4>1, WovenInsert
    <3>9. r[k + 1].text = Inserted(done.text, p[f], i) /\ r[k + 1].seen = done.seen \cup {s}
      BY <3>1, <3>4, <3>5 DEF SpliceIn
    <3>10. B(k + 1) = C \cup {s}
      BY <2>9, <2>17
    <3> QED BY <2>11, <3>7, <3>8, <3>9, <3>10 DEF Good
  <2>18. CASE s \notin News(terms, seen, t)
    <3>1. r[k + 1] = done
      BY <2>6, <2>7, <2>16, <2>18, SpliceIs
    <3>2. B(k + 1) = C
      BY <2>9, <2>18
    <3> QED BY <2>10, <2>11, <3>1, <3>2 DEF Good
  <2> QED BY <2>17, <2>18
<1>8. Nat \subseteq N
  <2> HIDE DEF N
  <2> QED BY <1>6, <1>7, SetInduction
<1>9. n \in N /\ n <= n
  <2> HIDE DEF N
  <2> QED BY <1>8
<1>10. Good(n)
  <2> HIDE DEF Good
  <2> QED BY <1>9
<1>11. B(n) = News(terms, seen, t)
  BY <1>4 DEF News
<1> HIDE DEF B
<1> QED BY <1>3, <1>10, <1>11

\* The last part of Annotates: where the terms are apart, they are glossed where they
\* first occur.
LEMMA GlossedWhereFirst ==
  ASSUME NEW terms \in Lexicons, AreApart(terms), NEW nodes \in SUBSET Passages,
         IsFiniteSet(nodes)
  PROVE  Parts(nodes, terms) = Annotated(Plain(nodes), terms)
<1>1. PICK n \in Nat : n = Cardinality(nodes)
  BY FS_CardinalityType
<1>2. PICK text : text = Parts(nodes, terms)
  OBVIOUS
<1>3. PICK q : AssembledAs(text, nodes, terms, q, n)
  BY <1>1, <1>2, PartsAre
<1>4. PICK plain : plain = Plain(nodes)
  OBVIOUS
<1>5. /\ DOMAIN plain = 1..n
      /\ \A i \in 1..n : plain[i] \in Seq(Token)
  BY <1>1, <1>4, PlainIs DEF Plain
<1> DEFINE Noted == {s \in Surfaces(terms) : GlossOf(terms, s) # <<>>}
           Shown(k) == {s \in Noted : \E i \in 1..k : EndsIn(plain[i], s) # {}}
<1>6. ASSUME NEW k \in 1..n
      PROVE  /\ q[k - 1] \in SUBSET Surfaces(terms)
             /\ q[k] = q[k - 1] \cup News(terms, q[k - 1], plain[k])
             /\ \E p : Woven(text[k], plain[k], Len(plain[k]),
                             Notes(plain[k], terms, News(terms, q[k - 1], plain[k])), p)
  <2>1. PICK t, seen : t = plain[k] /\ seen = q[k - 1]
    OBVIOUS
  <2>2. t \in Seq(Token)
    BY <1>5, <2>1
  <2>3. seen \in SUBSET Surfaces(terms)
    <3>1. k - 1 \in 0..n
      OBVIOUS
    <3> QED BY <1>3, <2>1, <3>1 DEF AssembledAs
  <2>4. /\ q[k] = SpliceGlosses(t, terms, seen).seen
        /\ text[k] = SpliceGlosses(t, terms, seen).text
    BY <1>3, <1>4, <2>1 DEF AssembledAs
  <2> QED BY <2>1, <2>2, <2>3, <2>4, SplicesWeave
<1> DEFINE N == {k \in Nat : k <= n => q[k] = Shown(k)}
<1>7. 0 \in N
  <2>1. q[0] = {}
    BY <1>3 DEF AssembledAs
  <2>2. Shown(0) = {}
    OBVIOUS
  <2> HIDE DEF Shown
  <2> QED BY <2>1, <2>2
<1>8. ASSUME NEW k \in Nat, k \in N PROVE k + 1 \in N
  <2> HIDE DEF Shown
  <2>1. SUFFICES ASSUME k + 1 <= n PROVE q[k + 1] = Shown(k + 1)
    OBVIOUS
  <2>2. k + 1 \in 1..n /\ (k + 1) - 1 = k /\ k <= n
    BY <2>1
  <2>3. q[k] = Shown(k)
    BY <1>8, <2>2
  <2> HIDE DEF N
  <2>4. PICK t : t = plain[k + 1]
    OBVIOUS
  <2>5. q[k + 1] = Shown(k) \cup News(terms, Shown(k), t)
    BY <1>6, <2>2, <2>3, <2>4
  <2>6. \A s : (\E i \in 1 .. k + 1 : EndsIn(plain[i], s) # {})
                 <=> (\E i \in 1..k : EndsIn(plain[i], s) # {}) \/ EndsIn(t, s) # {}
    <3>1. \A i \in 1 .. k + 1 : i \in 1..k \/ i = k + 1
      OBVIOUS
    <3>2. k + 1 \in 1 .. k + 1 /\ \A i \in 1..k : i \in 1 .. k + 1
      OBVIOUS
    <3> QED BY <2>4, <3>1, <3>2
  <2>7. Shown(k + 1) = Shown(k) \cup News(terms, Shown(k), t)
    BY <2>6 DEF Shown, News, IsNew
  <2> QED BY <2>5, <2>7
<1>9. Nat \subseteq N
  <2> HIDE DEF N
  <2> QED BY <1>7, <1>8, SetInduction
<1>10. \A k \in 0..n : q[k] = Shown(k)
  <2> HIDE DEF Shown
  <2> QED BY <1>9
<1>11. PICK a : a = Annotated(plain, terms)
  OBVIOUS
<1>12. ASSUME NEW k \in 1..n PROVE a[k] \in Seq(Token) /\ a[k] = text[k]
  <2>1. PICK t : t = plain[k]
    OBVIOUS
  <2>2. t \in Seq(Token)
    BY <1>5, <2>1
  <2>3. PICK m \in Nat : m = Len(t) /\ DOMAIN t = 1..m
    BY <2>2, LenProperties
  <2>4. PICK A : A = News(terms, q[k - 1], t)
    OBVIOUS
  <2>5. A \in SUBSET Surfaces(terms)
    BY <2>4 DEF News
  <2>6. PICK b : b = Notes(t, terms, A)
    OBVIOUS
  <2>7. b \in [1..m -> Seq(Token)]
    BY <2>2, <2>3, <2>5, <2>6, NotesAre
  <2>8. \E p : Woven(text[k], t, m, b, p)
    BY <1>6, <2>1, <2>3, <2>4, <2>6
  <2> DEFINE Here(j) == {s \in FirstEndingAt(plain, terms, k, j) : GlossOf(terms, s) # <<>>}
             c == [j \in DOMAIN plain[k] |->
                     IF Here(j) = {} THEN <<plain[k][j]>>
                     ELSE <<plain[k][j]>>
                            \o Bracketed(GlossOf(terms, CHOOSE s \in Here(j) : TRUE))]
  <2>9. a[k] = FlattenSeq(c)
    <3>1. k \in DOMAIN plain
      BY <1>5
    <3> QED BY <1>11, <3>1 DEF Annotated
  <2>10. \A s \in Surfaces(terms) : s \in A <=>
           /\ GlossOf(terms, s) # <<>> /\ EndsIn(t, s) # {}
           /\ \A i \in 1 .. k - 1 : EndsIn(plain[i], s) = {}
    <3>1. k - 1 \in 0..n
      OBVIOUS
    <3>2. q[k - 1] = Shown(k - 1)
      <4> HIDE DEF Shown
      <4> QED BY <1>10, <3>1
    <3> QED BY <2>4, <3>2 DEF News, IsNew
  <2>11. \A j \in 1..m : Here(j) = EndingFirst(t, A, j)
    BY <2>1, <2>5, <2>10 DEF FirstEndingAt, EndingFirst
  <2>12. ASSUME NEW j \in 1..m
         PROVE  t[j] \in Token /\ c[j] = <<t[j]>> \o b[j]
    <3>1. t[j] \in Token
      BY <2>2, <2>3, ElementOfSeq
    <3>2. PICK F : F = EndingFirst(t, A, j)
      OBVIOUS
    <3>3. c[j] = IF F = {} THEN <<t[j]>> ELSE <<t[j]>> \o NoteOn(F, terms)
      <4>1. Here(j) = F
        BY <2>11, <3>2
      <4>2. j \in DOMAIN plain[k] /\ plain[k] = t
        BY <2>1, <2>3
      <4> HIDE DEF Here
      <4>3. c[j] = IF Here(j) = {} THEN <<plain[k][j]>>
                   ELSE <<plain[k][j]>> \o NoteOn(Here(j), terms)
        BY <4>2 DEF NoteOn
      <4> HIDE DEF c
      <4> QED BY <4>1, <4>2, <4>3
    <3>4. b[j] = NoteOn(F, terms) /\ (F = {} => NoteOn(F, terms) = <<>>)
      BY <2>3, <2>6, <3>2 DEF Notes, NoteOn
    <3>5. <<t[j]>> \o <<>> = <<t[j]>>
      BY <3>1, ConcatEmptySeq
    <3> HIDE DEF c, Here
    <3> QED BY <3>1, <3>3, <3>4, <3>5
  <2>13. c \in [1..m -> Seq(Token)]
    <3>1. ASSUME NEW j \in 1..m PROVE c[j] \in Seq(Token)
      <4> HIDE DEF c, Here
      <4>1. b[j] \in Seq(Token) /\ <<t[j]>> \in Seq(Token)
        <5>1. PICK w \in Token : w = t[j]
          BY <2>12
        <5>2. <<w>> \in Seq(Token)
          OBVIOUS
        <5>3. b[j] \in Seq(Token)
          BY <2>7
        <5> QED BY <5>1, <5>2, <5>3
      <4>2. <<t[j]>> \o b[j] \in Seq(Token)
        BY <4>1, ConcatProperties
      <4> QED BY <2>12, <4>2
    <3>2. c = [j \in 1..m |-> c[j]]
      <4>1. DOMAIN plain[k] = 1..m
        BY <2>1, <2>3
      <4>2. c = [j \in DOMAIN plain[k] |-> c[j]]
        OBVIOUS
      <4> HIDE DEF c
      <4> QED BY <4>1, <4>2
    <3> HIDE DEF c
    <3> QED BY <3>1, <3>2
  <2> HIDE DEF c, Here
  <2>14. FlattenSeq(c) \in Seq(Token) /\ \E p : Woven(FlattenSeq(c), t, m, b, p)
    BY <2>7, <2>12, <2>13, FlattenWoven
  <2>15. text[k] \in Seq(Token)
    <3>1. text \in Seq(Seq(Token)) /\ k \in 1..Len(text)
      BY <1>3 DEF AssembledAs
    <3> QED BY <3>1, ElementOfSeq
  <2>16. FlattenSeq(c) = text[k]
    BY <2>7, <2>8, <2>14, <2>15, WovenIsUnique
  <2> QED BY <2>9, <2>15, <2>16
<1>13. a \in [1..n -> Seq(Token)]
  <2>1. a = [i \in 1..n |-> a[i]]
    BY <1>5, <1>11 DEF Annotated
  <2> QED BY <1>12, <2>1
<1>14. a \in Seq(Seq(Token)) /\ Len(a) = n
  BY <1>13, Sequences
<1>15. text \in Seq(Seq(Token)) /\ Len(text) = n
  BY <1>3 DEF AssembledAs
<1>16. text = a
  BY <1>12, <1>14, <1>15, SeqEqual
<1> QED BY <1>2, <1>4, <1>11, <1>16

LEMMA TextIsAnnotated ==
  ASSUME NEW terms \in Lexicons, NEW nodes \in SUBSET Passages, IsFiniteSet(nodes)
  PROVE  Annotates(nodes, terms)
<1>1. PICK text : text = Parts(nodes, terms)
  OBVIOUS
<1>2. PICK plain : plain = Plain(nodes)
  OBVIOUS
<1>3. [i \in DOMAIN text |-> Bare(text[i])] = plain
  BY <1>1, <1>2, PassagesReadOn
<1>4. Cardinality(Marked(text)) <= Cardinality(Surfaces(terms))
  BY <1>1, OneGlossEach
<1>5. AreApart(terms) => text = Annotated(plain, terms)
  BY <1>1, <1>2, GlossedWhereFirst
<1>6. plain = [i \in 1 .. Cardinality(nodes) |-> ForAssembly(Ordered(nodes)[i])]
  BY <1>2 DEF Plain
<1> QED BY <1>1, <1>3, <1>4, <1>5, <1>6 DEF Annotates

-----------------------------------------------------------------------------
(* The context a query delivers *)

\* The nodes stay those of the graph the query began with, what is assembled is of
\* them, and the terms table is one of the bundle's until then.
DInv ==
  /\ \E g \in Graphs : graph.nodes = g.nodes
  /\ phase = "check" => included \subseteq graph.nodes
  /\ phase \in {"closure", "context", "check"} => glossary \in Lexicons

LEMMA DInvNext == DInv /\ [DNext]_dvars => DInv'
<1> SUFFICES ASSUME DInv, [DNext]_dvars PROVE DInv'
  OBVIOUS
<1>1. CASE UNCHANGED dvars
  BY <1>1 DEF DInv, dvars, rvars, allvars, session
<1>2. CASE DNext
  <2>1. graph'.nodes = graph.nodes
    <3>1. Query => graph' = graph
      BY GraphKept
    <3>2. Commit => graph'.nodes = graph.nodes
      BY DEF Commit
    <3> QED BY <1>2, <3>1, <3>2 DEF DNext, SNext
  <2>2. phase' \in {"closure", "context", "check"}
          => phase \in {"closure", "context", "check"} /\ glossary' = glossary
    BY <1>2 DEF DNext, SNext, Query, Expand, BeginContext, AddContext, Assemble, LookUp,
                ReturnResult, Answer, Judge, Commit, session
  <2>3. phase' = "check" =>
          \/ included' \subseteq graph.nodes
          \/ phase = "check" /\ included' = included
    BY <1>2 DEF DNext, SNext, Query, Expand, BeginContext, AddContext, Assemble, LookUp,
                ReturnResult, Answer, Judge, Commit, session
  <2> QED BY <2>1, <2>2, <2>3 DEF DInv
<1> QED BY <1>1, <1>2

\* The text that a query delivers (assemble.py), whatever its terms contain of each
\* other and of each other's glosses: no gloss changes a passage or is there twice, and
\* terms with no word in common are glossed where they first occur.
THEOREM GlossesAreNotes == DSpec => []GlossesAnnotate
<1>1. DInit => DInv
  BY DEF DInit, RInit, SInit, Init, DInv
<1>2. DInv => GlossesAnnotate
  <2> SUFFICES ASSUME DInv, phase = "check"
               PROVE  Annotates({PassageOf[n] : n \in included}, glossary)
    BY DEF GlossesAnnotate
  <2>1. PICK g \in Graphs : included \subseteq g.nodes /\ glossary \in Lexicons
    BY DEF DInv
  <2>2. PICK nodes : nodes = {PassageOf[n] : n \in included}
    OBVIOUS
  <2>3. nodes \in SUBSET Passages
    BY <2>1, <2>2, PassageOfAssumption
  <2>4. IsFiniteSet(included)
    BY <2>1, PassageOfAssumption, FS_Subset
  <2>5. IsFiniteSet(nodes)
    <3> DEFINE f == [n \in included |-> PassageOf[n]]
    <3>1. f \in Surjection(included, nodes)
      <4>1. f \in [included -> nodes] /\ \A p \in nodes : \E n \in included : f[n] = p
        BY <2>2
      <4> HIDE DEF f
      <4> QED BY <4>1 DEF Surjection
    <3> HIDE DEF f
    <3> QED BY <2>4, <3>1, FS_Surjection
  <2> QED BY <2>1, <2>2, <2>3, <2>5, TextIsAnnotated
<1> QED BY <1>1, <1>2, DInvNext, PTL DEF DSpec
=============================================================================
