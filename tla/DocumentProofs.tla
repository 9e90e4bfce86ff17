--------------------------- MODULE DocumentProofs ---------------------------
(***************************************************************************)
(* Proofs about one document from its lines to its plan, for any text, any *)
(* contents of its segments and any terms: the tree that parsing builds,   *)
(* the edges that ingest draws on it, the windows extraction reads it in,  *)
(* and what the detector of conflicting overrides finds in them.           *)
(***************************************************************************)
EXTENDS OverrideConflicts, DataLemmas

-----------------------------------------------------------------------------
(* The tree *)

Level(n) == Levels[parts[n].kind]
HasLevel(n) == Levelled(parts[n].kind)

\* What may be the parent of n.
Over(n) ==
  {m \in 1 .. n - 1 : HasLevel(m) /\ (HasLevel(n) => Level(m) < Level(n))}

\* The parent of n is the last of them.
Placed(n) ==
  /\ Over(n) = {} => nodes[n].parent = 0
  /\ Over(n) # {} => nodes[n].parent \in Over(n) /\ \A m \in Over(n) : m <= nodes[n].parent

\* The open nodes, in the order of the text; whatever has a level is still open
\* or was closed by a later node that is open and of no greater level.
OpenNodes ==
  /\ stack \in Seq(Nat)
  /\ \A i \in 1..Len(stack) : stack[i] \in 1..Len(nodes) /\ HasLevel(stack[i])
  /\ \A i, j \in 1..Len(stack) : i < j => stack[i] < stack[j]
  /\ \A m \in 1..Len(nodes) : HasLevel(m) =>
       \E i \in 1..Len(stack) : m <= stack[i] /\ Level(stack[i]) <= Level(m)

Tree ==
  /\ \E S : nodes \in Seq(S)
  /\ \A n \in 1..Len(nodes) : nodes[n].kind = NodeKind(parts[n].kind) /\ Placed(n)
  /\ OpenNodes

TreeInv ==
  /\ pc \in {"reflow", "split"} => nodes = <<>> /\ stack = <<>>
  /\ Tree

LEMMA LevelType == \A kind : Levelled(kind) => Levels[kind] \in Nat
BY DEF Levelled, Levels

\* The innermost that stays open when a part of this kind comes.
LEMMA Innermost ==
  ASSUME Tree, NEW kind
  PROVE  /\ \E k \in 0..Len(stack) :
              /\ Enclosing(kind) = SubSeq(stack, 1, k)
              /\ \A i \in 1..Len(stack) :
                   /\ i > k => Levelled(kind) /\ Level(stack[i]) >= Levels[kind]
                   /\ i = k => (Levelled(kind) => Level(stack[i]) < Levels[kind])
<1> DEFINE T == {i \in DOMAIN stack : Levels[parts[stack[i]].kind] < Levels[kind]}
           Z == {0} \cup T
<1>1. /\ stack \in Seq(Nat) /\ Len(stack) \in Nat /\ DOMAIN stack = 1..Len(stack)
      /\ SubSeq(stack, 1, Len(stack)) = stack
      /\ \A i \in 1..Len(stack) : Level(stack[i]) \in Nat
  BY LenProperties, SubSeqFull, LevelType DEF Tree, OpenNodes, HasLevel, Level
<1>2. CASE ~Levelled(kind)
  <2>1. Enclosing(kind) = SubSeq(stack, 1, Len(stack))
    BY <1>1, <1>2 DEF Enclosing
  <2>2. Len(stack) \in 0..Len(stack) /\ \A i \in 1..Len(stack) : ~(i > Len(stack))
    BY <1>1
  <2> QED BY <1>2, <2>1, <2>2
<1>3. CASE Levelled(kind)
  <2>1. PICK k \in Z : \A i \in Z : i <= k
    <3>1. Z \in SUBSET Nat /\ Z # {} /\ \A i \in Z : i <= Len(stack)
      BY <1>1
    <3> HIDE DEF Z
    <3> QED BY <1>1, <3>1, GreatestNat
  <2>2. Max(Z) = k
    <3>1. \A i \in Z : i \in Nat
      BY <1>1
    <3>2. \A x \in Z : (\A y \in Z : x >= y) => x = k
      BY <2>1, <3>1
    <3>3. \A y \in Z : k >= y
      BY <2>1, <3>1
    <3> HIDE DEF Z
    <3> QED BY <2>1, <3>2, <3>3 DEF Max
  <2>3. Enclosing(kind) = SubSeq(stack, 1, k)
    BY <1>3, <2>2 DEF Enclosing
  <2>4. k \in 0..Len(stack)
    BY <1>1
  <2>5. ASSUME NEW i \in 1..Len(stack), i > k PROVE Level(stack[i]) >= Levels[kind]
    <3>1. i \notin T
      BY <1>1, <2>1, <2>4, <2>5
    <3> QED BY <1>1, <1>3, <3>1, LevelType DEF Level
  <2>6. ASSUME NEW i \in 1..Len(stack), i = k PROVE Level(stack[i]) < Levels[kind]
    BY <1>1, <2>1, <2>6 DEF Level
  <2> QED BY <1>3, <2>3, <2>4, <2>5, <2>6
<1> QED BY <1>2, <1>3

\* The part that comes takes its place under what stays open.
LEMMA Takes ==
  ASSUME Tree, NEW n, n = Len(nodes) + 1, NEW kind, kind = parts[n].kind,
         NEW above, above = Enclosing(kind)
  PROVE  /\ above = <<>> => Over(n) = {}
         /\ above # <<>> => Last(above) \in Over(n) /\ \A m \in Over(n) : m <= Last(above)
<1>1. /\ Len(nodes) \in Nat /\ n \in Nat /\ 1 .. n - 1 = 1..Len(nodes)
      /\ stack \in Seq(Nat) /\ Len(stack) \in Nat
  BY LenProperties DEF Tree, OpenNodes
<1>2. PICK k \in 0..Len(stack) :
        /\ above = SubSeq(stack, 1, k)
        /\ \A i \in 1..Len(stack) :
             /\ i > k => Levelled(kind) /\ Level(stack[i]) >= Levels[kind]
             /\ i = k => (Levelled(kind) => Level(stack[i]) < Levels[kind])
  BY Innermost
<1>3. ASSUME NEW m \in Over(n)
      PROVE  k # 0 /\ m <= stack[k]
  <2>1. m \in 1..Len(nodes) /\ HasLevel(m) /\ (Levelled(kind) => Level(m) < Levels[kind])
    BY <1>1 DEF Over, HasLevel, Level
  <2>2. PICK i \in 1..Len(stack) : m <= stack[i] /\ Level(stack[i]) <= Level(m)
    BY <2>1 DEF Tree, OpenNodes
  <2>3. /\ Level(m) \in Nat /\ Level(stack[i]) \in Nat /\ (Levelled(kind) => Levels[kind] \in Nat)
        /\ stack[i] \in Nat
    BY <2>1, LevelType DEF Tree, OpenNodes, HasLevel, Level
  <2>4. ~(i > k)
    BY <1>2, <2>1, <2>2, <2>3
  <2>5. k \in 1..Len(stack) /\ (i = k \/ stack[i] < stack[k]) /\ stack[k] \in Nat
    BY <1>1, <2>4 DEF Tree, OpenNodes
  <2> QED BY <2>1, <2>2, <2>3, <2>5
<1>4. CASE k = 0
  BY <1>1, <1>2, <1>3, <1>4, SubSeqEmpty
<1>5. CASE k # 0
  <2>1. k \in 1..Len(stack)
    BY <1>1, <1>5
  <2>2. above # <<>> /\ Last(above) = stack[k]
    <3>1. /\ \A i \in 1..k : stack[i] \in Nat
          /\ SubSeq(stack, 1, k) \in Seq(Nat) /\ Len(SubSeq(stack, 1, k)) = k
          /\ SubSeq(stack, 1, k)[k] = stack[k]
      BY <1>1, <2>1
    <3> QED BY <1>2, <2>1, <3>1 DEF Last
  <2>3. /\ stack[k] \in 1..Len(nodes) /\ HasLevel(stack[k])
        /\ (Levelled(kind) => Level(stack[k]) < Levels[kind])
    BY <1>2, <2>1 DEF Tree, OpenNodes
  <2>4. stack[k] \in Over(n)
    BY <1>1, <2>3 DEF Over, HasLevel, Level
  <2> QED BY <1>3, <2>2, <2>4
<1> QED BY <1>4, <1>5

LEMMA NestKeepsTree ==
  ASSUME Tree, Nest
  PROVE  Tree'
<1>0. PICK n : n = Len(nodes) + 1
  OBVIOUS
<1> DEFINE kind == parts[n].kind
           above == Enclosing(kind)
           node == [kind |-> NodeKind(kind), segs |-> parts[n].segs,
                    parent |-> IF above = <<>> THEN 0 ELSE Last(above)]
<1>1. /\ nodes' = Append(nodes, node)
      /\ stack' = IF Levelled(kind) THEN Append(above, n) ELSE above
      /\ parts' = parts
  BY <1>0 DEF Nest
<1>2. PICK S : nodes \in Seq(S)
  BY DEF Tree
<1>3. /\ Len(nodes) \in Nat /\ n \in Nat /\ n = Len(nodes) + 1
      /\ Append(nodes, node) \in Seq(S \cup {node})
      /\ Len(nodes') = n
      /\ \A i \in 1..Len(nodes) : nodes'[i] = nodes[i]
      /\ nodes'[n] = node
  <2> HIDE DEF node
  <2> QED BY <1>0, <1>1, <1>2, OneMore
<1>4. ASSUME NEW m \in 1..Len(nodes)
      PROVE  nodes'[m].kind = NodeKind(parts'[m].kind) /\ Placed(m)'
  BY <1>1, <1>3 DEF Tree, Placed, Over, HasLevel, Level
<1>5. nodes'[n].kind = NodeKind(parts'[n].kind) /\ Placed(n)'
  <2>1. /\ above = <<>> => Over(n) = {}
        /\ above # <<>> => Last(above) \in Over(n) /\ \A m \in Over(n) : m <= Last(above)
    <3> HIDE DEF above
    <3>0. kind = parts[n].kind /\ above = Enclosing(kind) /\ n = Len(nodes) + 1
      BY <1>0 DEF above
    <3> HIDE DEF kind
    <3> QED BY <3>0, Takes
  <2>2. nodes'[n].kind = NodeKind(kind) /\ nodes'[n].parent = IF above = <<>> THEN 0 ELSE Last(above)
    BY <1>3
  <2>3. Over(n)' = Over(n)
    BY <1>1 DEF Over, HasLevel, Level
  <2> HIDE DEF above
  <2> QED BY <1>1, <2>1, <2>2, <2>3 DEF Placed
<1>6. PICK k \in 0..Len(stack) :
        /\ above = SubSeq(stack, 1, k)
        /\ \A i \in 1..Len(stack) :
             /\ i > k => Levelled(kind) /\ Level(stack[i]) >= Levels[kind]
             /\ i = k => (Levelled(kind) => Level(stack[i]) < Levels[kind])
  BY Innermost
<1>7. /\ stack \in Seq(Nat) /\ Len(stack) \in Nat
      /\ above \in Seq(Nat) /\ Len(above) = k
      /\ \A i \in 1..k : above[i] = stack[i] /\ i \in 1..Len(stack)
      /\ \A i \in 1..k : above[i] \in 1..Len(nodes) /\ HasLevel(above[i])
      /\ \A i, j \in 1..k : i < j => above[i] < above[j]
  <2>1. stack \in Seq(Nat) /\ Len(stack) \in Nat /\ \A i \in 1..k : stack[i] \in Nat
    BY LenProperties DEF Tree, OpenNodes
  <2>2. above \in Seq(Nat) /\ Len(above) = k /\ \A i \in 1..k : above[i] = stack[i]
    <3>1. SubSeq(stack, 1, k) \in Seq(Nat) /\ Len(SubSeq(stack, 1, k)) = k
          /\ \A i \in 1..k : SubSeq(stack, 1, k)[i] = stack[i]
      BY <2>1
    <3> QED BY <1>6, <3>1
  <2>3. \A i \in 1..k : i \in 1..Len(stack)
    BY <2>1
  <2> QED BY <2>1, <2>2, <2>3 DEF Tree, OpenNodes
<1>8. OpenNodes'
  <2> HIDE DEF above, node
  <2>0. parts' = parts
    BY <1>1
  <2>1. CASE Levelled(kind)
    <3>1. /\ stack' \in Seq(Nat) /\ Len(stack') = k + 1
          /\ \A i \in 1..k : stack'[i] = above[i]
          /\ stack'[k + 1] = n
      <4>1. stack' = Append(above, n)
        BY <1>1, <2>1
      <4>2. n \in Nat /\ above \in Seq(Nat) /\ Len(above) = k
        BY <1>3, <1>7
      <4> QED BY <4>1, <4>2, AppendProperties
    <3>2. HasLevel(n) /\ Level(n) = Levels[kind] /\ Level(n) \in Nat
      BY <2>1, LevelType DEF HasLevel, Level
    <3>3. ASSUME NEW i \in 1..Len(stack')
          PROVE  stack'[i] \in 1..Len(nodes') /\ HasLevel(stack'[i])
      <4>1. CASE i = k + 1
        BY <1>3, <2>0, <3>1, <3>2, <4>1
      <4>2. CASE i # k + 1
        <5>1. i \in 1..k
          BY <3>1, <4>2
        <5>2. above[i] \in 1..Len(nodes) /\ HasLevel(above[i]) /\ stack'[i] = above[i]
          BY <1>7, <3>1, <5>1
        <5> QED BY <1>3, <2>0, <5>2
      <4> QED BY <4>1, <4>2
    <3>4. ASSUME NEW i \in 1..Len(stack'), NEW j \in 1..Len(stack'), i < j
          PROVE  stack'[i] < stack'[j]
      <4>0. i \in 1..k
        BY <3>1, <3>4
      <4>1. CASE j = k + 1
        BY <1>3, <1>7, <3>1, <4>0, <4>1
      <4>2. CASE j # k + 1
        <5>1. j \in 1..k
          BY <3>1, <4>2
        <5> QED BY <1>7, <3>1, <3>4, <4>0, <5>1
      <4> QED BY <4>1, <4>2
    <3>5. ASSUME NEW m \in 1..Len(nodes'), HasLevel(m)
          PROVE  \E i \in 1..Len(stack') : m <= stack'[i] /\ Level(stack'[i]) <= Level(m)
      <4>1. k + 1 \in 1..Len(stack')
        BY <3>1
      <4>2. CASE m = n
        BY <1>3, <2>0, <3>1, <3>2, <4>1, <4>2
      <4>3. CASE m # n
        <5>1. m \in 1..Len(nodes) /\ HasLevel(m) /\ Level(m) \in Nat
          BY <1>3, <2>0, <3>5, <4>3, LevelType DEF HasLevel, Level
        <5>2. PICK i \in 1..Len(stack) : m <= stack[i] /\ Level(stack[i]) <= Level(m)
          BY <5>1 DEF Tree, OpenNodes
        <5>3. CASE i > k
          <6>1. Level(stack[i]) \in Nat /\ Level(n) <= Level(stack[i])
            BY <1>6, <3>2, <5>3, LevelType DEF Tree, OpenNodes, HasLevel, Level
          <6>2. m <= n /\ Level(n) <= Level(m)
            BY <1>3, <3>2, <5>1, <5>2, <6>1
          <6> QED BY <2>0, <3>1, <4>1, <6>2
        <5>4. CASE ~(i > k)
          <6>1. i \in 1..k /\ i \in 1..Len(stack') /\ stack'[i] = stack[i]
            BY <1>7, <3>1, <5>4
          <6> QED BY <2>0, <5>2, <6>1
        <5> QED BY <5>3, <5>4
      <4> QED BY <4>2, <4>3
    <3> QED BY <2>0, <3>1, <3>3, <3>4, <3>5 DEF OpenNodes, HasLevel, Level
  <2>2. CASE ~Levelled(kind)
    <3>1. stack' = stack
      <4>1. above = stack
        BY <2>2 DEF above, Enclosing
      <4> QED BY <1>1, <2>2, <4>1
    <3>2. ASSUME NEW i \in 1..Len(stack')
          PROVE  stack'[i] \in 1..Len(nodes') /\ HasLevel(stack'[i])
      BY <1>3, <2>0, <3>1 DEF Tree, OpenNodes
    <3>3. ASSUME NEW m \in 1..Len(nodes'), HasLevel(m)
          PROVE  \E i \in 1..Len(stack') : m <= stack'[i] /\ Level(stack'[i]) <= Level(m)
      <4>1. m # n
        BY <2>0, <2>2, <3>3 DEF HasLevel
      <4>2. m \in 1..Len(nodes) /\ HasLevel(m)
        BY <1>3, <2>0, <3>3, <4>1
      <4>3. PICK i \in 1..Len(stack) : m <= stack[i] /\ Level(stack[i]) <= Level(m)
        BY <4>2 DEF Tree, OpenNodes
      <4> QED BY <2>0, <3>1, <4>3
    <3>4. stack' \in Seq(Nat) /\ \A i, j \in 1..Len(stack') : i < j => stack'[i] < stack'[j]
      BY <3>1 DEF Tree, OpenNodes
    <3> QED BY <2>0, <3>2, <3>3, <3>4 DEF OpenNodes, HasLevel, Level
  <2> QED BY <2>1, <2>2
<1>9. ASSUME NEW m \in 1..Len(nodes')
      PROVE  nodes'[m].kind = NodeKind(parts'[m].kind) /\ Placed(m)'
  <2>1. m = n \/ m \in 1..Len(nodes)
    BY <1>0, <1>3
  <2> QED BY <1>4, <1>5, <2>1
<1>10. \E T : nodes' \in Seq(T)
  BY <1>1, <1>3
<1> QED BY <1>8, <1>9, <1>10 DEF Tree

-----------------------------------------------------------------------------
(* Splitting a unit *)

LEMMA CutsList ==
  ASSUME NEW E, NEW segs \in Seq(E)
  PROVE  \E n \in Nat :
           /\ Cuts(segs) \in [1 .. n + 1 -> 1 .. Len(segs) + 1] /\ Len(Cuts(segs)) = n + 1
           /\ \A i, j \in 1 .. n + 1 : i < j => Cuts(segs)[i] < Cuts(segs)[j]
           /\ Cuts(segs)[1] = 1 /\ Cuts(segs)[n + 1] = Len(segs) + 1
<1> DEFINE L == Len(segs)
           S == {1, L + 1} \cup {i \in DOMAIN segs : segs[i][2] > 1}
           cut == Cuts(segs)
           N == Cardinality(S)
<1>1. L \in Nat /\ DOMAIN segs = 1..L
  BY LenProperties
<1>2. S \in SUBSET (0 .. L + 1) /\ S \subseteq 1 .. L + 1 /\ 1 \in S /\ L + 1 \in S
  BY <1>1
<1>3. Increasing(cut, S)
  <2>1. \E c : Increasing(c, S)
    <3>1. L + 1 \in Nat
      BY <1>1
    <3> HIDE DEF S, L
    <3> QED BY <1>2, <3>1, ListExists
  <2>2. cut = CHOOSE c \in [1..Cardinality(S) -> S] : \A i, j \in DOMAIN c : i < j => c[i] < c[j]
    BY DEF Cuts
  <2> HIDE DEF S, cut
  <2> QED BY <2>1, <2>2 DEF Increasing
<1>4. /\ N \in Nat /\ DOMAIN cut = 1..N
      /\ \A i \in 1..N : cut[i] \in S
      /\ \A x \in S : \E i \in 1..N : cut[i] = x
  <2>1. L + 1 \in Nat
    BY <1>1
  <2> HIDE DEF S, L, cut
  <2> QED BY <1>2, <1>3, <2>1, ListsAll
<1>5. cut \in [1..N -> S] /\ \A i, j \in 1..N : i < j => cut[i] < cut[j]
  BY <1>3, <1>4 DEF Increasing
<1> HIDE DEF S, cut
<1>6. PICK p \in 1..N : cut[p] = 1
  BY <1>2, <1>4
<1>7. PICK q \in 1..N : cut[q] = L + 1
  BY <1>2, <1>4
<1> HIDE DEF N
<1>8. cut[1] = 1
  <2>1. 1 \in 1..N /\ cut[1] \in 1 .. L + 1
    <3>1. 1 \in 1..N
      BY <1>4, <1>6
    <3> QED BY <1>2, <1>4, <3>1
  <2>2. ~(1 < p)
    BY <1>1, <1>5, <1>6, <2>1
  <2> QED BY <1>4, <1>6, <2>2
<1>9. cut[N] = L + 1
  <2>1. N \in 1..N /\ cut[N] \in 1 .. L + 1
    <3>1. N \in 1..N
      BY <1>4, <1>6
    <3> QED BY <1>2, <1>4, <3>1
  <2>2. ~(q < N)
    BY <1>1, <1>5, <1>7, <2>1
  <2> QED BY <1>4, <1>7, <2>2
<1>10. N - 1 \in Nat /\ (N - 1) + 1 = N
  BY <1>4, <1>6
<1>11. cut \in [1..N -> 1 .. L + 1] /\ Len(cut) = N
  <2>1. cut \in [1..N -> 1 .. L + 1]
    BY <1>2, <1>5
  <2> QED BY <1>4, <2>1, Sequences
<1>12. \E n \in Nat : n + 1 = N
  BY <1>10
<1>13. PICK n \in Nat : n + 1 = N
  BY <1>12
<1>14. cut[n + 1] = Len(segs) + 1
  BY <1>9, <1>13
<1> HIDE DEF L
<1>15. /\ cut \in [1 .. n + 1 -> 1 .. L + 1] /\ Len(cut) = n + 1
       /\ \A i, j \in 1 .. n + 1 : i < j => cut[i] < cut[j]
  BY <1>5, <1>11, <1>13
<1> QED BY <1>8, <1>14, <1>15 DEF cut, L

\* The parts of a unit are all of it, in order.
LEMMA SplitIsWhole ==
  ASSUME NEW E, NEW u, Segments(u.first, u.last) \in Seq(E)
  PROVE  \E n \in Nat :
           /\ Split(u) \in [1..n -> [kind : {u.kind, "proviso"}, segs : Seq(E)]]
           /\ FlattenSeq([i \in 1..n |-> Split(u)[i].segs]) = Segments(u.first, u.last)
<1> DEFINE segs == Segments(u.first, u.last)
           cut == Cuts(segs)
           piece(i) == SubSeq(segs, cut[i], cut[i + 1] - 1)
<1>0. segs \in Seq(E) /\ Len(segs) \in Nat
  BY LenProperties
<1> HIDE DEF segs
<1>1. PICK n \in Nat :
        /\ cut \in [1 .. n + 1 -> 1 .. Len(segs) + 1] /\ Len(cut) = n + 1
        /\ \A i, j \in 1 .. n + 1 : i < j => cut[i] < cut[j]
        /\ cut[1] = 1 /\ cut[n + 1] = Len(segs) + 1
  BY <1>0, CutsList
<1> HIDE DEF cut
<1>2. ASSUME NEW i \in 1..n
      PROVE  /\ i \in 1 .. n + 1 /\ i + 1 \in 1 .. n + 1
             /\ cut[i] \in 1 .. Len(segs) + 1 /\ cut[i + 1] \in 1 .. Len(segs) + 1
             /\ cut[i] < cut[i + 1] /\ piece(i) \in Seq(E)
  <2>1. i \in 1 .. n + 1 /\ i + 1 \in 1 .. n + 1 /\ i < i + 1
    OBVIOUS
  <2>2. /\ cut[i] \in 1 .. Len(segs) + 1 /\ cut[i + 1] \in 1 .. Len(segs) + 1
        /\ cut[i] < cut[i + 1]
    BY <1>1, <2>1
  <2>3. cut[i] \in Int /\ cut[i + 1] - 1 \in Int /\ cut[i + 1] - 1 <= Len(segs)
    BY <1>0, <2>2
  <2>4. \A k \in cut[i] .. cut[i + 1] - 1 : segs[k] \in E
    <3>1. ASSUME NEW k \in cut[i] .. cut[i + 1] - 1 PROVE k \in 1..Len(segs)
      BY <1>0, <2>2, <2>3
    <3> QED BY <1>0, <3>1, ElementOfSeq
  <2>5. piece(i) \in Seq(E)
    BY <2>3, <2>4, SubSeqProperties
  <2> QED BY <2>1, <2>2, <2>5
<1>3. Split(u) = [i \in 1..n |-> [kind |-> IF i > 1 /\ i = n THEN "proviso" ELSE u.kind,
                                  segs |-> piece(i)]]
  <2>1. Len(cut) - 1 = n
    BY <1>1
  <2> QED BY <2>1 DEF Split, cut, segs
<1> DEFINE pieces(k) == [i \in 1..k |-> piece(i)]
           N == {k \in Nat : k <= n => FlattenSeq(pieces(k)) = SubSeq(segs, 1, cut[k + 1] - 1)}
<1>4. 0 \in N
  <2>1. pieces(0) = <<>>
    OBVIOUS
  <2>2. FlattenSeq(pieces(0)) = <<>>
    <3> HIDE DEF pieces
    <3> QED BY <2>1, FlattenNone
  <2>3. cut[0 + 1] - 1 = 0
    BY <1>1
  <2>4. SubSeq(segs, 1, 0) = <<>>
    BY SubSeqEmpty
  <2> HIDE DEF pieces
  <2> QED BY <2>2, <2>3, <2>4
<1>5. ASSUME NEW k \in Nat, k \in N PROVE k + 1 \in N
  <2> HIDE DEF pieces, piece
  <2>1. SUFFICES ASSUME k + 1 <= n
                 PROVE  FlattenSeq(pieces(k + 1)) = SubSeq(segs, 1, cut[(k + 1) + 1] - 1)
    OBVIOUS
  <2>2. k + 1 \in 1..n /\ k <= n
    BY <2>1
  <2>3. FlattenSeq(pieces(k)) = SubSeq(segs, 1, cut[k + 1] - 1)
    BY <1>5, <2>2
  <2>4. /\ pieces(k) \in [1..k -> Seq(E)] /\ pieces(k + 1) \in [1 .. k + 1 -> Seq(E)]
        /\ \A i \in 1..k : pieces(k + 1)[i] = pieces(k)[i]
        /\ pieces(k + 1)[k + 1] = piece(k + 1)
    <3>1. \A i \in 1 .. k + 1 : i \in 1..n
      BY <2>2
    <3>2. \A i \in 1..k : i \in 1 .. k + 1
      OBVIOUS
    <3> QED BY <1>2, <3>1, <3>2 DEF pieces
  <2>5. FlattenSeq(pieces(k + 1)) = FlattenSeq(pieces(k)) \o piece(k + 1)
    BY <2>4, FlattenGrows
  <2>6. /\ cut[k + 1] - 1 \in 0..Len(segs) /\ cut[(k + 1) + 1] - 1 \in cut[k + 1] - 1 .. Len(segs)
        /\ (cut[k + 1] - 1) + 1 = cut[k + 1]
    BY <1>0, <1>2, <2>2
  <2>7. SubSeq(segs, 1, cut[k + 1] - 1) \o SubSeq(segs, cut[k + 1], cut[(k + 1) + 1] - 1)
          = SubSeq(segs, 1, cut[(k + 1) + 1] - 1)
    <3>1. 1 \in 1 .. Len(segs) + 1 /\ cut[k + 1] - 1 \in 1 - 1 .. Len(segs)
      BY <1>0, <2>6
    <3>2. SubSeq(segs, 1, cut[k + 1] - 1) \o SubSeq(segs, (cut[k + 1] - 1) + 1, cut[(k + 1) + 1] - 1)
            = SubSeq(segs, 1, cut[(k + 1) + 1] - 1)
      BY <1>0, <2>6, <3>1, ConcatAdjacentSubSeq
    <3> QED BY <2>6, <3>2
  <2> QED BY <2>3, <2>5, <2>7 DEF piece
<1>6. n \in N
  BY <1>4, <1>5, SetInduction
<1>7. FlattenSeq(pieces(n)) = segs
  <2>1. cut[n + 1] - 1 = Len(segs)
    BY <1>0, <1>1
  <2>2. FlattenSeq(pieces(n)) = SubSeq(segs, 1, Len(segs))
    <3> HIDE DEF pieces
    <3> QED BY <1>6, <2>1
  <2> QED BY <1>0, <2>2, SubSeqFull
<1>8. pieces(n) = [i \in 1..n |-> Split(u)[i].segs]
  <2> HIDE DEF piece
  <2>1. \A i \in 1..n : Split(u)[i].segs = piece(i)
    BY <1>3
  <2> QED BY <2>1
<1>9. Split(u) \in [1..n -> [kind : {u.kind, "proviso"}, segs : Seq(E)]]
  <2> HIDE DEF piece
  <2> QED BY <1>2, <1>3
<1>10. FlattenSeq([i \in 1..n |-> Split(u)[i].segs]) = segs
  BY <1>7, <1>8
<1> QED BY <1>9, <1>10 DEF segs

-----------------------------------------------------------------------------
(* The segments of the text *)

\* Where a segment stands, and the segments of one line.
Spot == {p \in (DOMAIN text) \X Nat : p[2] \in DOMAIN text[p[1]].segs}
OfLine(l) == [k \in DOMAIN text[l].segs |-> <<l, k>>]

LEMMA TextType ==
  ASSUME text \in Texts
  PROVE  /\ Len(text) \in Nat /\ DOMAIN text = 1..Len(text)
         /\ \A l \in 1..Len(text) :
              /\ text[l] \in Line /\ text[l].segs \in Seq(Content)
              /\ OfLine(l) \in Seq(Spot)
              /\ text[l].shape = "blank" => OfLine(l) = <<>>
<1>1. text \in Seq(Line) /\ Len(text) \in Nat /\ DOMAIN text = 1..Len(text)
  BY TextsAssumption, LenProperties
<1>2. SUFFICES ASSUME NEW l \in 1..Len(text)
               PROVE  /\ text[l] \in Line /\ text[l].segs \in Seq(Content)
                      /\ OfLine(l) \in Seq(Spot)
                      /\ text[l].shape = "blank" => OfLine(l) = <<>>
  BY <1>1
<1>3. text[l] \in Line /\ text[l].segs \in Seq(Content)
  <2>1. text[l] \in Line
    BY <1>1, ElementOfSeq
  <2> QED BY <2>1 DEF Line
<1>4. PICK n \in Nat : DOMAIN text[l].segs = 1..n
  BY <1>3, LenProperties
<1>5. OfLine(l) \in Seq(Spot)
  <2>1. ASSUME NEW k \in 1..n PROVE <<l, k>> \in Spot
    <3>1. l \in DOMAIN text /\ k \in Nat /\ k \in DOMAIN text[l].segs
      BY <1>1, <1>4
    <3>2. <<l, k>> \in (DOMAIN text) \X Nat
      BY <3>1
    <3>3. <<l, k>>[2] \in DOMAIN text[<<l, k>>[1]].segs
      BY <3>1
    <3> QED BY <3>2, <3>3 DEF Spot
  <2>2. OfLine(l) \in [1..n -> Spot]
    BY <1>4, <2>1 DEF OfLine
  <2> QED BY <2>2, Sequences
<1>6. ASSUME text[l].shape = "blank" PROVE OfLine(l) = <<>>
  <2>1. text[l].segs = <<>>
    BY <1>1, <1>6, TextsAssumption
  <2>2. DOMAIN text[l].segs = {}
    BY <2>1
  <2> QED BY <2>2 DEF OfLine
<1> QED BY <1>3, <1>5, <1>6

LEMMA NoSegments ==
  ASSUME text \in Texts, NEW from \in Nat
  PROVE  Segments(from + 1, from) = <<>>
<1> DEFINE ss == [i \in 1 .. from + 1 - (from + 1) |->
                    [k \in DOMAIN text[from + 1 + i - 1].segs |-> <<from + 1 + i - 1, k>>]]
<1>1. ss = <<>>
  OBVIOUS
<1>2. FlattenSeq(ss) = <<>>
  <2> HIDE DEF ss
  <2> QED BY <1>1, FlattenNone
<1> QED BY <1>2 DEF Segments

\* The segments of one line more.
LEMMA SegmentsGrow ==
  ASSUME text \in Texts, NEW from \in Nat, from > 0, NEW to \in Nat,
         from <= to + 1, to + 1 <= Len(text)
  PROVE  /\ Segments(from, to) \in Seq(Spot)
         /\ Segments(from, to + 1) = Segments(from, to) \o OfLine(to + 1)
<1> DEFINE ss(e) == [i \in 1 .. e + 1 - from |->
                       [k \in DOMAIN text[from + i - 1].segs |-> <<from + i - 1, k>>]]
           n == to + 1 - from
<1>0. Len(text) \in Nat /\ DOMAIN text = 1..Len(text) /\ n \in Nat /\ (to + 1) + 1 - from = n + 1
  BY TextType
<1>1. \A i \in 1 .. n + 1 : from + i - 1 \in 1..Len(text) /\ OfLine(from + i - 1) \in Seq(Spot)
  <2>1. \A i \in 1 .. n + 1 : from + i - 1 \in 1..Len(text)
    BY <1>0
  <2> QED BY <2>1, TextType
<1>2. ss(to) = [i \in 1..n |-> OfLine(from + i - 1)]
  BY DEF OfLine
<1>3. ss(to + 1) = [i \in 1 .. n + 1 |-> OfLine(from + i - 1)]
  BY <1>0 DEF OfLine
<1>4. Segments(from, to) = FlattenSeq(ss(to)) /\ Segments(from, to + 1) = FlattenSeq(ss(to + 1))
  BY DEF Segments
<1> HIDE DEF ss, n
<1>5. /\ ss(to) \in [1..n -> Seq(Spot)] /\ ss(to + 1) \in [1 .. n + 1 -> Seq(Spot)]
      /\ \A i \in 1..n : ss(to + 1)[i] = ss(to)[i]
      /\ ss(to + 1)[n + 1] = OfLine(from + (n + 1) - 1)
  <2>1. \A i \in 1..n : i \in 1 .. n + 1
    BY <1>0
  <2>2. n + 1 \in 1 .. n + 1
    BY <1>0
  <2> QED BY <1>1, <1>2, <1>3, <2>1, <2>2
<1>6. FlattenSeq(ss(to + 1)) = FlattenSeq(ss(to)) \o ss(to + 1)[n + 1]
  BY <1>0, <1>5, FlattenGrows
<1>7. from + (n + 1) - 1 = to + 1
  BY DEF n
<1>8. FlattenSeq(ss(to)) \in Seq(Spot)
  BY <1>0, <1>5, FlattenType
<1> QED BY <1>4, <1>5, <1>6, <1>7, <1>8

LEMMA SegmentsType ==
  ASSUME text \in Texts, NEW from \in Nat, from > 0, NEW to \in Nat,
         from <= to + 1, to <= Len(text)
  PROVE  Segments(from, to) \in Seq(Spot)
<1>0. Len(text) \in Nat
  BY TextType
<1>1. CASE from = to + 1
  BY <1>1, NoSegments, EmptySeq
<1>2. CASE from # to + 1
  <2>1. PICK e \in Nat : e + 1 = to
    <3>1. to - 1 \in Nat /\ (to - 1) + 1 = to
      BY <1>2
    <3> QED BY <3>1
  <2>2. from <= e + 1 /\ e + 1 <= Len(text) /\ to \in 1..Len(text)
    BY <1>0, <1>2, <2>1
  <2>3. Segments(from, e) \in Seq(Spot) /\ Segments(from, e + 1) = Segments(from, e) \o OfLine(e + 1)
    BY <2>2, SegmentsGrow
  <2>4. OfLine(to) \in Seq(Spot)
    BY <2>2, TextType
  <2> QED BY <2>1, <2>3, <2>4, ConcatProperties
<1> QED BY <1>1, <1>2

\* The segments up to a line and from there.
LEMMA SegmentsJoin ==
  ASSUME text \in Texts, NEW from \in Nat, from > 0, NEW mid \in Nat, NEW to \in Nat,
         from <= mid + 1, mid <= to, to <= Len(text)
  PROVE  Segments(from, to) = Segments(from, mid) \o Segments(mid + 1, to)
<1>0. Len(text) \in Nat
  BY TextType
<1> DEFINE N == {d \in Nat : mid + d <= Len(text) =>
                   Segments(from, mid + d) = Segments(from, mid) \o Segments(mid + 1, mid + d)}
<1>1. 0 \in N
  <2>1. mid + 0 = mid /\ Segments(mid + 1, mid) = <<>> /\ mid <= Len(text)
    <3>1. mid + 0 = mid /\ mid <= Len(text)
      BY <1>0
    <3>2. Segments(mid + 1, mid) = <<>>
      BY NoSegments
    <3> QED BY <3>1, <3>2
  <2>2. Segments(from, mid) \in Seq(Spot)
    BY <2>1, SegmentsType
  <2> QED BY <2>1, <2>2, ConcatEmptySeq
<1>2. ASSUME NEW d \in Nat, d \in N PROVE d + 1 \in N
  <2>1. SUFFICES ASSUME mid + (d + 1) <= Len(text)
                 PROVE  Segments(from, mid + (d + 1))
                          = Segments(from, mid) \o Segments(mid + 1, mid + (d + 1))
    OBVIOUS
  <2>2. PICK e \in Nat : e = mid + d
    OBVIOUS
  <2>3. /\ mid + (d + 1) = e + 1 /\ e + 1 <= Len(text) /\ e <= Len(text) /\ from <= e + 1
        /\ mid + 1 \in Nat /\ mid + 1 > 0 /\ mid + 1 <= e + 1 /\ e + 1 \in 1..Len(text)
        /\ mid <= Len(text)
    BY <1>0, <2>1, <2>2
  <2>4. Segments(from, e) = Segments(from, mid) \o Segments(mid + 1, e)
    BY <1>2, <2>2, <2>3
  <2> HIDE DEF N
  <2>5. PICK x, y, s, t, u :
          /\ x = Segments(from, e) /\ y = Segments(mid + 1, e + 1) /\ s = Segments(from, mid)
          /\ t = Segments(mid + 1, e) /\ u = OfLine(e + 1)
    OBVIOUS
  <2>6. s \in Seq(Spot) /\ t \in Seq(Spot) /\ u \in Seq(Spot)
    <3>1. s \in Seq(Spot)
      BY <2>3, <2>5, SegmentsType
    <3>2. t \in Seq(Spot)
      BY <2>3, <2>5, SegmentsType
    <3>3. u \in Seq(Spot)
      BY <2>3, <2>5, TextType
    <3> QED BY <3>1, <3>2, <3>3
  <2>7. Segments(from, e + 1) = x \o u
    BY <2>3, <2>5, SegmentsGrow
  <2>8. y = t \o u
    BY <2>3, <2>5, SegmentsGrow
  <2>9. x = s \o t
    BY <2>4, <2>5
  <2>10. x \o u = s \o y
    BY <2>6, <2>8, <2>9, Regroup
  <2> QED BY <2>3, <2>5, <2>7, <2>10
<1>3. Nat \subseteq N
  BY <1>1, <1>2, SetInduction
<1>4. to - mid \in Nat /\ mid + (to - mid) = to
  OBVIOUS
<1> HIDE DEF N
<1>5. to - mid \in N
  BY <1>3, <1>4
<1> QED BY <1>4, <1>5 DEF N

-----------------------------------------------------------------------------
(* Units tile the text *)

UnitKind == Starter \cup {"text"}

Unit ==
  {u \in [kind : UnitKind, first : 1..Len(text), last : 1..Len(text), bare : BOOLEAN] :
     u.first <= u.last}

UnitText(u) == Segments(u.first, u.last)
Tiles(us) == FlattenSeq([i \in 1..Len(us) |-> UnitText(us[i])])

\* The units are all of the text before the open one, or before the next line;
\* the open one reaches up to blank lines before the next line.
Reflowed ==
  /\ next \in 1 .. Len(text) + 1
  /\ units \in Seq(Unit)
  /\ open = NoUnit => Tiles(units) = Segments(1, next - 1)
  /\ open # NoUnit =>
       /\ open \in Unit /\ open.last < next
       /\ Tiles(units) = Segments(1, open.first - 1)
       /\ \A l \in open.last + 1 .. next - 1 : text[l].shape = "blank"

LEMMA UnitTextType ==
  ASSUME text \in Texts, NEW u \in Unit
  PROVE  UnitText(u) \in Seq(Spot)
<1>1. /\ u.first \in Nat /\ u.first > 0 /\ u.last \in Nat /\ u.first <= u.last + 1
      /\ u.last <= Len(text)
  BY TextType DEF Unit
<1> QED BY <1>1, SegmentsType DEF UnitText

LEMMA TilesGrow ==
  ASSUME text \in Texts, NEW us \in Seq(Unit), NEW u \in Unit
  PROVE  Tiles(us) \in Seq(Spot) /\ Tiles(Append(us, u)) = Tiles(us) \o UnitText(u)
<1> DEFINE n == Len(us)
           f == [i \in 1..n |-> UnitText(us[i])]
           g == [i \in 1 .. n + 1 |-> UnitText(Append(us, u)[i])]
<1>1. /\ n \in Nat /\ Len(Append(us, u)) = n + 1
      /\ \A i \in 1..n : us[i] \in Unit /\ Append(us, u)[i] = us[i]
      /\ Append(us, u)[n + 1] = u
  BY OneMore, ElementOfSeq
<1>2. f \in [1..n -> Seq(Spot)]
  BY <1>1, UnitTextType
<1>3. \A i \in 1 .. n + 1 : Append(us, u)[i] \in Unit
  <2>1. \A i \in 1 .. n + 1 : i \in 1..n \/ i = n + 1
    BY <1>1
  <2> QED BY <1>1, <2>1
<1>4. /\ g \in [1 .. n + 1 -> Seq(Spot)]
      /\ \A i \in 1..n : g[i] = f[i]
      /\ g[n + 1] = UnitText(u)
  <2>1. \A i \in 1..n : i \in 1 .. n + 1
    BY <1>1
  <2>2. n + 1 \in 1 .. n + 1
    BY <1>1
  <2> QED BY <1>1, <1>3, <2>1, <2>2, UnitTextType
<1>5. Tiles(us) = FlattenSeq(f) /\ Tiles(Append(us, u)) = FlattenSeq(g)
  BY <1>1 DEF Tiles
<1> HIDE DEF f, g, n
<1>6. FlattenSeq(g) = FlattenSeq(f) \o g[n + 1]
  BY <1>1, <1>2, <1>4, FlattenGrows
<1>7. FlattenSeq(f) \in Seq(Spot)
  BY <1>1, <1>2, FlattenType
<1> QED BY <1>4, <1>5, <1>6, <1>7

\* Blank lines have no segments.
LEMMA BlankSegments ==
  ASSUME text \in Texts, NEW mid \in Nat, NEW to \in Nat, mid <= to, to <= Len(text),
         \A l \in mid + 1 .. to : text[l].shape = "blank"
  PROVE  Segments(1, to) = Segments(1, mid)
<1> DEFINE N == {d \in Nat : mid + d <= to => Segments(1, mid + d) = Segments(1, mid)}
<1>0. Len(text) \in Nat
  BY TextType
<1>1. 0 \in N
  OBVIOUS
<1>2. ASSUME NEW d \in Nat, d \in N PROVE d + 1 \in N
  <2>1. SUFFICES ASSUME mid + (d + 1) <= to
                 PROVE  Segments(1, mid + (d + 1)) = Segments(1, mid)
    OBVIOUS
  <2>2. PICK e \in Nat : e = mid + d
    OBVIOUS
  <2>3. /\ mid + (d + 1) = e + 1 /\ e + 1 <= Len(text) /\ 1 <= e + 1 /\ e + 1 \in 1..Len(text)
        /\ e + 1 \in mid + 1 .. to /\ e <= to
    BY <1>0, <2>1, <2>2
  <2>4. Segments(1, e) = Segments(1, mid)
    BY <1>2, <2>2, <2>3
  <2>5. OfLine(e + 1) = <<>>
    BY <2>3, TextType
  <2> HIDE DEF N
  <2>6. Segments(1, e) \in Seq(Spot) /\ Segments(1, e + 1) = Segments(1, e) \o OfLine(e + 1)
    <3>1. PICK one \in Nat : one = 1 /\ one > 0
      OBVIOUS
    <3>2. one <= e + 1
      BY <2>3, <3>1
    <3>3. Segments(one, e) \in Seq(Spot) /\ Segments(one, e + 1) = Segments(one, e) \o OfLine(e + 1)
      BY <2>3, <3>1, <3>2, SegmentsGrow
    <3> QED BY <3>1, <3>3
  <2> QED BY <2>3, <2>4, <2>5, <2>6, ConcatEmptySeq
<1>3. Nat \subseteq N
  BY <1>1, <1>2, SetInduction
<1>4. to - mid \in Nat /\ mid + (to - mid) = to /\ to <= to
  OBVIOUS
<1> HIDE DEF N
<1>5. to - mid \in N
  BY <1>3, <1>4
<1> QED BY <1>4, <1>5 DEF N

LEMMA FlushedTiles ==
  ASSUME text \in Texts, Reflowed
  PROVE  Flushed \in Seq(Unit) /\ Tiles(Flushed) = Segments(1, next - 1)
<1>0. Len(text) \in Nat
  BY TextType
<1>1. CASE open = NoUnit
  BY <1>1 DEF Reflowed, Flushed
<1>2. CASE open # NoUnit
  <2>1. /\ units \in Seq(Unit) /\ open \in Unit /\ open.last < next
        /\ Tiles(units) = Segments(1, open.first - 1)
        /\ \A l \in open.last + 1 .. next - 1 : text[l].shape = "blank"
        /\ next \in 1 .. Len(text) + 1
    BY <1>2 DEF Reflowed
  <2>2. Flushed = Append(units, open)
    BY <1>2 DEF Flushed
  <2>3. Tiles(Flushed) = Tiles(units) \o UnitText(open)
    BY <2>1, <2>2, TilesGrow
  <2>4. /\ open.first \in 1..Len(text) /\ open.last \in 1..Len(text)
        /\ open.first <= open.last
    BY <2>1 DEF Unit
  <2>5. Segments(1, open.last) = Segments(1, open.first - 1) \o UnitText(open)
    <3>1. PICK one \in Nat, mid \in Nat, last \in Nat :
            one = 1 /\ one > 0 /\ mid = open.first - 1 /\ last = open.last
      <4>1. open.first - 1 \in Nat /\ open.last \in Nat /\ 1 \in Nat /\ 1 > 0
        BY <1>0, <2>4
      <4> QED BY <4>1
    <3>2. one <= mid + 1 /\ mid <= last /\ last <= Len(text) /\ mid + 1 = open.first
      BY <1>0, <2>4, <3>1
    <3>3. Segments(one, last) = Segments(one, mid) \o Segments(mid + 1, last)
      BY <3>1, <3>2, SegmentsJoin
    <3> QED BY <3>1, <3>2, <3>3 DEF UnitText
  <2>6. Segments(1, next - 1) = Segments(1, open.last)
    <3>1. /\ open.last \in Nat /\ next - 1 \in Nat /\ open.last <= next - 1
          /\ next - 1 <= Len(text)
      BY <1>0, <2>1, <2>4
    <3> QED BY <2>1, <3>1, BlankSegments
  <2>7. Flushed \in Seq(Unit)
    BY <2>1, <2>2, AppendProperties
  <2> QED BY <2>1, <2>3, <2>5, <2>6, <2>7
<1> QED BY <1>1, <1>2

LEMMA TextFixed ==
  ASSUME text' = text
  PROVE  /\ \A us : Tiles(us)' = Tiles(us)
         /\ \A a, b : Segments(a, b)' = Segments(a, b)
         /\ Unit' = Unit /\ Spot' = Spot
BY DEF Tiles, UnitText, Segments, Unit, Spot

LEMMA StarterKinds == "closed" \notin UnitKind /\ Starter \subseteq UnitKind /\ "text" \in UnitKind
BY DEF UnitKind, Starter, Enumerated, Structural, Footnote

\* What reading one line makes of the units.
LEMMA ReadTiles ==
  ASSUME text \in Texts, Reflowed, ReadBlank \/ ReadStarter \/ ReadText
  PROVE  text' \in Texts /\ Reflowed'
<1>0. /\ text' = text /\ next' = next + 1 /\ next \in DOMAIN text /\ Len(text) \in Nat
      /\ DOMAIN text = 1..Len(text)
  BY TextType DEF ReadBlank, ReadStarter, ReadText
<1>1. /\ next' \in 1 .. Len(text) + 1 /\ next \in 1..Len(text) /\ next' - 1 = next
      /\ next \in Nat /\ next - 1 \in Nat /\ next + 1 .. next' - 1 = {}
  <2>1. next' - 1 = next /\ next \in Nat /\ next \in 1..Len(text)
    BY <1>0
  <2>2. next + 1 .. next = {}
    BY <2>1
  <2> QED BY <1>0, <2>1, <2>2
<1>2. Flushed \in Seq(Unit) /\ Tiles(Flushed) = Segments(1, next - 1)
  BY FlushedTiles
<1>3. /\ \A us : Tiles(us)' = Tiles(us)
      /\ \A a, b : Segments(a, b)' = Segments(a, b)
      /\ Unit' = Unit
  BY <1>0, TextFixed
<1>4. text[next].bare \in BOOLEAN
  BY <1>1, TextType DEF Line
<1>5. CASE ReadBlank
  <2>1. text[next].shape = "blank"
    BY <1>5 DEF ReadBlank
  <2>2. CASE open.kind \in Enumerated /\ (open.bare \/ ~text[prior].done)
    <3>1. units' = units /\ open' = open
      BY <1>5, <2>2 DEF ReadBlank
    <3>2. open # NoUnit
      BY <2>2 DEF NoUnit, Enumerated, Structural
    <3>3. /\ units \in Seq(Unit) /\ open \in Unit /\ open.last < next
          /\ Tiles(units) = Segments(1, open.first - 1)
          /\ \A l \in open.last + 1 .. next - 1 : text[l].shape = "blank"
      BY <3>2 DEF Reflowed
    <3>4. open.last < next'
      BY <1>0, <1>1, <3>3 DEF Unit
    <3>5. \A l \in open.last + 1 .. next' - 1 : text[l].shape = "blank"
      <4>1. ASSUME NEW l \in open.last + 1 .. next PROVE l = next \/ l \in open.last + 1 .. next - 1
        BY <1>1, <3>3 DEF Unit
      <4> QED BY <1>1, <2>1, <3>3, <4>1
    <3> QED BY <1>0, <1>1, <1>3, <3>1, <3>2, <3>3, <3>4, <3>5 DEF Reflowed
  <2>3. CASE ~(open.kind \in Enumerated /\ (open.bare \/ ~text[prior].done))
    <3>1. units' = Flushed /\ open' = NoUnit
      BY <1>5, <2>3 DEF ReadBlank
    <3>2. Segments(1, next) = Segments(1, next - 1)
      <4>1. \A l \in (next - 1) + 1 .. next : text[l].shape = "blank"
        BY <1>1, <2>1
      <4>2. next - 1 <= next /\ next <= Len(text)
        BY <1>1
      <4> QED BY <1>1, <4>1, <4>2, BlankSegments
    <3> QED BY <1>0, <1>1, <1>2, <1>3, <3>1, <3>2 DEF Reflowed, NoUnit
  <2> QED BY <2>2, <2>3
<1>6. CASE ReadStarter
  <2>1. PICK kind \in Starter :
          /\ units' = Flushed
          /\ open' = [kind |-> kind, first |-> next, last |-> next, bare |-> text[next].bare]
    BY <1>6 DEF ReadStarter
  <2>2. open' \in Unit /\ open' # NoUnit
    BY <1>1, <1>4, <2>1, StarterKinds DEF Unit, NoUnit
  <2>3. /\ open'.first = next /\ open'.last = next
        /\ \A l \in open'.last + 1 .. next' - 1 : text[l].shape = "blank"
    <3>1. open'.first = next /\ open'.last = next
      BY <2>1
    <3>2. open'.last + 1 .. next' - 1 = {}
      BY <1>1, <3>1
    <3> QED BY <3>1, <3>2
  <2> QED BY <1>0, <1>1, <1>2, <1>3, <2>1, <2>2, <2>3 DEF Reflowed
<1>7. CASE ReadText
  <2>0. units' = units
    BY <1>7 DEF ReadText
  <2>1. CASE open = NoUnit
    <3>1. open' = [kind |-> "text", first |-> next, last |-> next, bare |-> FALSE]
      BY <1>7, <2>1 DEF ReadText
    <3>2. open' \in Unit /\ open' # NoUnit
      BY <1>1, <3>1, StarterKinds DEF Unit, NoUnit
    <3>3. /\ open'.first = next /\ open'.last = next
          /\ \A l \in open'.last + 1 .. next' - 1 : text[l].shape = "blank"
      <4>1. open'.first = next /\ open'.last = next
        BY <3>1
      <4>2. open'.last + 1 .. next' - 1 = {}
        BY <1>1, <4>1
      <4> QED BY <4>1, <4>2
    <3>4. units \in Seq(Unit) /\ Tiles(units) = Segments(1, next - 1)
      BY <2>1 DEF Reflowed
    <3> QED BY <1>0, <1>1, <1>3, <2>0, <3>2, <3>3, <3>4 DEF Reflowed
  <2>2. CASE open # NoUnit
    <3>1. open' = [open EXCEPT !.last = next, !.bare = FALSE]
      BY <1>7, <2>2 DEF ReadText
    <3>2. /\ units \in Seq(Unit) /\ open \in Unit /\ open.last < next
          /\ Tiles(units) = Segments(1, open.first - 1)
      BY <2>2 DEF Reflowed
    <3>3. /\ open' \in Unit /\ open'.kind = open.kind /\ open'.first = open.first
          /\ open'.last = next
      <4>1. /\ open \in [kind : UnitKind, first : 1..Len(text), last : 1..Len(text), bare : BOOLEAN]
            /\ open.first <= open.last
        BY <3>2 DEF Unit
      <4>2. /\ open' \in [kind : UnitKind, first : 1..Len(text), last : 1..Len(text), bare : BOOLEAN]
            /\ open'.kind = open.kind /\ open'.first = open.first /\ open'.last = next
        BY <1>1, <3>1, <4>1
      <4>3. open'.first <= open'.last
        BY <1>1, <3>2, <4>1, <4>2
      <4> QED BY <4>2, <4>3 DEF Unit
    <3>4. open' # NoUnit
      BY <3>3, StarterKinds DEF Unit, NoUnit
    <3>5. \A l \in open'.last + 1 .. next' - 1 : text[l].shape = "blank"
      <4>1. open'.last + 1 .. next' - 1 = {}
        BY <1>1, <3>3
      <4> QED BY <4>1
    <3> QED BY <1>0, <1>1, <1>3, <2>0, <3>2, <3>3, <3>4, <3>5 DEF Reflowed
  <2> QED BY <2>1, <2>2
<1> QED BY <1>0, <1>5, <1>6, <1>7

-----------------------------------------------------------------------------
(* Parts tile the text *)

Part == [kind : UnitKind, segs : Seq(Spot)]
SegsOf(ps) == [p \in 1..Len(ps) |-> ps[p].segs]

LEMMA SplitParts ==
  ASSUME text \in Texts, NEW u \in Unit
  PROVE  Split(u) \in Seq(Part) /\ FlattenSeq(SegsOf(Split(u))) = UnitText(u)
<1>1. Segments(u.first, u.last) \in Seq(Spot)
  BY UnitTextType DEF UnitText
<1>2. PICK n \in Nat :
        /\ Split(u) \in [1..n -> [kind : {u.kind, "proviso"}, segs : Seq(Spot)]]
        /\ FlattenSeq([i \in 1..n |-> Split(u)[i].segs]) = Segments(u.first, u.last)
  BY <1>1, SplitIsWhole
<1>3. [kind : {u.kind, "proviso"}, segs : Seq(Spot)] \subseteq Part
  BY DEF Part, Unit, UnitKind, Starter, Enumerated
<1>4. Split(u) \in [1..n -> Part]
  BY <1>2, <1>3
<1>5. Split(u) \in Seq(Part) /\ Len(Split(u)) = n
  BY <1>4, Sequences
<1> QED BY <1>2, <1>5 DEF SegsOf, UnitText

LEMMA SegsJoin ==
  ASSUME text \in Texts, NEW x \in Seq(Part), NEW y \in Seq(Part)
  PROVE  /\ FlattenSeq(SegsOf(x \o y)) = FlattenSeq(SegsOf(x)) \o FlattenSeq(SegsOf(y))
         /\ SegsOf(x) \in [1..Len(x) -> Seq(Spot)]
<1> DEFINE n == Len(x)
           m == Len(y)
<1>1. /\ n \in Nat /\ m \in Nat /\ x \o y \in Seq(Part) /\ Len(x \o y) = n + m
      /\ \A i \in 1 .. n + m : (x \o y)[i] = IF i <= n THEN x[i] ELSE y[i - n]
  BY LenProperties, ConcatProperties
<1>2. \A z \in Seq(Part) : SegsOf(z) \in [1..Len(z) -> Seq(Spot)]
  <2> SUFFICES ASSUME NEW z \in Seq(Part) PROVE SegsOf(z) \in [1..Len(z) -> Seq(Spot)]
    OBVIOUS
  <2>1. ASSUME NEW i \in 1..Len(z) PROVE z[i].segs \in Seq(Spot)
    <3>1. z[i] \in Part
      BY ElementOfSeq
    <3> QED BY <3>1 DEF Part
  <2> QED BY <2>1 DEF SegsOf
<1>3. /\ \A i \in 1..n : SegsOf(x \o y)[i] = SegsOf(x)[i]
      /\ \A i \in 1..m : SegsOf(x \o y)[n + i] = SegsOf(y)[i]
  <2>1. ASSUME NEW i \in 1..n PROVE SegsOf(x \o y)[i] = SegsOf(x)[i]
    <3>1. i \in 1 .. n + m /\ i <= n
      BY <1>1
    <3> QED BY <1>1, <3>1 DEF SegsOf
  <2>2. ASSUME NEW i \in 1..m PROVE SegsOf(x \o y)[n + i] = SegsOf(y)[i]
    <3>1. n + i \in 1 .. n + m /\ ~(n + i <= n) /\ (n + i) - n = i
      BY <1>1
    <3> QED BY <1>1, <3>1 DEF SegsOf
  <2> QED BY <2>1, <2>2
<1>4. /\ SegsOf(x) \in [1..n -> Seq(Spot)] /\ SegsOf(y) \in [1..m -> Seq(Spot)]
      /\ SegsOf(x \o y) \in [1 .. n + m -> Seq(Spot)]
  BY <1>1, <1>2
<1> HIDE DEF n, m
<1>5. FlattenSeq(SegsOf(x \o y)) = FlattenSeq(SegsOf(x)) \o FlattenSeq(SegsOf(y))
  <2>1. Joins(Spot, SegsOf(x \o y), SegsOf(x), n, SegsOf(y), m)
    BY <1>1, <1>3, <1>4 DEF Joins
  <2> QED BY <2>1, FlattenConcat
<1> QED BY <1>4, <1>5 DEF n

LEMMA SplitTiles ==
  ASSUME text \in Texts, units \in Seq(Unit), NEW ps,
         ps = FlattenSeq([i \in DOMAIN units |-> Split(units[i])])
  PROVE  ps \in Seq(Part) /\ FlattenSeq(SegsOf(ps)) = Tiles(units)
<1> DEFINE n == Len(units)
           sp(k) == [i \in 1..k |-> Split(units[i])]
           ut(k) == [i \in 1..k |-> UnitText(units[i])]
           N == {k \in Nat : k <= n => /\ FlattenSeq(sp(k)) \in Seq(Part)
                                       /\ FlattenSeq(SegsOf(FlattenSeq(sp(k)))) = FlattenSeq(ut(k))}
<1>0. n \in Nat /\ DOMAIN units = 1..n /\ \A i \in 1..n : units[i] \in Unit
  BY LenProperties, ElementOfSeq
<1>1. ASSUME NEW k \in Nat, k <= n
      PROVE  /\ sp(k) \in [1..k -> Seq(Part)] /\ ut(k) \in [1..k -> Seq(Spot)]
  <2>1. \A i \in 1..k : units[i] \in Unit
    <3>1. \A i \in 1..k : i \in 1..n
      BY <1>0, <1>1
    <3> QED BY <1>0, <3>1
  <2> QED BY <2>1, SplitParts, UnitTextType
<1> HIDE DEF n
<1>2. 0 \in N
  <2>1. sp(0) = <<>> /\ ut(0) = <<>>
    OBVIOUS
  <2>2. SegsOf(<<>>) = <<>>
    BY DEF SegsOf
  <2>3. FlattenSeq(sp(0)) = <<>> /\ FlattenSeq(ut(0)) = <<>> /\ FlattenSeq(SegsOf(<<>>)) = <<>>
    <3>1. FlattenSeq(<<>>) = <<>>
      BY FlattenNone
    <3> HIDE DEF sp, ut
    <3> QED BY <2>1, <2>2, <3>1
  <2> HIDE DEF sp, ut
  <2>4. FlattenSeq(SegsOf(FlattenSeq(sp(0)))) = FlattenSeq(ut(0)) /\ FlattenSeq(sp(0)) \in Seq(Part)
    <3>1. <<>> \in Seq(Part)
      BY EmptySeq
    <3> QED BY <2>3, <3>1
  <2> QED BY <2>4
<1>3. ASSUME NEW k \in Nat, k \in N PROVE k + 1 \in N
  <2> HIDE DEF sp, ut
  <2>1. SUFFICES ASSUME k + 1 <= n
                 PROVE  /\ FlattenSeq(sp(k + 1)) \in Seq(Part)
                        /\ FlattenSeq(SegsOf(FlattenSeq(sp(k + 1)))) = FlattenSeq(ut(k + 1))
    OBVIOUS
  <2>2. k <= n /\ k + 1 \in Nat /\ k + 1 \in 1..n
    BY <1>0, <2>1
  <2>3. /\ FlattenSeq(sp(k)) \in Seq(Part)
        /\ FlattenSeq(SegsOf(FlattenSeq(sp(k)))) = FlattenSeq(ut(k))
    BY <1>3, <2>2
  <2> HIDE DEF N
  <2>4. /\ sp(k) \in [1..k -> Seq(Part)] /\ sp(k + 1) \in [1 .. k + 1 -> Seq(Part)]
        /\ ut(k) \in [1..k -> Seq(Spot)] /\ ut(k + 1) \in [1 .. k + 1 -> Seq(Spot)]
    BY <1>1, <2>1, <2>2
  <2>5. /\ \A i \in 1..k : sp(k + 1)[i] = sp(k)[i] /\ ut(k + 1)[i] = ut(k)[i]
        /\ sp(k + 1)[k + 1] = Split(units[k + 1]) /\ ut(k + 1)[k + 1] = UnitText(units[k + 1])
    BY DEF sp, ut
  <2>6. FlattenSeq(sp(k + 1)) = FlattenSeq(sp(k)) \o Split(units[k + 1])
    <3>1. FlattenSeq(sp(k + 1)) = FlattenSeq(sp(k)) \o sp(k + 1)[k + 1]
      BY <2>4, <2>5, FlattenGrows
    <3> QED BY <2>5, <3>1
  <2>7. FlattenSeq(ut(k + 1)) = FlattenSeq(ut(k)) \o UnitText(units[k + 1])
    <3>1. FlattenSeq(ut(k + 1)) = FlattenSeq(ut(k)) \o ut(k + 1)[k + 1]
      BY <2>4, <2>5, FlattenGrows
    <3> QED BY <2>5, <3>1
  <2>8. /\ Split(units[k + 1]) \in Seq(Part)
        /\ FlattenSeq(SegsOf(Split(units[k + 1]))) = UnitText(units[k + 1])
    BY <1>0, <2>2, SplitParts
  <2>9. FlattenSeq(sp(k + 1)) \in Seq(Part)
    BY <2>3, <2>6, <2>8, ConcatProperties
  <2>10. FlattenSeq(SegsOf(FlattenSeq(sp(k)) \o Split(units[k + 1])))
           = FlattenSeq(SegsOf(FlattenSeq(sp(k)))) \o FlattenSeq(SegsOf(Split(units[k + 1])))
    BY <2>3, <2>8, SegsJoin
  <2> QED BY <2>3, <2>6, <2>7, <2>8, <2>9, <2>10
<1>4. n \in N
  <2> HIDE DEF N
  <2> QED BY <1>0, <1>2, <1>3, SetInduction
<1>5. ps = FlattenSeq(sp(n)) /\ Tiles(units) = FlattenSeq(ut(n))
  BY <1>0 DEF Tiles, n
<1> HIDE DEF sp, ut
<1> QED BY <1>0, <1>4, <1>5

-----------------------------------------------------------------------------
(* Parsing a document *)

Tiling ==
  /\ text \in Texts
  /\ pc = "reflow" => Reflowed
  /\ pc = "split" => units \in Seq(Unit) /\ Tiles(units) = Segments(1, Len(text))
  /\ pc \notin {"reflow", "split"} =>
       /\ parts \in Seq(Part)
       /\ FlattenSeq(SegsOf(parts)) = Segments(1, Len(text))
       /\ Len(nodes) <= Len(parts)
       /\ \A n \in 1..Len(nodes) : nodes[n].segs = parts[n].segs
  /\ Parsed => Len(nodes) = Len(parts)

ParseInv == TreeInv /\ Tiling

\* Past parsing the document stays as it is.
LEMMA LaterSteps ==
  ASSUME [CNext]_cvars
  PROVE  \/ Parse
         \/ UNCHANGED parse /\ (pc' = pc \/ (Parsed /\ Parsed'))
<1>1. CASE ENext
  <2>1. Lexicon => UNCHANGED parse /\ Parsed /\ Parsed'
    BY DEF Lexicon, Parsed
  <2>2. Patterns => UNCHANGED parse /\ Parsed /\ Parsed'
    BY DEF Patterns, Parsed
  <2>3. Merge => UNCHANGED parse /\ Parsed /\ Parsed'
    BY DEF Merge, Parsed
  <2> QED BY <1>1, <2>1, <2>2, <2>3 DEF ENext, Read
<1>2. CASE Plan
  <2>1. BeginPlan => UNCHANGED parse /\ Parsed /\ Parsed'
    BY DEF BeginPlan, Parsed
  <2>2. SkipFootnote \/ OpenSection \/ Continue => UNCHANGED parse /\ pc' = pc
    BY DEF SkipFootnote, OpenSection, Continue, vars
  <2>3. EndOfNodes => UNCHANGED parse /\ Parsed /\ Parsed'
    BY DEF EndOfNodes, Parsed
  <2>4. ApplyGate => UNCHANGED parse /\ Parsed /\ Parsed'
    BY DEF ApplyGate, Parsed
  <2> QED BY <1>2, <2>1, <2>2, <2>3, <2>4 DEF Plan
<1>3. CASE DetectConflicts
  BY <1>3 DEF DetectConflicts, Parsed
<1>4. CASE UNCHANGED cvars
  BY <1>4 DEF cvars, wvars, vars
<1> QED BY <1>1, <1>2, <1>3, <1>4 DEF CNext

LEMMA ParseInvInit == CInit => ParseInv
<1> SUFFICES ASSUME CInit PROVE ParseInv
  OBVIOUS
<1>1. /\ text \in Texts /\ pc = "reflow" /\ next = 1 /\ open = NoUnit
      /\ units = <<>> /\ parts = <<>> /\ stack = <<>> /\ nodes = <<>>
  BY DEF CInit, WInit, EInit, Init
<1>2. Len(text) \in Nat
  BY <1>1, TextType
<1>3. Tree
  <2>1. nodes \in Seq({}) /\ stack \in Seq(Nat) /\ Len(nodes) = 0 /\ Len(stack) = 0
    BY <1>1
  <2> QED BY <2>1 DEF Tree, OpenNodes
<1>4. Tiles(units) = <<>>
  <2>1. [i \in 1..Len(units) |-> UnitText(units[i])] = <<>>
    BY <1>1
  <2>2. FlattenSeq(<<>>) = <<>>
    BY FlattenNone
  <2> QED BY <2>1, <2>2 DEF Tiles
<1>5. Segments(1, next - 1) = <<>>
  <2>1. PICK zero \in Nat : zero = 0
    OBVIOUS
  <2>2. Segments(zero + 1, zero) = <<>>
    BY <1>1, NoSegments
  <2>3. zero + 1 = 1 /\ next - 1 = zero
    BY <1>1, <2>1
  <2> QED BY <2>2, <2>3
<1>6. Reflowed
  <2>1. next \in 1 .. Len(text) + 1 /\ units \in Seq(Unit)
    BY <1>1, <1>2
  <2> QED BY <1>1, <1>4, <1>5, <2>1 DEF Reflowed
<1> QED BY <1>1, <1>3, <1>6 DEF ParseInv, TreeInv, Tiling, Parsed

LEMMA ParseInvNext == ParseInv /\ [CNext]_cvars => ParseInv'
<1> SUFFICES ASSUME ParseInv, [CNext]_cvars PROVE ParseInv'
  OBVIOUS
<1>0. text \in Texts /\ Len(text) \in Nat
  BY TextType DEF ParseInv, Tiling
<1>1. ASSUME UNCHANGED parse, pc' = pc \/ (Parsed /\ Parsed') PROVE ParseInv'
  <2>1. /\ text' = text /\ next' = next /\ open' = open /\ units' = units /\ parts' = parts
        /\ stack' = stack /\ nodes' = nodes
    BY <1>1 DEF parse
  <2>2. Tree'
    BY <2>1 DEF ParseInv, TreeInv, Tree, OpenNodes, Placed, Over, HasLevel, Level
  <2>3. TreeInv'
    BY <1>1, <2>1, <2>2 DEF ParseInv, TreeInv, Parsed
  <2>4. /\ \A us : Tiles(us)' = Tiles(us)
        /\ \A a, b : Segments(a, b)' = Segments(a, b)
        /\ Unit' = Unit /\ Spot' = Spot /\ Part' = Part
    BY <2>1, TextFixed DEF Part
  <2>5. Reflowed => Reflowed'
    BY <2>1, <2>4 DEF Reflowed
  <2>6. Tiling'
    BY <1>1, <2>1, <2>4, <2>5 DEF ParseInv, Tiling, Parsed, SegsOf
  <2> QED BY <2>3, <2>6 DEF ParseInv
<1>2. ASSUME ReadBlank \/ ReadStarter \/ ReadText PROVE ParseInv'
  <2>1. /\ pc = "reflow" /\ pc' = pc /\ nodes' = nodes /\ stack' = stack /\ parts' = parts
    BY <1>2 DEF ReadBlank, ReadStarter, ReadText
  <2>2. text' \in Texts /\ Reflowed'
    BY <1>0, <1>2, <2>1, ReadTiles DEF ParseInv, Tiling
  <2>3. TreeInv'
    BY <2>1 DEF ParseInv, TreeInv, Tree, OpenNodes, Placed, Over, HasLevel, Level
  <2> QED BY <2>1, <2>2, <2>3 DEF ParseInv, Tiling, Parsed
<1>3. CASE EndOfText
  <2>1. /\ pc = "reflow" /\ pc' = "split" /\ nodes' = nodes /\ stack' = stack /\ parts' = parts
        /\ text' = text /\ units' = Flushed /\ next \notin DOMAIN text
    BY <1>3 DEF EndOfText
  <2>2. Flushed \in Seq(Unit) /\ Tiles(Flushed) = Segments(1, next - 1)
    BY <1>0, <2>1, FlushedTiles DEF ParseInv, Tiling
  <2>3. next - 1 = Len(text)
    BY <1>0, <2>1, TextType DEF ParseInv, Tiling, Reflowed
  <2>4. TreeInv'
    BY <2>1 DEF ParseInv, TreeInv, Tree, OpenNodes, Placed, Over, HasLevel, Level
  <2>5. /\ \A us : Tiles(us)' = Tiles(us)
        /\ \A a, b : Segments(a, b)' = Segments(a, b)
        /\ Unit' = Unit
    BY <2>1, TextFixed
  <2> QED BY <1>0, <2>1, <2>2, <2>3, <2>4, <2>5 DEF ParseInv, Tiling, Parsed
<1>4. CASE SplitUnits
  <2>1. /\ pc = "split" /\ pc' = "nest" /\ nodes' = nodes /\ stack' = stack /\ text' = text
        /\ parts' = FlattenSeq([i \in DOMAIN units |-> Split(units[i])])
    BY <1>4 DEF SplitUnits
  <2>2. nodes = <<>> /\ stack = <<>> /\ Len(nodes) = 0 /\ Len(stack) = 0
    BY <2>1 DEF ParseInv, TreeInv
  <2>3. TreeInv'
    <3>1. nodes' \in Seq({}) /\ stack' \in Seq(Nat) /\ Len(nodes') = 0 /\ Len(stack') = 0
      BY <2>1, <2>2
    <3> QED BY <2>1, <3>1 DEF TreeInv, Tree, OpenNodes
  <2>4. parts' \in Seq(Part) /\ FlattenSeq(SegsOf(parts')) = Segments(1, Len(text))
    BY <1>0, <2>1, SplitTiles DEF ParseInv, Tiling
  <2>5. (\A a, b : Segments(a, b)' = Segments(a, b)) /\ Part' = Part
    BY <2>1, TextFixed DEF Part
  <2>6. Len(nodes') <= Len(parts') /\ 1..Len(nodes') = {}
    BY <2>1, <2>2, <2>4, LenProperties
  <2>7. SegsOf(parts)' = SegsOf(parts')
    BY DEF SegsOf
  <2> QED BY <1>0, <2>1, <2>3, <2>4, <2>5, <2>6, <2>7 DEF ParseInv, Tiling, Parsed
<1>5. CASE Nest
  <2> DEFINE n == Len(nodes) + 1
             node == [kind |-> NodeKind(parts[n].kind), segs |-> parts[n].segs,
                      parent |-> IF Enclosing(parts[n].kind) = <<>> THEN 0
                                 ELSE Last(Enclosing(parts[n].kind))]
  <2>1. /\ pc = "nest" /\ pc' = pc /\ text' = text /\ parts' = parts
        /\ Len(nodes) < Len(parts) /\ nodes' = Append(nodes, node)
    BY <1>5 DEF Nest
  <2>2. PICK S : nodes \in Seq(S)
    BY DEF ParseInv, TreeInv, Tree
  <2>3. node.segs = parts[n].segs
    OBVIOUS
  <2> HIDE DEF node
  <2>4. /\ Len(nodes) \in Nat /\ Len(nodes') = Len(nodes) + 1
        /\ \A i \in 1..Len(nodes) : nodes'[i] = nodes[i]
        /\ nodes'[n] = node
    BY <2>1, <2>2, OneMore
  <2>5. TreeInv'
    <3>1. Tree'
      BY <1>5, NestKeepsTree DEF ParseInv, TreeInv
    <3> QED BY <2>1, <3>1 DEF TreeInv
  <2>6. /\ parts \in Seq(Part) /\ FlattenSeq(SegsOf(parts)) = Segments(1, Len(text))
        /\ \A i \in 1..Len(nodes) : nodes[i].segs = parts[i].segs
    BY <2>1 DEF ParseInv, Tiling
  <2>7. (\A a, b : Segments(a, b)' = Segments(a, b)) /\ Part' = Part
    BY <2>1, TextFixed DEF Part
  <2>8. Len(nodes') <= Len(parts)
    BY <2>1, <2>4, <2>6, LenProperties
  <2>9. ASSUME NEW i \in 1..Len(nodes') PROVE nodes'[i].segs = parts'[i].segs
    <3>1. i = n \/ i \in 1..Len(nodes)
      BY <2>4
    <3> QED BY <2>1, <2>3, <2>4, <2>6, <3>1
  <2>10. SegsOf(parts)' = SegsOf(parts)
    BY <2>1 DEF SegsOf
  <2> QED BY <1>0, <2>1, <2>5, <2>6, <2>7, <2>8, <2>9, <2>10 DEF ParseInv, Tiling, Parsed
<1>6. CASE Gate
  <2>1. /\ UNCHANGED parse /\ pc = "nest" /\ Parsed' /\ Len(nodes) = Len(parts)
        /\ pc' \notin {"reflow", "split"} /\ pc' # "reflow" /\ pc' # "split"
    BY <1>6 DEF Gate, Parsed
  <2>2. /\ text' = text /\ next' = next /\ open' = open /\ units' = units /\ parts' = parts
        /\ stack' = stack /\ nodes' = nodes
    BY <2>1 DEF parse
  <2>3. TreeInv'
    BY <2>1, <2>2 DEF ParseInv, TreeInv, Tree, OpenNodes, Placed, Over, HasLevel, Level
  <2>4. (\A a, b : Segments(a, b)' = Segments(a, b)) /\ Part' = Part
    BY <2>2, TextFixed DEF Part
  <2> QED BY <1>0, <2>1, <2>2, <2>3, <2>4 DEF ParseInv, Tiling, Parsed, SegsOf
<1> QED BY <1>1, <1>2, <1>3, <1>4, <1>5, <1>6, LaterSteps DEF Parse

\* PlainTextParser.parse builds one tree over the whole text, in every state on
\* the way and ever after.
THEOREM DocumentsParse == CSpec => []ParseInv
BY ParseInvInit, ParseInvNext, PTL DEF CSpec

\* However lines are absorbed, wrapped and split, the nodes are the whole text,
\* every segment once and in order.
THEOREM NodesAreTheText == CSpec => []NodesTile
<1>1. ParseInv => NodesTile
  <2> SUFFICES ASSUME ParseInv, Parsed
               PROVE  FlattenSeq([n \in DOMAIN nodes |-> nodes[n].segs]) = Segments(1, Len(text))
    BY DEF NodesTile
  <2>1. /\ parts \in Seq(Part) /\ Len(nodes) = Len(parts)
        /\ FlattenSeq(SegsOf(parts)) = Segments(1, Len(text))
        /\ \A n \in 1..Len(nodes) : nodes[n].segs = parts[n].segs
    BY DEF ParseInv, Tiling, Parsed
  <2>2. DOMAIN nodes = 1..Len(nodes)
    BY LenProperties DEF ParseInv, TreeInv, Tree
  <2>3. [n \in DOMAIN nodes |-> nodes[n].segs] = SegsOf(parts)
    BY <2>1, <2>2 DEF SegsOf
  <2> QED BY <2>1, <2>3
<1> QED BY <1>1, DocumentsParse, PTL

\* Every node is put under the innermost heading or enumerator before it.
THEOREM ParentsEnclose == CSpec => []ParentEncloses
<1>1. ParseInv => ParentEncloses
  <2> SUFFICES ASSUME ParseInv, NEW n \in DOMAIN nodes
               PROVE  /\ Over(n) = {} => nodes[n].parent = 0
                      /\ Over(n) # {} => /\ nodes[n].parent \in Over(n)
                                         /\ \A m \in Over(n) : m <= nodes[n].parent
    BY DEF ParentEncloses, Over, HasLevel, Level
  <2>1. n \in 1..Len(nodes)
    BY LenProperties DEF ParseInv, TreeInv, Tree
  <2> QED BY <2>1 DEF ParseInv, TreeInv, Tree, Placed
<1> QED BY <1>1, DocumentsParse, PTL

-----------------------------------------------------------------------------
(* Nodes *)

\* What the invariant says of a node's place, kind and text.
LEMMA NodeFacts ==
  ASSUME ParseInv
  PROVE  /\ Len(nodes) \in Nat /\ DOMAIN nodes = 1..Len(nodes) /\ text \in Texts
         /\ \A n \in DOMAIN nodes :
              /\ nodes[n].kind = NodeKind(parts[n].kind)
              /\ nodes[n].parent \in 0 .. n - 1
              /\ nodes[n].parent # 0 => HasLevel(nodes[n].parent)
              /\ nodes[n].segs \in Seq(Spot)
<1>1. Len(nodes) \in Nat /\ DOMAIN nodes = 1..Len(nodes)
  BY LenProperties DEF ParseInv, TreeInv, Tree
<1>2. ASSUME NEW n \in 1..Len(nodes)
      PROVE  /\ nodes[n].kind = NodeKind(parts[n].kind)
             /\ nodes[n].parent \in 0 .. n - 1
             /\ nodes[n].parent # 0 => HasLevel(nodes[n].parent)
  BY <1>1, <1>2 DEF ParseInv, TreeInv, Tree, Placed, Over
<1>3. ASSUME NEW n \in 1..Len(nodes) PROVE nodes[n].segs \in Seq(Spot)
  <2>1. pc \notin {"reflow", "split"}
    <3>1. nodes # <<>>
      BY <1>1, <1>3
    <3> QED BY <3>1 DEF ParseInv, TreeInv
  <2>2. parts \in Seq(Part) /\ nodes[n].segs = parts[n].segs /\ n \in 1..Len(parts)
    <3>1. /\ parts \in Seq(Part) /\ Len(nodes) <= Len(parts)
          /\ \A k \in 1..Len(nodes) : nodes[k].segs = parts[k].segs
      BY <2>1 DEF ParseInv, Tiling
    <3> QED BY <1>1, <1>3, <3>1, LenProperties
  <2>3. parts[n] \in Part
    BY <2>2, ElementOfSeq
  <2> QED BY <2>2, <2>3 DEF Part
<1>4. text \in Texts
  BY DEF ParseInv, Tiling
<1> QED BY <1>1, <1>2, <1>3, <1>4

\* Headings have the lowest levels; footnotes have none.
LEMMA Kinds ==
  ASSUME NEW kind
  PROVE  /\ NodeKind(kind) \in {"structural", "footnote", "proposition"}
         /\ NodeKind(kind) = "structural" => Levelled(kind) /\ Levels[kind] \in 0..1
         /\ NodeKind(kind) = "footnote" => ~Levelled(kind)
         /\ NodeKind(kind) = "proposition" /\ Levelled(kind) => Levels[kind] \in 2..3
<1>1. CASE kind \in Structural
  <2>1. NodeKind(kind) = "structural"
    BY <1>1 DEF NodeKind, Structural, Footnote
  <2>2. Levelled(kind) /\ Levels[kind] \in 0..1
    BY <1>1 DEF Structural, Levelled, Levels
  <2> QED BY <2>1, <2>2
<1>2. CASE kind \in Footnote
  <2>1. NodeKind(kind) = "footnote"
    BY <1>2 DEF NodeKind, Footnote, Structural
  <2>2. ~Levelled(kind)
    BY <1>2 DEF Footnote, Levelled, Levels
  <2> QED BY <2>1, <2>2
<1>3. CASE kind \notin Structural /\ kind \notin Footnote
  <2>1. NodeKind(kind) = "proposition"
    BY <1>3 DEF NodeKind
  <2>2. Levelled(kind) => Levels[kind] \in 2..3
    BY <1>3 DEF Structural, Levelled, Levels
  <2> QED BY <2>1, <2>2
<1> QED BY <1>1, <1>2, <1>3

-----------------------------------------------------------------------------
(* The section a provision stands in *)

IsHeading(k) == nodes[k].kind = "structural"

\* No heading stands strictly between the two.
NoHeading(a, b) == \A k \in DOMAIN nodes : a < k /\ k < b => ~IsHeading(k)

\* One step up from a provision: no heading is passed, and the level falls.
LEMMA StepUp ==
  ASSUME ParseInv, NEW n \in Provisions, NEW p, p = nodes[n].parent
  PROVE  /\ n \in DOMAIN nodes /\ n \in Nat /\ p \in Nat /\ p < n
         /\ NoHeading(p, n)
         /\ p # 0 => /\ p \in DOMAIN nodes
                     /\ IsHeading(p) \/ p \in Provisions
                     /\ HasLevel(p) /\ Level(p) \in Nat
                     /\ p \in Provisions => Level(p) \in 2..3
                     /\ HasLevel(n) => Level(p) < Level(n)
<1>1. /\ Len(nodes) \in Nat /\ DOMAIN nodes = 1..Len(nodes)
      /\ \A m \in DOMAIN nodes : nodes[m].kind = NodeKind(parts[m].kind)
      /\ n \in 1..Len(nodes) /\ p \in 0 .. n - 1
  BY NodeFacts DEF Provisions
<1>2. Placed(n)
  BY <1>1 DEF ParseInv, TreeInv, Tree
<1>3. HasLevel(n) => Level(n) \in 2..3
  <2>1. NodeKind(parts[n].kind) = "proposition"
    BY <1>1 DEF Provisions
  <2> QED BY <2>1, Kinds DEF HasLevel, Level
<1>4. ASSUME NEW k \in DOMAIN nodes, k < n, IsHeading(k) PROVE k <= p
  <2>1. HasLevel(k) /\ Level(k) \in 0..1
    <3>1. NodeKind(parts[k].kind) = "structural"
      BY <1>1, <1>4 DEF IsHeading
    <3> QED BY <3>1, Kinds DEF HasLevel, Level
  <2>2. k \in 1 .. n - 1
    BY <1>1, <1>4
  <2>3. k \in Over(n)
    BY <1>3, <2>1, <2>2 DEF Over
  <2> QED BY <1>2, <2>3 DEF Placed
<1>5. NoHeading(p, n)
  BY <1>1, <1>4 DEF NoHeading
<1>6. ASSUME p # 0
      PROVE  /\ p \in DOMAIN nodes
             /\ IsHeading(p) \/ p \in Provisions
             /\ HasLevel(p) /\ Level(p) \in Nat
             /\ p \in Provisions => Level(p) \in 2..3
             /\ HasLevel(n) => Level(p) < Level(n)
  <2>1. p \in Over(n)
    BY <1>2, <1>6 DEF Placed
  <2>2. p \in DOMAIN nodes /\ HasLevel(p) /\ (HasLevel(n) => Level(p) < Level(n))
    BY <1>1, <2>1 DEF Over
  <2>3. nodes[p].kind = NodeKind(parts[p].kind)
    BY <1>1, <2>2
  <2>4. NodeKind(parts[p].kind) # "footnote"
    BY <2>2, Kinds DEF HasLevel
  <2>5. IsHeading(p) \/ p \in Provisions
    BY <2>2, <2>3, <2>4, Kinds DEF IsHeading, Provisions
  <2>6. p \in Provisions => Level(p) \in 2..3
    BY <2>2, <2>3, Kinds DEF HasLevel, Level, Provisions
  <2>7. Level(p) \in Nat
    BY <2>2, LevelType DEF HasLevel, Level
  <2> QED BY <2>2, <2>5, <2>6, <2>7
<1> QED BY <1>1, <1>5, <1>6

\* The walk up from n.
Walk(f, n) ==
  f = [i \in 0..MaxAncestorWalk |->
         IF i = 0 THEN n ELSE IF f[i - 1] = 0 THEN 0 ELSE nodes[f[i - 1]].parent]

LEMMA WalkExists ==
  ASSUME NEW n
  PROVE  \E f : Walk(f, n)
<1> DEFINE Fits(f, k) == \A i \in 0..k :
             f[i] = IF i = 0 THEN n ELSE IF f[i - 1] = 0 THEN 0 ELSE nodes[f[i - 1]].parent
           N == {k \in Nat : \E f : f = [i \in 0..k |-> f[i]] /\ Fits(f, k)}
<1>1. 0 \in N
  <2> DEFINE f == [i \in 0..0 |-> n]
  <2>1. f = [i \in 0..0 |-> f[i]]
    OBVIOUS
  <2>2. Fits(f, 0)
    OBVIOUS
  <2> HIDE DEF f, Fits
  <2> QED BY <2>1, <2>2
<1>2. ASSUME NEW k \in Nat, k \in N PROVE k + 1 \in N
  <2> HIDE DEF Fits
  <2>1. PICK f : f = [i \in 0..k |-> f[i]] /\ Fits(f, k)
    BY <1>2
  <2> DEFINE g == [i \in 0 .. k + 1 |-> IF i = k + 1 THEN (IF f[k] = 0 THEN 0 ELSE nodes[f[k]].parent)
                                        ELSE f[i]]
  <2>2. g = [i \in 0 .. k + 1 |-> g[i]]
    OBVIOUS
  <2>3. \A i \in 0..k : g[i] = f[i] /\ (i # 0 => i - 1 \in 0..k /\ g[i - 1] = f[i - 1])
    OBVIOUS
  <2>4. /\ g[k + 1] = (IF f[k] = 0 THEN 0 ELSE nodes[f[k]].parent) /\ g[k] = f[k]
        /\ (k + 1) - 1 = k /\ k + 1 # 0
    OBVIOUS
  <2> HIDE DEF g
  <2>5. ASSUME NEW i \in 0 .. k + 1
        PROVE  g[i] = IF i = 0 THEN n ELSE IF g[i - 1] = 0 THEN 0 ELSE nodes[g[i - 1]].parent
    <3>1. CASE i = k + 1
      BY <2>4, <3>1
    <3>2. CASE i # k + 1
      <4>1. i \in 0..k
        BY <3>2
      <4> QED BY <2>1, <2>3, <4>1 DEF Fits
    <3> QED BY <3>1, <3>2
  <2>6. Fits(g, k + 1)
    BY <2>5 DEF Fits
  <2> QED BY <2>2, <2>6
<1>3. MaxAncestorWalk \in N
  <2>1. MaxAncestorWalk \in Nat
    BY DEF MaxAncestorWalk
  <2> HIDE DEF N
  <2> QED BY <1>1, <1>2, <2>1, SetInduction
<1>4. PICK f : f = [i \in 0..MaxAncestorWalk |-> f[i]] /\ Fits(f, MaxAncestorWalk)
  BY <1>3
<1>5. f = [i \in 0..MaxAncestorWalk |->
             IF i = 0 THEN n ELSE IF f[i - 1] = 0 THEN 0 ELSE nodes[f[i - 1]].parent]
  BY <1>4
<1> QED BY <1>5 DEF Walk

\* A few steps up from a provision is the heading it stands under, or nothing.
LEMMA Climb ==
  ASSUME ParseInv, NEW n \in Provisions, NEW f, Walk(f, n)
  PROVE  \E j \in 1..3 :
           /\ f[j] \in Nat /\ f[j] < n /\ NoHeading(f[j], n)
           /\ f[j] # 0 => f[j] \in DOMAIN nodes /\ IsHeading(f[j])
           /\ \A i \in 1 .. j - 1 : f[i] # 0 /\ ~IsHeading(f[i])
<1>1. /\ f[0] = n
      /\ \A i \in 0 .. 11 : f[i + 1] = IF f[i] = 0 THEN 0 ELSE nodes[f[i]].parent
  <2>1. /\ f[0] = n
        /\ \A i \in 1 .. 12 : f[i] = IF f[i - 1] = 0 THEN 0 ELSE nodes[f[i - 1]].parent
    BY DEF Walk, MaxAncestorWalk
  <2>2. ASSUME NEW i \in 0 .. 11
        PROVE  f[i + 1] = IF f[i] = 0 THEN 0 ELSE nodes[f[i]].parent
    <3>1. i + 1 \in 1 .. 12 /\ (i + 1) - 1 = i
      OBVIOUS
    <3> QED BY <2>1, <3>1
  <2> QED BY <2>1, <2>2
<1>2. \A m \in Provisions : m # 0
  BY NodeFacts DEF Provisions
<1>3. ASSUME NEW i \in 0 .. 11, f[i] \in Provisions,
             f[i] = n \/ (f[i] < n /\ NoHeading(f[i], n) /\ HasLevel(f[i]))
      PROVE  /\ f[i + 1] \in Nat /\ f[i + 1] < n /\ NoHeading(f[i + 1], n)
             /\ f[i + 1] # 0 =>
                  /\ f[i + 1] \in DOMAIN nodes
                  /\ IsHeading(f[i + 1]) \/ f[i + 1] \in Provisions
                  /\ HasLevel(f[i + 1])
                  /\ f[i + 1] \in Provisions => Level(f[i + 1]) \in 2..3
                  /\ HasLevel(f[i]) => Level(f[i + 1]) < Level(f[i])
  <2>1. f[i + 1] = nodes[f[i]].parent
    BY <1>1, <1>2, <1>3
  <2>2. PICK m, p : m = f[i] /\ p = f[i + 1]
    OBVIOUS
  <2>3. m \in Provisions /\ p = nodes[m].parent
    BY <1>3, <2>1, <2>2
  <2>4. /\ m \in DOMAIN nodes /\ m \in Nat /\ p \in Nat /\ p < m
        /\ NoHeading(p, m)
        /\ p # 0 => /\ p \in DOMAIN nodes
                    /\ IsHeading(p) \/ p \in Provisions
                    /\ HasLevel(p)
                    /\ p \in Provisions => Level(p) \in 2..3
                    /\ HasLevel(m) => Level(p) < Level(m)
    BY <2>3, StepUp
  <2>5. n \in Nat /\ DOMAIN nodes \subseteq Nat
    BY NodeFacts DEF Provisions
  <2>6. p < n /\ NoHeading(p, n)
    <3>1. CASE m = n
      BY <2>4, <3>1
    <3>2. CASE m < n /\ NoHeading(m, n)
      <4>1. ~IsHeading(m)
        BY <2>3 DEF IsHeading, Provisions
      <4> QED BY <2>4, <2>5, <3>2, <4>1 DEF NoHeading
    <3> QED BY <1>3, <2>2, <3>1, <3>2
  <2> QED BY <2>2, <2>4, <2>6
<1>4. \A m \in Provisions : ~IsHeading(m)
  BY DEF IsHeading, Provisions
<1>5. PICK x0, x1, x2, x3 : x0 = f[0] /\ x1 = f[1] /\ x2 = f[2] /\ x3 = f[3]
  OBVIOUS
<1> DEFINE Here(x) == /\ x \in Nat /\ x < n /\ NoHeading(x, n)
                      /\ x # 0 => /\ x \in DOMAIN nodes
                                  /\ IsHeading(x) \/ x \in Provisions
                                  /\ HasLevel(x)
                                  /\ x \in Provisions => Level(x) \in 2..3
<1>6. Here(x1)
  <2>1. 0 \in 0..11 /\ 0 + 1 = 1
    OBVIOUS
  <2> QED BY <1>1, <1>3, <1>5, <2>1
<1>7. x1 \in Provisions => Here(x2) /\ (x2 # 0 => Level(x2) < Level(x1))
  <2>1. 1 \in 0..11 /\ 1 + 1 = 2
    OBVIOUS
  <2> QED BY <1>2, <1>3, <1>5, <1>6, <2>1
<1>8. x1 \in Provisions /\ x2 \in Provisions =>
        Here(x3) /\ (x3 # 0 => Level(x3) < Level(x2))
  <2>1. 2 \in 0..11 /\ 2 + 1 = 3
    OBVIOUS
  <2> QED BY <1>2, <1>3, <1>5, <1>7, <2>1
<1>9. CASE x1 \notin Provisions
  <2>1. x1 # 0 => IsHeading(x1)
    BY <1>6, <1>9
  <2>2. 1 \in 1..3 /\ 1 .. 1 - 1 = {}
    OBVIOUS
  <2> QED BY <1>5, <1>6, <2>1, <2>2
<1>10. CASE x1 \in Provisions /\ x2 \notin Provisions
  <2>1. x2 # 0 => IsHeading(x2)
    BY <1>7, <1>10
  <2>2. 2 \in 1..3 /\ 1 .. 2 - 1 = {1}
    OBVIOUS
  <2>3. x1 # 0 /\ ~IsHeading(x1)
    BY <1>2, <1>4, <1>10
  <2> QED BY <1>5, <1>7, <1>10, <2>1, <2>2, <2>3
<1>11. CASE x1 \in Provisions /\ x2 \in Provisions
  <2>1. x3 \notin Provisions
    <3>1. SUFFICES ASSUME x3 \in Provisions PROVE FALSE
      OBVIOUS
    <3>2. x1 # 0 /\ x2 # 0 /\ x3 # 0
      BY <1>2, <1>11, <3>1
    <3>3. /\ Level(x1) \in 2..3 /\ Level(x2) \in 2..3 /\ Level(x3) \in 2..3
          /\ Level(x2) < Level(x1) /\ Level(x3) < Level(x2)
      BY <1>6, <1>7, <1>8, <1>11, <3>1, <3>2
    <3> HIDE DEF Here
    <3> QED BY <3>3
  <2>2. x3 # 0 => IsHeading(x3)
    BY <1>8, <1>11, <2>1
  <2>3. 3 \in 1..3 /\ 1 .. 3 - 1 = {1, 2}
    OBVIOUS
  <2>4. x1 # 0 /\ ~IsHeading(x1) /\ x2 # 0 /\ ~IsHeading(x2)
    BY <1>2, <1>4, <1>11
  <2> QED BY <1>5, <1>8, <1>11, <2>2, <2>3, <2>4
<1> QED BY <1>9, <1>10, <1>11

\* So the section a provision stands in is the last heading before it, if any.
LEMMA EnclosingIs ==
  ASSUME ParseInv, NEW n \in Provisions
  PROVE  \E h \in Nat : /\ EnclosingSection(n) = h /\ h < n /\ NoHeading(h, n)
                        /\ h # 0 => h \in DOMAIN nodes /\ IsHeading(h)
<1>1. PICK f : f = (CHOOSE g : Walk(g, n))
  OBVIOUS
<1>2. Walk(f, n)
  BY <1>1, WalkExists
<1> DEFINE found == {i \in 1..MaxAncestorWalk : f[i] # 0 /\ nodes[f[i]].kind = "structural"}
<1>3. EnclosingSection(n) = IF found = {} THEN 0 ELSE f[Min(found)]
  BY <1>1 DEF EnclosingSection, Walk
<1>4. PICK j \in 1..3 :
        /\ f[j] \in Nat /\ f[j] < n /\ NoHeading(f[j], n)
        /\ f[j] # 0 => f[j] \in DOMAIN nodes /\ IsHeading(f[j])
        /\ \A i \in 1 .. j - 1 : f[i] # 0 /\ ~IsHeading(f[i])
  BY <1>2, Climb
<1>5. j \in 1..MaxAncestorWalk
  BY DEF MaxAncestorWalk
<1>6. CASE f[j] # 0
  <2>1. j \in found
    BY <1>4, <1>5, <1>6 DEF IsHeading
  <2>2. found \in SUBSET Nat
    BY DEF MaxAncestorWalk
  <2>3. Min(found) \in found /\ Min(found) <= j
    BY <2>1, <2>2, MinIs
  <2>4. Min(found) \in Nat /\ Min(found) >= 1 /\ IsHeading(f[Min(found)])
    BY <2>3 DEF IsHeading, MaxAncestorWalk
  <2>5. Min(found) = j
    <3> HIDE DEF found
    <3> QED BY <1>4, <2>3, <2>4
  <2> HIDE DEF found
  <2> QED BY <1>3, <1>4, <1>6, <2>1, <2>5
<1>7. CASE f[j] = 0
  <2> DEFINE Z == {k \in Nat : j + k \in 0..MaxAncestorWalk => f[j + k] = 0}
  <2>1. 0 \in Z
    BY <1>7
  <2>2. ASSUME NEW k \in Nat, k \in Z PROVE k + 1 \in Z
    <3>1. SUFFICES ASSUME j + (k + 1) \in 0..MaxAncestorWalk PROVE f[j + (k + 1)] = 0
      OBVIOUS
    <3>2. PICK i : i = j + (k + 1)
      OBVIOUS
    <3>3. i \in 0..MaxAncestorWalk /\ i # 0 /\ i - 1 = j + k /\ j + k \in 0..MaxAncestorWalk
      BY <3>1, <3>2 DEF MaxAncestorWalk
    <3>4. f[i] = IF f[i - 1] = 0 THEN 0 ELSE nodes[f[i - 1]].parent
      BY <1>2, <3>3 DEF Walk
    <3>5. f[j + k] = 0
      BY <2>2, <3>3
    <3> QED BY <3>2, <3>3, <3>4, <3>5
  <2>3. Nat \subseteq Z
    <3> HIDE DEF Z
    <3> QED BY <2>1, <2>2, SetInduction
  <2>4. ASSUME NEW i \in found PROVE FALSE
    <3>1. i \in Nat /\ i >= 1 /\ i \in 0..MaxAncestorWalk /\ f[i] # 0 /\ IsHeading(f[i])
      BY DEF IsHeading, MaxAncestorWalk
    <3>2. CASE i < j
      BY <1>4, <3>1, <3>2
    <3>3. CASE i >= j
      <4>1. PICK k \in Nat : j + k = i
        <5>1. i - j \in Nat /\ j + (i - j) = i
          BY <3>1, <3>3
        <5> QED BY <5>1
      <4>2. k \in Z
        BY <2>3
      <4> QED BY <3>1, <4>1, <4>2
    <3> QED BY <3>1, <3>2, <3>3
  <2>5. found = {}
    <3> HIDE DEF found
    <3> QED BY <2>4
  <2> HIDE DEF found
  <2> QED BY <1>3, <1>4, <1>7, <2>5
<1> QED BY <1>6, <1>7

\* A sub-section that is found by its number stands in the section it was looked
\* up in.
LEMMA SubsectionIs ==
  ASSUME ParseInv, NEW s, NEW k, SubsectionOf(s, k) # 0
  PROVE  /\ s # 0 /\ SubsectionOf(s, k) \in Provisions
         /\ EnclosingSection(SubsectionOf(s, k)) = s
<1> DEFINE found == {m \in Provisions :
                       /\ Opening(m).shape = "subsec" /\ Opening(m).num = k
                       /\ EnclosingSection(m) = s}
<1>1. found \in SUBSET Nat
  BY NodeFacts DEF Provisions
<1> HIDE DEF found
<1>2. SubsectionOf(s, k) = IF s = 0 \/ found = {} THEN 0 ELSE Min(found)
  BY DEF SubsectionOf, found
<1>3. s # 0 /\ found # {} /\ SubsectionOf(s, k) = Min(found)
  BY <1>2
<1>4. Min(found) \in found
  BY <1>1, <1>3, MinIs
<1> QED BY <1>3, <1>4 DEF found

\* A bare sub-section number links within the section that cites it, whatever
\* stands in between (LegalDomain.extract_marker_edges).
THEOREM CitationsStay == CSpec => []CitationsStayHome
<1>1. ParseInv => CitationsStayHome
  <2>1. SUFFICES ASSUME ParseInv, NEW n \in Provisions, NEW c, c.of = "subsection",
                        c.section = 0, NEW t \in TargetsOf(n, c), NEW k \in DOMAIN nodes,
                        (t < k /\ k < n) \/ (n < k /\ k < t)
                 PROVE  nodes[k].kind # "structural"
    BY DEF CitationsStayHome
  <2>2. PICK i \in c.nums : t = SubsectionOf(EnclosingSection(n), i) /\ t # 0
    BY <2>1 DEF TargetsOf
  <2>3. t \in Provisions /\ EnclosingSection(t) = EnclosingSection(n) /\ EnclosingSection(n) # 0
    BY <2>1, <2>2, SubsectionIs
  <2>4. PICK h \in Nat : EnclosingSection(n) = h /\ h < n /\ NoHeading(h, n)
    BY <2>1, EnclosingIs
  <2>5. PICK g \in Nat : EnclosingSection(t) = g /\ g < t /\ NoHeading(g, t)
    BY <2>1, <2>3, EnclosingIs
  <2>6. n \in Nat /\ t \in Nat /\ k \in Nat
    BY <2>1, <2>3, NodeFacts DEF Provisions
  <2> QED BY <2>1, <2>3, <2>4, <2>5, <2>6 DEF NoHeading, IsHeading
<1> QED BY <1>1, DocumentsParse, PTL

-----------------------------------------------------------------------------
(* The edges of ingest *)

\* What an edge that means something may run to.
Linked(n) == n \in DOMAIN nodes /\ nodes[n].kind # "footnote"

LEMMA ProvisionsLink == ParseInv => \A n \in Provisions : Linked(n) /\ n # 0
BY NodeFacts DEF Provisions, Linked

LEMMA ContentFacts ==
  ASSUME ParseInv, NEW n \in DOMAIN nodes, NEW i \in DOMAIN nodes[n].segs
  PROVE  ContentOf(n, i) \in Content
<1>1. /\ text \in Texts /\ text \in Seq(Line) /\ DOMAIN text = 1..Len(text)
      /\ nodes[n].segs \in Seq(Spot)
  BY NodeFacts, TextsAssumption, LenProperties
<1>2. PICK s : s = nodes[n].segs[i]
  OBVIOUS
<1>3. s \in Spot
  BY <1>1, <1>2, ElementOfSeq, LenProperties
<1>4. s[1] \in DOMAIN text /\ s[2] \in DOMAIN text[s[1]].segs
  BY <1>3 DEF Spot
<1>5. text[s[1]] \in Line
  BY <1>1, <1>4, ElementOfSeq
<1>6. text[s[1]].segs \in Seq(Content)
  BY <1>5 DEF Line
<1>7. text[s[1]].segs[s[2]] \in Content
  BY <1>4, <1>6, ElementOfSeq, LenProperties
<1> QED BY <1>2, <1>7 DEF ContentOf

LEMMA MarkersMatch ==
  ASSUME ParseInv, NEW n \in Provisions, NEW x \in FirstMatches(n)
  PROVE  x[1].marker \in DOMAIN Markers
<1>1. PICK m, i : /\ x = <<m, i>> /\ i \in DOMAIN nodes[n].segs
                  /\ m \in UNION {Says[c] : c \in Contents(n)}
  BY DEF FirstMatches, Matches
<1>2. PICK k \in DOMAIN nodes[n].segs : m \in Says[ContentOf(n, k)]
  BY <1>1 DEF Contents
<1>3. ContentOf(n, k) \in Content
  BY ContentFacts DEF Provisions
<1>4. m.marker \in DOMAIN Markers
  BY <1>2, <1>3, SaysAssumption
<1> QED BY <1>1, <1>4

LEMMA MarkerNames ==
  \A name \in DOMAIN Markers :
    Markers[name].confidence \in 0..100 /\ name \notin DOMAIN UnitType
BY DEF Markers, Mark, UnitType

\* The neighbours of a provision, and what a number stands for.
LEMMA PrecedingLinks ==
  ASSUME ParseInv, NEW n \in Provisions, Preceding(n) # 0
  PROVE  Linked(Preceding(n))
<1> DEFINE before == {m \in Siblings(n) : m < n}
<1>1. n \in DOMAIN nodes /\ n \in Nat /\ DOMAIN nodes \subseteq Nat
  BY NodeFacts DEF Provisions
<1>2. Preceding(n) = IF before = {} THEN nodes[n].parent ELSE Max(before)
  BY DEF Preceding
<1>3. CASE before = {}
  <2>1. PICK p : p = nodes[n].parent
    OBVIOUS
  <2>2. p # 0 /\ Preceding(n) = p
    BY <1>2, <1>3, <2>1
  <2>3. p \in DOMAIN nodes /\ (IsHeading(p) \/ p \in Provisions)
    BY <2>1, <2>2, StepUp
  <2> QED BY <2>2, <2>3 DEF Linked, IsHeading, Provisions
<1>4. CASE before # {}
  <2>1. before \in SUBSET Nat /\ \A m \in before : m <= n
    BY <1>1 DEF Siblings
  <2>2. Max(before) \in before
    <3> HIDE DEF before
    <3> QED BY <1>1, <1>4, <2>1, MaxIs
  <2>3. Preceding(n) = Max(before)
    <3> HIDE DEF before
    <3> QED BY <1>2, <1>4
  <2>4. PICK m : m = Max(before)
    OBVIOUS
  <2>5. m \in before
    <3> HIDE DEF before
    <3> QED BY <2>2, <2>4
  <2>6. Linked(m)
    BY <2>5 DEF Siblings, Linked
  <2> HIDE DEF before
  <2> QED BY <2>3, <2>4, <2>6
<1> QED BY <1>3, <1>4

LEMMA FollowingLinks ==
  ASSUME ParseInv, NEW n \in Provisions, Following(n) # 0
  PROVE  Linked(Following(n))
<1> DEFINE after == {m \in Siblings(n) : m > n}
<1>1. DOMAIN nodes \subseteq Nat
  BY NodeFacts
<1>2. Following(n) = IF after = {} THEN 0 ELSE Min(after)
  BY DEF Following
<1>3. after \in SUBSET Nat
  BY <1>1 DEF Siblings
<1>4. PICK m : m = Min(after)
  OBVIOUS
<1>5. m \in after /\ Following(n) = m
  <2> HIDE DEF after
  <2> QED BY <1>2, <1>3, <1>4, MinIs
<1>6. Linked(m)
  BY <1>5 DEF Siblings, Linked
<1> HIDE DEF after
<1> QED BY <1>5, <1>6

LEMMA SectionLinks ==
  ASSUME ParseInv, NEW num, SectionOf(num) # 0
  PROVE  Linked(SectionOf(num))
<1> DEFINE found == {n \in DOMAIN nodes :
                       nodes[n].kind = "structural" /\ Opening(n).num = num}
<1>1. SectionOf(num) = IF num = 0 \/ found = {} THEN 0 ELSE Max(found)
  BY DEF SectionOf
<1>2. found \in SUBSET Nat /\ Len(nodes) \in Nat /\ \A n \in found : n <= Len(nodes)
  BY NodeFacts
<1>3. PICK m : m = Max(found)
  OBVIOUS
<1>4. m \in found /\ SectionOf(num) = m
  <2> HIDE DEF found
  <2> QED BY <1>1, <1>2, <1>3, MaxIs
<1>5. Linked(m)
  BY <1>4 DEF Linked
<1> HIDE DEF found
<1> QED BY <1>4, <1>5

LEMMA TargetsLink ==
  ASSUME ParseInv, NEW n \in Provisions, NEW marker, NEW cites,
         marker.hint \in {"preceding", "following", "referenced"},
         NEW t \in Targets(n, marker, cites)
  PROVE  Linked(t)
<1>1. CASE marker.hint = "preceding"
  BY <1>1, PrecedingLinks DEF Targets
<1>2. CASE marker.hint = "following"
  BY <1>2, FollowingLinks DEF Targets
<1>3. CASE marker.hint = "referenced"
  <2>1. PICK c : t \in TargetsOf(n, c)
    BY <1>3 DEF Targets
  <2>2. PICK k, s : t # 0 /\ (t = SectionOf(k) \/ t = SubsectionOf(s, k))
    BY <2>1 DEF TargetsOf
  <2> QED BY <2>2, SectionLinks, SubsectionIs, ProvisionsLink
<1> QED BY <1>1, <1>2, <1>3

\* Every edge of ingest is of one kind or another.
TreeEdge(n) == Made(<<"part_of", n, nodes[n].parent>>, n, "part_of", nodes[n].parent,
                    "structural", 100, 0)
UnitEdge(n) ==
  LET unit == Opening(n).shape
      ends == Oriented(n, Preceding(n), UnitType[unit])
  IN  Made(<<unit, n, Preceding(n)>>, ends[1], UnitType[unit], ends[2], "structural", 100, 2)
MarkerEdge(name, n, t) ==
  LET ends == Oriented(n, t, Markers[name].type)
  IN  Made(MarkerId(name, n, t, ends[2]), ends[1], Markers[name].type, ends[2],
           "pattern", Markers[name].confidence, 3)

LEMMA MarkerEdgesAre ==
  ASSUME ParseInv, NEW e \in MarkerEdges
  PROVE  \E name \in DOMAIN Markers, n \in Provisions : \E t :
           e = MarkerEdge(name, n, t) /\ Linked(t)
<1>1. PICK n \in Provisions : e \in MarkerEdgesOf(n)
  BY DEF MarkerEdges
<1>2. PICK x, t :
        /\ x \in FirstMatches(n)
        /\ t \in Targets(n, Markers[x[1].marker], x[1].cites)
        /\ e = MarkerEdge(x[1].marker, n, t)
  BY <1>1 DEF MarkerEdgesOf, MarkerEdge
<1>3. x[1].marker \in DOMAIN Markers
  BY <1>2, MarkersMatch
<1>4. Markers[x[1].marker].hint \in {"preceding", "following", "referenced"}
  BY <1>3 DEF Markers, Mark
<1>5. Linked(t)
  BY <1>2, <1>4, TargetsLink
<1> QED BY <1>2, <1>3, <1>5

\* Only PART_OF reaches a footnote.
EdgeFits(e) ==
  /\ e.confidence \in 0..100 /\ e.stage \in 0..3
  /\ e.type = "part_of" \/ (Linked(e.src) /\ Linked(e.dst))

Distinct(S) == \A e, f \in S : e.id = f.id => e = f

Early == {"part_of", "mention"}

LEMMA OrientedLinks ==
  ASSUME NEW n, NEW t, NEW type, Linked(n), Linked(t)
  PROVE  Linked(Oriented(n, t, type)[1]) /\ Linked(Oriented(n, t, type)[2])
BY DEF Oriented

LEMMA LexiconEdges ==
  ASSUME ParseInv
  PROVE  /\ \A e \in TreeEdges \cup MentionEdges : EdgeFits(e) /\ e.id[1] \in Early
         /\ Distinct(TreeEdges \cup MentionEdges)
<1>1. ASSUME NEW e \in TreeEdges
      PROVE  EdgeFits(e) /\ e.id[1] = "part_of" /\ e = TreeEdge(e.id[2])
  <2>1. PICK n : e = TreeEdge(n)
    BY DEF TreeEdges, TreeEdge
  <2>2. /\ e.type = "part_of" /\ e.id[1] = "part_of" /\ e.id[2] = n
        /\ e.confidence = 100 /\ e.stage = 0
    BY <2>1 DEF TreeEdge, Made
  <2> QED BY <2>1, <2>2 DEF EdgeFits
<1>2. ASSUME NEW e \in MentionEdges
      PROVE  /\ EdgeFits(e) /\ e.id[1] = "mention"
             /\ e = Made(e.id, e.id[2], "defines", e.id[3], "pattern", 80, 1)
  <2>1. PICK a \in Provisions, b \in Provisions :
          e = Made(<<"mention", a, b>>, a, "defines", b, "pattern", 80, 1)
    BY DEF MentionEdges
  <2>2. /\ e.id = <<"mention", a, b>> /\ e.src = a /\ e.dst = b
        /\ e.confidence = 80 /\ e.stage = 1
    BY <2>1 DEF Made
  <2>3. Linked(a) /\ Linked(b)
    BY ProvisionsLink
  <2> QED BY <2>1, <2>2, <2>3 DEF EdgeFits
<1>3. ASSUME NEW e \in TreeEdges \cup MentionEdges, NEW f \in TreeEdges \cup MentionEdges,
             e.id = f.id
      PROVE  e = f
  <2>1. CASE e.id[1] = "part_of"
    <3>1. e \in TreeEdges /\ f \in TreeEdges
      BY <1>2, <1>3, <2>1
    <3>2. e = TreeEdge(e.id[2]) /\ f = TreeEdge(f.id[2])
      BY <1>1, <3>1
    <3> QED BY <1>3, <3>2
  <2>2. CASE e.id[1] # "part_of"
    <3>1. e \in MentionEdges /\ f \in MentionEdges
      BY <1>1, <1>3, <2>2
    <3> QED BY <1>2, <1>3, <3>1
  <2> QED BY <2>1, <2>2
<1> QED BY <1>1, <1>2, <1>3 DEF Distinct, Early

LEMMA PatternEdges ==
  ASSUME ParseInv
  PROVE  /\ \A e \in UnitEdges \cup MarkerEdges : EdgeFits(e) /\ e.id[1] \notin Early
         /\ Distinct(UnitEdges \cup MarkerEdges)
<1>1. ASSUME NEW e \in UnitEdges
      PROVE  /\ EdgeFits(e) /\ e.id[1] \in DOMAIN UnitType /\ e.id[1] \notin Early
             /\ e = UnitEdge(e.id[2])
  <2>1. PICK n \in Provisions : e = UnitEdge(n) /\ IsUnit(n) /\ Preceding(n) # 0
    BY DEF UnitEdges, UnitEdge
  <2>2. PICK unit, p : unit = Opening(n).shape /\ p = Preceding(n)
    OBVIOUS
  <2>3. unit \in DOMAIN UnitType
    BY <2>1, <2>2 DEF IsUnit
  <2>4. PICK ends : ends = Oriented(n, p, UnitType[unit])
    OBVIOUS
  <2>5. e = Made(<<unit, n, p>>, ends[1], UnitType[unit], ends[2], "structural", 100, 2)
    BY <2>1, <2>2, <2>4 DEF UnitEdge
  <2>6. /\ e.id = <<unit, n, p>> /\ e.src = ends[1] /\ e.dst = ends[2]
        /\ e.confidence = 100 /\ e.stage = 2
    BY <2>5 DEF Made
  <2>7. Linked(ends[1]) /\ Linked(ends[2])
    BY <2>1, <2>2, <2>4, PrecedingLinks, ProvisionsLink, OrientedLinks
  <2>8. e.id[1] = unit /\ e.id[2] = n
    BY <2>6
  <2>9. unit \notin Early
    BY <2>3 DEF UnitType, Early
  <2> QED BY <2>1, <2>3, <2>6, <2>7, <2>8, <2>9 DEF EdgeFits
<1>2. ASSUME NEW e \in MarkerEdges
      PROVE  /\ EdgeFits(e) /\ e.id[1] \in DOMAIN Markers /\ e.id[1] \notin Early
             /\ e = MarkerEdge(e.id[1], e.id[2], e.id[3])
  <2>1. PICK name, n, t : /\ name \in DOMAIN Markers /\ n \in Provisions
                             /\ e = MarkerEdge(name, n, t) /\ Linked(t)
    BY MarkerEdgesAre
  <2>2. PICK ends : ends = Oriented(n, t, Markers[name].type)
    OBVIOUS
  <2>3. e = Made(<<name, n, t>>, ends[1], Markers[name].type, ends[2], "pattern",
                 Markers[name].confidence, 3)
    BY <2>1, <2>2 DEF MarkerEdge, MarkerId
  <2>4. /\ e.id = <<name, n, t>> /\ e.src = ends[1] /\ e.dst = ends[2]
        /\ e.confidence = Markers[name].confidence /\ e.stage = 3
    BY <2>3 DEF Made
  <2>5. e.id[1] = name /\ e.id[2] = n /\ e.id[3] = t
    BY <2>4
  <2>6. Linked(ends[1]) /\ Linked(ends[2])
    BY <2>1, <2>2, ProvisionsLink, OrientedLinks
  <2>7. Markers[name].confidence \in 0..100
    BY <2>1, MarkerNames
  <2>8. name \notin Early
    BY <2>1 DEF Markers, Early
  <2> QED BY <2>1, <2>4, <2>5, <2>6, <2>7, <2>8 DEF EdgeFits
<1>3. ASSUME NEW e \in UnitEdges \cup MarkerEdges, NEW f \in UnitEdges \cup MarkerEdges,
             e.id = f.id
      PROVE  e = f
  <2>1. CASE e.id[1] \in DOMAIN Markers
    <3>1. e \in MarkerEdges /\ f \in MarkerEdges
      BY <1>1, <1>3, <2>1, MarkerNames
    <3>2. /\ e = MarkerEdge(e.id[1], e.id[2], e.id[3])
          /\ f = MarkerEdge(f.id[1], f.id[2], f.id[3])
      BY <1>2, <3>1
    <3> QED BY <1>3, <3>2
  <2>2. CASE e.id[1] \notin DOMAIN Markers
    <3>1. e \in UnitEdges /\ f \in UnitEdges
      BY <1>2, <1>3, <2>2
    <3>2. e = UnitEdge(e.id[2]) /\ f = UnitEdge(f.id[2])
      BY <1>1, <3>1
    <3> QED BY <1>3, <3>2
  <2> QED BY <2>1, <2>2
<1> QED BY <1>1, <1>2, <1>3 DEF Distinct

\* The edge that is kept of those that make one relation.
Best(S, y) ==
  CHOOSE e \in {x \in S : Relation(x) = Relation(y)} :
    \A f \in {x \in S : Relation(x) = Relation(y)} :
      f.confidence < e.confidence \/ (f.confidence = e.confidence /\ f.stage >= e.stage)

LEMMA BestIs ==
  ASSUME NEW S, \A e \in S : e.confidence \in 0..100 /\ e.stage \in 0..3, NEW y \in S
  PROVE  Best(S, y) \in S /\ Relation(Best(S, y)) = Relation(y)
<1>1. PICK d : d = Best(S, y)
  OBVIOUS
<1> DEFINE R == {x \in S : Relation(x) = Relation(y)}
<1>2. PICK r : r = Relation(y)
  OBVIOUS
<1>3. y \in R /\ R \subseteq S
  OBVIOUS
<1>4. d = CHOOSE e \in R : \A f \in R :
        f.confidence < e.confidence \/ (f.confidence = e.confidence /\ f.stage >= e.stage)
  BY <1>1 DEF Best
<1> HIDE DEF R
<1> DEFINE C == {x.confidence : x \in R}
<1>5. PICK c \in C : \A v \in C : v <= c
  <2>1. C \in SUBSET Nat /\ C # {} /\ (\A v \in C : v <= 100) /\ 100 \in Nat
    BY <1>3
  <2> HIDE DEF C
  <2> QED BY <2>1, GreatestNat
<1> DEFINE T == {x.stage : x \in {w \in R : w.confidence = c}}
<1>6. PICK t \in T : \A v \in T : t <= v
  <2>1. T \in SUBSET Nat /\ T # {}
    BY <1>3, <1>5
  <2> HIDE DEF T
  <2> QED BY <2>1, LeastNat
<1>7. PICK e \in R : e.confidence = c /\ e.stage = t
  BY <1>6
<1>8. ASSUME NEW f \in R
      PROVE  f.confidence < e.confidence \/ (f.confidence = e.confidence /\ f.stage >= e.stage)
  <2>1. f.confidence \in Nat /\ e.confidence \in Nat /\ f.stage \in Nat /\ e.stage \in Nat
    BY <1>3
  <2>2. f.confidence <= e.confidence
    BY <1>5, <1>7
  <2>3. f.confidence = e.confidence => f.stage >= e.stage
    BY <1>6, <1>7, <2>1
  <2> QED BY <2>1, <2>2, <2>3
<1>9. d \in R
  BY <1>4, <1>7, <1>8
<1>10. d \in S /\ Relation(d) = Relation(y)
  BY <1>9 DEF R
<1> QED BY <1>1, <1>10

\* One edge per relation, and one of those there were.
LEMMA DedupeKeeps ==
  ASSUME NEW S, \A e \in S : e.confidence \in 0..100 /\ e.stage \in 0..3
  PROVE  /\ Dedupe(S) \subseteq S
         /\ \A y \in S : \E d \in Dedupe(S) : Relation(d) = Relation(y)
<1>1. ASSUME NEW d \in Dedupe(S) PROVE d \in S
  <2>1. PICK r \in {Relation(x) : x \in S} :
          d = CHOOSE e \in {x \in S : Relation(x) = r} :
                \A f \in {x \in S : Relation(x) = r} :
                  f.confidence < e.confidence
                    \/ (f.confidence = e.confidence /\ f.stage >= e.stage)
    BY DEF Dedupe
  <2>2. PICK y \in S : r = Relation(y)
    OBVIOUS
  <2>3. d = Best(S, y)
    BY <2>1, <2>2 DEF Best
  <2> QED BY <2>3, BestIs
<1>2. ASSUME NEW y \in S PROVE Best(S, y) \in Dedupe(S)
  <2>1. PICK r : r = Relation(y)
    OBVIOUS
  <2>2. Best(S, y) = CHOOSE e \in {x \in S : Relation(x) = r} :
          \A f \in {x \in S : Relation(x) = r} :
            f.confidence < e.confidence
              \/ (f.confidence = e.confidence /\ f.stage >= e.stage)
    BY <2>1 DEF Best
  <2>3. r \in {Relation(x) : x \in S}
    BY <2>1
  <2> QED BY <2>2, <2>3 DEF Dedupe
<1> QED BY <1>1, <1>2, BestIs

\* The inductive invariant: raw edges fit and are told apart by their ids, and the
\* edges of the document are among them.
EdgesInv ==
  /\ ~Parsed => raw = {} /\ edges = {}
  /\ pc \in {"lexicon", "patterns"} => edges = {}
  /\ pc = "patterns" => \A e \in raw : e.id[1] \in Early
  /\ \A e \in raw : EdgeFits(e)
  /\ Distinct(raw)
  /\ edges \subseteq raw

Ingested == pc \in {"ingested", "sections", "gate", "conflicts", "planned"}

\* What parsing does not touch.
LEMMA ParseSteps ==
  ASSUME [CNext]_cvars
  PROVE  \/ Parse /\ UNCHANGED <<raw, edges>>
         \/ Lexicon \/ Patterns \/ Merge
         \/ UNCHANGED <<parse, raw, edges>> /\ (pc' = pc \/ (Ingested /\ Ingested'))
<1>1. CASE ENext
  BY <1>1 DEF ENext, Read
<1>2. CASE Plan
  <2>1. BeginPlan => UNCHANGED <<parse, raw, edges>> /\ Ingested /\ Ingested' /\ pc' = "sections"
    BY DEF BeginPlan, Ingested
  <2>2. SkipFootnote \/ OpenSection \/ Continue => UNCHANGED <<parse, raw, edges>> /\ pc' = pc
    BY DEF SkipFootnote, OpenSection, Continue, vars
  <2>3. EndOfNodes => UNCHANGED <<parse, raw, edges>> /\ Ingested /\ Ingested' /\ pc' = "gate"
    BY DEF EndOfNodes, Ingested
  <2>4. ApplyGate => UNCHANGED <<parse, raw, edges>> /\ Ingested /\ Ingested' /\ pc' = "conflicts"
    BY DEF ApplyGate, Ingested
  <2> QED BY <1>2, <2>1, <2>2, <2>3, <2>4 DEF Plan
<1>3. CASE DetectConflicts
  <2>1. UNCHANGED <<parse, raw, edges>> /\ Ingested /\ Ingested' /\ pc' = "planned"
    BY <1>3 DEF DetectConflicts, Ingested
  <2> QED BY <2>1
<1>4. CASE UNCHANGED cvars
  BY <1>4 DEF cvars, wvars, vars
<1> QED BY <1>1, <1>2, <1>3, <1>4 DEF CNext

LEMMA EdgesInvInit == CInit => EdgesInv
BY DEF CInit, WInit, EInit, Init, EdgesInv, Distinct

LEMMA EdgesInvNext == ParseInv /\ EdgesInv /\ [CNext]_cvars => EdgesInv'
<1> SUFFICES ASSUME ParseInv, EdgesInv, [CNext]_cvars PROVE EdgesInv'
  OBVIOUS
<1>1. UNCHANGED nodes => \A e : EdgeFits(e)' = EdgeFits(e)
  BY DEF EdgeFits, Linked
<1>2. CASE Parse /\ UNCHANGED <<raw, edges>>
  <2>1. ~Parsed
    BY <1>2 DEF Parse, ReadBlank, ReadStarter, ReadText, EndOfText, SplitUnits, Nest, Gate, Parsed
  <2>2. raw = {} /\ edges = {} /\ raw' = {} /\ edges' = {}
    BY <1>2, <2>1 DEF EdgesInv
  <2> QED BY <2>2 DEF EdgesInv, Distinct
<1>3. CASE Lexicon
  <2>1. /\ raw' = TreeEdges \cup MentionEdges /\ edges' = edges /\ nodes' = nodes
        /\ pc = "lexicon" /\ pc' = "patterns"
    BY <1>3 DEF Lexicon, parse
  <2>2. edges = {}
    BY <2>1 DEF EdgesInv
  <2>3. Parsed'
    BY <2>1 DEF Parsed
  <2>4. (\A e \in raw' : EdgeFits(e)' /\ e.id[1] \in Early) /\ Distinct(raw')
    BY <1>1, <2>1, LexiconEdges
  <2>5. Distinct(raw)' = Distinct(raw')
    BY DEF Distinct
  <2> QED BY <2>1, <2>2, <2>3, <2>4, <2>5 DEF EdgesInv
<1>4. CASE Patterns
  <2>1. /\ raw' = raw \cup (UnitEdges \cup MarkerEdges) /\ edges' = edges /\ nodes' = nodes
        /\ pc = "patterns" /\ pc' = "merge"
    BY <1>4 DEF Patterns, parse
  <2>2. /\ edges = {} /\ Distinct(raw)
        /\ \A e \in raw : EdgeFits(e) /\ e.id[1] \in Early
    BY <2>1 DEF EdgesInv
  <2>3. Parsed'
    BY <2>1 DEF Parsed
  <2>4. PICK U : U = UnitEdges \cup MarkerEdges
    OBVIOUS
  <2>5. (\A e \in U : EdgeFits(e) /\ e.id[1] \notin Early) /\ Distinct(U)
    BY <2>4, PatternEdges
  <2>6. raw' = raw \cup U
    BY <2>1, <2>4
  <2>7. \A e \in raw' : EdgeFits(e)'
    BY <1>1, <2>1, <2>2, <2>5, <2>6
  <2>8. Distinct(raw)'
    BY <2>2, <2>5, <2>6 DEF Distinct
  <2> QED BY <2>1, <2>2, <2>3, <2>7, <2>8 DEF EdgesInv
<1>5. CASE Merge
  <2>1. /\ edges' = Dedupe(raw) /\ raw' = raw /\ nodes' = nodes
        /\ pc = "merge" /\ pc' = "ingested"
    BY <1>5 DEF Merge, parse
  <2>2. (\A e \in raw : EdgeFits(e)) /\ Distinct(raw)
    BY DEF EdgesInv
  <2>3. Dedupe(raw) \subseteq raw
    BY <2>2, DedupeKeeps DEF EdgeFits
  <2>4. Parsed'
    BY <2>1 DEF Parsed
  <2>5. Distinct(raw)'
    BY <2>1, <2>2 DEF Distinct
  <2> QED BY <1>1, <2>1, <2>2, <2>3, <2>4, <2>5 DEF EdgesInv
<1>6. CASE /\ UNCHANGED <<parse, raw, edges>>
           /\ pc' = pc \/ (Ingested /\ Ingested')
  <2>1. raw' = raw /\ edges' = edges /\ nodes' = nodes
    BY <1>6 DEF parse
  <2>3. Distinct(raw)'
    BY <2>1 DEF EdgesInv, Distinct
  <2>4. pc' \in {"lexicon", "patterns"} => pc' = pc
    BY <1>6 DEF Ingested
  <2>5. ~Parsed' => ~Parsed
    BY <1>6 DEF Ingested, Parsed
  <2> QED BY <1>1, <2>1, <2>3, <2>4, <2>5 DEF EdgesInv
<1> QED BY <1>2, <1>3, <1>4, <1>5, <1>6, ParseSteps

LEMMA EdgesHold == CSpec => [](ParseInv /\ EdgesInv)
BY DocumentsParse, EdgesInvInit, EdgesInvNext, PTL DEF CSpec

\* No two edges of a document come under one id, so that the bundle that is
\* written, after the old one is deleted, meets no duplicate key.
THEOREM IdsAreUnique == CSpec => []EdgeIdsAreUnique
<1>1. EdgesInv => EdgeIdsAreUnique
  BY DEF EdgesInv, EdgeIdsAreUnique, Distinct
<1> QED BY <1>1, EdgesHold, PTL

\* A footnote is never an end of an edge that closure walks.
THEOREM FootnotesAreApparatus == CSpec => []FootnotesStayOut
<1>1. EdgesInv => FootnotesStayOut
  <2>1. SUFFICES ASSUME EdgesInv, NEW e \in ClosureEdges, NEW n \in {e.src, e.dst}
                 PROVE  nodes[n].kind # "footnote"
    BY DEF FootnotesStayOut
  <2>2. e \in raw /\ e.type # "part_of"
    BY <2>1 DEF ClosureEdges, ClosureType, EdgesInv
  <2> QED BY <2>1, <2>2 DEF EdgesInv, EdgeFits, Linked
<1> QED BY <1>1, EdgesHold, PTL

-----------------------------------------------------------------------------
(* Splitting a section *)

ChunkStep(chunks, n) ==
  IF Last(chunks) # <<>> /\ TotalChars(Last(chunks)) + RawChars(n) > MaxChars
  THEN Append(chunks, <<n>>)
  ELSE Append(Front(chunks), Append(Last(chunks), n))

ChunkFold(f, ns) ==
  f = [s \in SUBSET (DOMAIN ns) |->
         IF s = {} THEN << <<>> >> ELSE ChunkStep(f[s \ {Max(s)}], ns[Max(s)])]

LEMMA ChunksUnfold ==
  ASSUME NEW ns
  PROVE  Chunks(ns) = (CHOOSE f : ChunkFold(f, ns))[DOMAIN ns]
BY DEF Chunks, FoldLeft, MapThenFoldSet, ChunkFold, ChunkStep

LEMMA TotalIs ==
  ASSUME NEW ns
  PROVE  TotalChars(ns) = SumOf([i \in DOMAIN ns |-> RawChars(ns[i])], DOMAIN ns)
<1> DEFINE w == [i \in DOMAIN ns |-> RawChars(ns[i])]
           P(f) == f = [s \in SUBSET (DOMAIN ns) |->
                          IF s = {} THEN 0 ELSE RawChars(ns[Pick(s)]) + f[s \ {Pick(s)}]]
<1>1. TotalChars(ns) = (CHOOSE f : P(f))[DOMAIN ns]
  BY DEF TotalChars, MapThenSumSet, MapThenFoldSet, Pick
<1>2. ASSUME NEW f PROVE P(f) <=> Adds(f, w, DOMAIN ns)
  <2>1. \A s \in SUBSET (DOMAIN ns) : s # {} => w[Pick(s)] = RawChars(ns[Pick(s)])
    <3>1. \A s \in SUBSET (DOMAIN ns) : s # {} => Pick(s) \in DOMAIN ns
      BY DEF Pick
    <3> QED BY <3>1
  <2>2. [s \in SUBSET (DOMAIN ns) |->
            IF s = {} THEN 0 ELSE RawChars(ns[Pick(s)]) + f[s \ {Pick(s)}]]
        = [s \in SUBSET (DOMAIN ns) |-> IF s = {} THEN 0 ELSE w[Pick(s)] + f[s \ {Pick(s)}]]
    <3> HIDE DEF w
    <3> QED BY <2>1
  <2> HIDE DEF w
  <2> QED BY <2>2 DEF Adds
<1>3. (CHOOSE f : P(f)) = (CHOOSE f : Adds(f, w, DOMAIN ns))
  <2> HIDE DEF P, w
  <2> QED BY <1>2
<1>4. SumOf(w, DOMAIN ns) = (CHOOSE f : Adds(f, w, DOMAIN ns))[DOMAIN ns]
  BY SumUnfolds
<1> HIDE DEF P, w
<1> QED BY <1>1, <1>3, <1>4 DEF w

LEMMA ChunkFoldExists ==
  ASSUME NEW E, NEW ns \in Seq(E)
  PROVE  \E f : ChunkFold(f, ns)
<1> DEFINE S == DOMAIN ns
           Sub(n) == {s \in SUBSET S : Cardinality(s) <= n}
           Value(f, s) == IF s = {} THEN << <<>> >> ELSE ChunkStep(f[s \ {Max(s)}], ns[Max(s)])
           Good(f, n) == f = [s \in Sub(n) |-> f[s]] /\ \A s \in Sub(n) : f[s] = Value(f, s)
           N == {n \in Nat : \E f : Good(f, n)}
<1>1. S = 1..Len(ns) /\ Len(ns) \in Nat /\ IsFiniteSet(S)
  BY LenProperties, FS_Interval
<1> HIDE DEF S
<1>2. \A s \in SUBSET S : IsFiniteSet(s) /\ Cardinality(s) \in Nat
  BY <1>1, FS_Subset, FS_CardinalityType
<1>3. ASSUME NEW s \in SUBSET S, s # {}
      PROVE  /\ s \ {Max(s)} \in SUBSET S /\ Cardinality(s \ {Max(s)}) = Cardinality(s) - 1
             /\ Cardinality(s) # 0
  <2>1. s \in SUBSET Nat /\ \A y \in s : y <= Len(ns)
    BY <1>1
  <2>2. Max(s) \in s
    BY <1>1, <1>3, <2>1, MaxIs
  <2> QED BY <1>2, <1>3, <2>2, FS_RemoveElement, FS_EmptySet
<1>4. Cardinality({}) = 0
  BY FS_EmptySet
<1>5. 0 \in N
  <2> DEFINE g == [s \in Sub(0) |-> << <<>> >>]
  <2>1. ASSUME NEW s \in Sub(0) PROVE s = {}
    <3>1. Cardinality(s) = 0
      BY <1>2
    <3> QED BY <1>3, <3>1
  <2>2. Good(g, 0)
    BY <2>1
  <2> HIDE DEF g, Good
  <2> QED BY <2>2
<1>6. ASSUME NEW n \in Nat, n \in N PROVE n + 1 \in N
  <2>1. PICK f : Good(f, n)
    BY <1>6
  <2> DEFINE g == [s \in Sub(n + 1) |-> Value(f, s)]
  <2>2. \A s \in Sub(n + 1) : s # {} => s \ {Max(s)} \in Sub(n)
    BY <1>2, <1>3
  <2>3. \A s \in Sub(n) : s \in Sub(n + 1)
    BY <1>2
  <2>4. \A s \in Sub(n) : g[s] = f[s]
    <3> HIDE DEF Value
    <3> QED BY <2>1, <2>3
  <2>5. g = [s \in Sub(n + 1) |-> g[s]]
    <3> HIDE DEF Value, Sub
    <3> QED OBVIOUS
  <2>6. ASSUME NEW s \in Sub(n + 1) PROVE g[s] = Value(g, s)
    <3>1. g[s] = Value(f, s)
      OBVIOUS
    <3>2. s # {} => g[s \ {Max(s)}] = f[s \ {Max(s)}]
      <4> HIDE DEF g, Sub
      <4> QED BY <2>2, <2>4
    <3> HIDE DEF g, Sub
    <3> QED BY <3>1, <3>2
  <2> HIDE DEF g
  <2>7. Good(g, n + 1)
    <3> HIDE DEF Value, Sub
    <3> QED BY <2>5, <2>6
  <2> HIDE DEF Good
  <2> QED BY <2>7
<1>7. Cardinality(S) \in N
  <2> HIDE DEF N
  <2> QED BY <1>1, <1>2, <1>5, <1>6, SetInduction
<1>8. PICK f : Good(f, Cardinality(S))
  BY <1>7
<1>9. Sub(Cardinality(S)) = SUBSET S
  BY <1>1, FS_Subset
<1>10. f = [s \in SUBSET S |-> Value(f, s)]
  <2> HIDE DEF Value, Sub
  <2> QED BY <1>8, <1>9
<1> QED BY <1>10 DEF ChunkFold, S

\* Chunks takes one element after the other.
LEMMA ChunksStep ==
  ASSUME NEW E, NEW ns \in Seq(E)
  PROVE  \E f : /\ Chunks(ns) = f[Len(ns)] /\ f[0] = << <<>> >>
                /\ \A k \in 1..Len(ns) : f[k] = ChunkStep(f[k - 1], ns[k])
<1>1. DOMAIN ns = 1..Len(ns) /\ Len(ns) \in Nat
  BY LenProperties
<1>2. PICK h : h = (CHOOSE f : ChunkFold(f, ns))
  OBVIOUS
<1>3. ChunkFold(h, ns) /\ Chunks(ns) = h[1..Len(ns)]
  BY <1>1, <1>2, ChunkFoldExists, ChunksUnfold
<1>4. \A s \in SUBSET (1..Len(ns)) :
        h[s] = IF s = {} THEN << <<>> >> ELSE ChunkStep(h[s \ {Max(s)}], ns[Max(s)])
  BY <1>1, <1>3 DEF ChunkFold
<1> DEFINE f == [k \in 0..Len(ns) |-> h[1..k]]
<1>5. f[Len(ns)] = Chunks(ns)
  BY <1>1, <1>3
<1>6. f[0] = << <<>> >>
  <2>1. 1..0 = {} /\ {} \in SUBSET (1..Len(ns)) /\ 0 \in 0..Len(ns)
    BY <1>1
  <2>2. h[{}] = << <<>> >>
    BY <1>4, <2>1
  <2> QED BY <2>1, <2>2
<1>7. ASSUME NEW k \in 1..Len(ns) PROVE f[k] = ChunkStep(f[k - 1], ns[k])
  <2>0. k \in Nat /\ k >= 1 /\ k <= Len(ns)
    BY <1>1
  <2>1. /\ 1..k \in SUBSET (1..Len(ns)) /\ 1..k # {} /\ k \in 1..k /\ k \in Nat
        /\ 1..k \in SUBSET Nat /\ \A y \in 1..k : y <= k
        /\ k \in 0..Len(ns) /\ k - 1 \in 0..Len(ns)
    <3>1. \A y \in 1..k : y \in Nat /\ y \in 1..Len(ns) /\ y <= k
      BY <1>1, <2>0
    <3>2. k \in 1..k /\ k \in 0..Len(ns) /\ k - 1 \in 0..Len(ns)
      BY <1>1, <2>0
    <3> QED BY <2>0, <3>1, <3>2
  <2>2. PICK m : m = Max(1..k)
    OBVIOUS
  <2>3. m \in 1..k /\ k <= m
    BY <2>1, <2>2, MaxIs
  <2>4. m = k /\ (1..k) \ {m} = 1 .. k - 1
    BY <2>3
  <2>5. h[1..k] = ChunkStep(h[(1..k) \ {m}], ns[m])
    BY <1>4, <2>1, <2>2
  <2>6. f[k] = h[1..k] /\ f[k - 1] = h[1 .. k - 1]
    BY <2>1
  <2> QED BY <2>4, <2>5, <2>6
<1> HIDE DEF f
<1> QED BY <1>5, <1>6, <1>7

LEMMA RawIs ==
  ASSUME NEW n
  PROVE  RawChars(n) = SumOf([i \in DOMAIN nodes[n].segs |-> Chars[ContentOf(n, i)]],
                             DOMAIN nodes[n].segs)
<1> DEFINE S == DOMAIN nodes[n].segs
           w == [i \in S |-> Chars[ContentOf(n, i)]]
           P(f) == f = [s \in SUBSET S |->
                          IF s = {} THEN 0 ELSE Chars[ContentOf(n, Pick(s))] + f[s \ {Pick(s)}]]
<1>1. RawChars(n) = (CHOOSE f : P(f))[S]
  BY DEF RawChars, MapThenSumSet, MapThenFoldSet, Pick
<1> HIDE DEF S
<1>2. ASSUME NEW f PROVE P(f) <=> Adds(f, w, S)
  <2>1. \A s \in SUBSET S : s # {} => w[Pick(s)] = Chars[ContentOf(n, Pick(s))]
    <3>1. \A s \in SUBSET S : s # {} => Pick(s) \in S
      BY DEF Pick
    <3> QED BY <3>1
  <2>2. [s \in SUBSET S |->
            IF s = {} THEN 0 ELSE Chars[ContentOf(n, Pick(s))] + f[s \ {Pick(s)}]]
        = [s \in SUBSET S |-> IF s = {} THEN 0 ELSE w[Pick(s)] + f[s \ {Pick(s)}]]
    <3> HIDE DEF w
    <3> QED BY <2>1
  <2> HIDE DEF w
  <2> QED BY <2>2 DEF Adds
<1>3. (CHOOSE f : P(f)) = (CHOOSE f : Adds(f, w, S))
  <2> HIDE DEF P, w
  <2> QED BY <1>2
<1>4. SumOf(w, S) = (CHOOSE f : Adds(f, w, S))[S]
  BY SumUnfolds
<1> HIDE DEF P, w
<1> QED BY <1>1, <1>3, <1>4 DEF w, S

LEMMA RawType == ParseInv => \A n \in DOMAIN nodes : RawChars(n) \in Nat
<1> SUFFICES ASSUME ParseInv, NEW n \in DOMAIN nodes PROVE RawChars(n) \in Nat
  OBVIOUS
<1> DEFINE S == DOMAIN nodes[n].segs
           w == [i \in S |-> Chars[ContentOf(n, i)]]
<1>1. IsFiniteSet(S)
  <2>1. nodes[n].segs \in Seq(Spot)
    BY NodeFacts
  <2>2. S = 1..Len(nodes[n].segs) /\ Len(nodes[n].segs) \in Nat
    BY <2>1, LenProperties
  <2> QED BY <2>2, FS_Interval
<1>2. \A i \in S : w[i] \in Nat
  BY ContentFacts, WindowAssumption
<1>3. SumOf(w, S) \in Nat
  <2> HIDE DEF w, S
  <2> QED BY <1>1, <1>2, SumType
<1> QED BY <1>3, RawIs

LEMMA TotalType ==
  ASSUME ParseInv, NEW ns \in Seq(DOMAIN nodes)
  PROVE  TotalChars(ns) \in Nat
<1> DEFINE w == [i \in DOMAIN ns |-> RawChars(ns[i])]
<1>1. DOMAIN ns = 1..Len(ns) /\ Len(ns) \in Nat /\ IsFiniteSet(DOMAIN ns)
  BY LenProperties, FS_Interval
<1>2. \A i \in DOMAIN ns : w[i] \in Nat
  BY <1>1, ElementOfSeq, RawType
<1> HIDE DEF w
<1>3. SumOf(w, DOMAIN ns) \in Nat
  BY <1>1, <1>2, SumType
<1> QED BY <1>3, TotalIs DEF w

LEMMA TotalGrows ==
  ASSUME ParseInv, NEW ns \in Seq(DOMAIN nodes), NEW n \in DOMAIN nodes
  PROVE  TotalChars(Append(ns, n)) = TotalChars(ns) + RawChars(n)
<1>0. PICK ms : ms = Append(ns, n)
  OBVIOUS
<1> DEFINE v == [i \in DOMAIN ns |-> RawChars(ns[i])]
           w == [i \in DOMAIN ms |-> RawChars(ms[i])]
           k == Len(ns) + 1
<1>1. /\ DOMAIN ns = 1..Len(ns) /\ Len(ns) \in Nat /\ IsFiniteSet(DOMAIN ns)
      /\ DOMAIN ms = 1..k /\ ms[k] = n /\ \A i \in 1..Len(ns) : ms[i] = ns[i]
  BY <1>0, LenProperties, OneMore, FS_Interval
<1>2. DOMAIN ms = DOMAIN ns \cup {k} /\ k \notin DOMAIN ns
  BY <1>1
<1>3. \A i \in DOMAIN ns : v[i] = w[i] /\ v[i] \in Nat
  BY <1>1, <1>2, ElementOfSeq, RawType
<1>4. w[k] = RawChars(n) /\ w[k] \in Nat
  BY <1>1, <1>2, RawType
<1> HIDE DEF v, w, k
<1>5. SumOf(w, DOMAIN ms) = SumOf(w, DOMAIN ns) + w[k]
  <2>1. PICK S : S = DOMAIN ns
    OBVIOUS
  <2>2. IsFiniteSet(S) /\ k \notin S /\ \A i \in S \cup {k} : w[i] \in Nat
    BY <1>1, <1>2, <1>3, <1>4, <2>1
  <2>3. SumOf(w, S \cup {k}) = SumOf(w, S) + w[k]
    BY <2>2, SumAdds
  <2> QED BY <1>2, <2>1, <2>3
<1>6. SumOf(v, DOMAIN ns) = SumOf(w, DOMAIN ns)
  BY <1>3, SumAgrees
<1>7. TotalChars(ns) = SumOf(v, DOMAIN ns) /\ TotalChars(ms) = SumOf(w, DOMAIN ms)
  BY TotalIs DEF v, w
<1> QED BY <1>0, <1>4, <1>5, <1>6, <1>7

\* What Chunks has made of the first k nodes.
Chunked(cs, ns, k) ==
  /\ cs \in Seq(Seq(DOMAIN nodes)) /\ Len(cs) >= 1
  /\ k = 0 => cs = << <<>> >>
  /\ k # 0 => cs[1][1] = ns[1]
  /\ FlattenSeq(cs) = SubSeq(ns, 1, k)
  /\ \A i \in 1..Len(cs) :
       /\ k # 0 => Len(cs[i]) >= 1
       /\ \A j \in 1..Len(cs[i]) : \E m \in 1..k : cs[i][j] = ns[m]
       /\ Len(cs[i]) > 1 => TotalChars(cs[i]) <= MaxChars
  /\ \A i \in 2..Len(cs) : TotalChars(cs[i - 1]) + RawChars(cs[i][1]) > MaxChars

LEMMA ChunkedNew ==
  ASSUME ParseInv, NEW ns \in Seq(DOMAIN nodes), NEW k \in 1..Len(ns),
         NEW cs, Chunked(cs, ns, k - 1), NEW n, n = ns[k],
         Last(cs) # <<>>, TotalChars(Last(cs)) + RawChars(n) > MaxChars
  PROVE  Chunked(Append(cs, <<n>>), ns, k)
<1> DEFINE E == DOMAIN nodes
           c == Len(cs)
           new == <<n>>
<1>1. /\ cs \in Seq(Seq(E)) /\ c >= 1 /\ c \in Nat /\ DOMAIN cs = 1..c
      /\ FlattenSeq(cs) = SubSeq(ns, 1, k - 1)
      /\ \A i \in 1..c : cs[i] \in Seq(E)
  <2>1. cs \in Seq(Seq(E)) /\ c >= 1 /\ FlattenSeq(cs) = SubSeq(ns, 1, k - 1)
    BY DEF Chunked
  <2>2. c \in Nat /\ DOMAIN cs = 1..c
    BY <2>1, LenProperties
  <2> QED BY <2>1, <2>2, ElementOfSeq
<1>2. /\ Len(ns) \in Nat /\ k \in Nat /\ k >= 1 /\ k <= Len(ns) /\ DOMAIN ns = 1..Len(ns) /\ n \in E
  BY LenProperties, ElementOfSeq
<1> HIDE DEF E, c
<1>3. new \in Seq(E) /\ Len(new) = 1 /\ new[1] = n
  BY <1>2
<1>4. Last(cs) = cs[c] /\ Len(cs[c]) \in Nat /\ cs[c] # <<>> /\ Len(cs[c]) >= 1
  <2>1. Last(cs) = cs[c]
    BY DEF Last, c
  <2>2. cs[c] \in Seq(E)
    BY <1>1
  <2>3. Len(cs[c]) \in Nat /\ (Len(cs[c]) = 0 => cs[c] = <<>>)
    BY <2>2, EmptySeq, LenProperties
  <2> QED BY <2>1, <2>3
<1>5. k - 1 # 0
  <2>1. SUFFICES ASSUME k - 1 = 0 PROVE FALSE
    OBVIOUS
  <2>2. cs = << <<>> >>
    BY <2>1 DEF Chunked
  <2> QED BY <1>4, <2>2 DEF c
<1>6. PICK ds : ds = Append(cs, new)
  OBVIOUS
<1>7. /\ ds \in Seq(Seq(E)) /\ Len(ds) = c + 1 /\ ds[c + 1] = new
      /\ \A i \in 1..c : ds[i] = cs[i]
  <2>1. ds \in Seq(Seq(E))
    BY <1>1, <1>3, <1>6, AppendProperties
  <2> HIDE DEF new
  <2> QED BY <1>1, <1>6, <2>1, OneMore DEF c
<1>8. FlattenSeq(ds) = SubSeq(ns, 1, k)
  <2>1. cs \in [1..c -> Seq(E)] /\ ds \in [1 .. c + 1 -> Seq(E)]
    <3>1. DOMAIN ds = 1 .. c + 1
      BY <1>7, LenProperties
    <3>2. \A i \in 1 .. c + 1 : ds[i] \in Seq(E)
      BY <1>7, <3>1, ElementOfSeq
    <3> QED BY <1>1, <1>7, <3>1, <3>2, SeqDef, LenProperties
  <2>2. FlattenSeq(ds) = FlattenSeq(cs) \o ds[c + 1]
    <3> HIDE DEF new
    <3> QED BY <1>1, <1>7, <2>1, FlattenGrows
  <2>3. SubSeq(ns, 1, k) = SubSeq(ns, 1, k - 1) \o <<n>>
    BY <1>2
  <2> QED BY <1>1, <1>7, <2>2, <2>3
<1>9. ASSUME NEW i \in 1 .. c + 1
      PROVE  /\ Len(ds[i]) >= 1
             /\ \A j \in 1..Len(ds[i]) : \E m \in 1..k : ds[i][j] = ns[m]
             /\ Len(ds[i]) > 1 => TotalChars(ds[i]) <= MaxChars
  <2>1. CASE i = c + 1
    <3>1. ds[i] = new
      BY <1>7, <2>1
    <3>2. \A j \in 1..Len(ds[i]) : ds[i][j] = ns[k]
      BY <1>3, <3>1
    <3> QED BY <1>2, <1>3, <3>1, <3>2
  <2>2. CASE i # c + 1
    <3>1. i \in 1..c /\ ds[i] = cs[i]
      BY <1>1, <1>7, <2>2
    <3>2. /\ Len(cs[i]) >= 1
          /\ \A j \in 1..Len(cs[i]) : \E m \in 1 .. k - 1 : cs[i][j] = ns[m]
          /\ Len(cs[i]) > 1 => TotalChars(cs[i]) <= MaxChars
      BY <1>5, <3>1 DEF Chunked, c
    <3>3. \A m \in 1 .. k - 1 : m \in 1..k
      BY <1>2
    <3> QED BY <3>1, <3>2, <3>3
  <2> QED BY <2>1, <2>2
<1>10. ASSUME NEW i \in 2 .. c + 1
       PROVE  TotalChars(ds[i - 1]) + RawChars(ds[i][1]) > MaxChars
  <2>1. CASE i = c + 1
    <3>1. ds[i] = new /\ i - 1 = c /\ ds[i - 1] = cs[c]
      BY <1>1, <1>7, <2>1
    <3> QED BY <1>3, <1>4, <3>1
  <2>2. CASE i # c + 1
    <3>1. i \in 2..c /\ i \in 1..c /\ i - 1 \in 1..c
      BY <1>1, <2>2
    <3>2. TotalChars(cs[i - 1]) + RawChars(cs[i][1]) > MaxChars
      BY <3>1 DEF Chunked, c
    <3> QED BY <1>7, <3>1, <3>2
  <2> QED BY <2>1, <2>2
<1>11. ds[1][1] = ns[1]
  <2>1. cs[1][1] = ns[1]
    BY <1>5 DEF Chunked
  <2> QED BY <1>1, <1>7, <2>1
<1>12. Len(ds) >= 1 /\ k # 0
  BY <1>1, <1>2, <1>7
<1> HIDE DEF new
<1>13. Chunked(ds, ns, k)
  BY <1>7, <1>8, <1>9, <1>10, <1>11, <1>12 DEF Chunked, E
<1> QED BY <1>6, <1>13 DEF new

LEMMA ChunkedMore ==
  ASSUME ParseInv, NEW ns \in Seq(DOMAIN nodes), NEW k \in 1..Len(ns),
         NEW cs, Chunked(cs, ns, k - 1), NEW n, n = ns[k],
         Last(cs) = <<>> \/ ~(TotalChars(Last(cs)) + RawChars(n) > MaxChars)
  PROVE  Chunked(Append(Front(cs), Append(Last(cs), n)), ns, k)
<1> DEFINE E == DOMAIN nodes
           c == Len(cs)
<1>1. /\ cs \in Seq(Seq(E)) /\ c >= 1 /\ c \in Nat /\ DOMAIN cs = 1..c
      /\ FlattenSeq(cs) = SubSeq(ns, 1, k - 1)
      /\ \A i \in 1..c : cs[i] \in Seq(E)
  <2>1. cs \in Seq(Seq(E)) /\ c >= 1 /\ FlattenSeq(cs) = SubSeq(ns, 1, k - 1)
    BY DEF Chunked
  <2>2. c \in Nat /\ DOMAIN cs = 1..c
    BY <2>1, LenProperties
  <2> QED BY <2>1, <2>2, ElementOfSeq
<1>2. /\ Len(ns) \in Nat /\ k \in Nat /\ k >= 1 /\ k <= Len(ns) /\ DOMAIN ns = 1..Len(ns) /\ n \in E
  BY LenProperties, ElementOfSeq
<1>0. PICK last, new, fr, ds :
        /\ last = cs[c] /\ new = Append(last, n) /\ fr = Front(cs) /\ ds = Append(fr, new)
  OBVIOUS
<1>3. Last(cs) = last /\ last \in Seq(E) /\ Len(last) \in Nat /\ (Len(last) = 0 => last = <<>>)
  <2>1. Last(cs) = cs[c]
    BY DEF Last
  <2>2. last \in Seq(E)
    BY <1>0, <1>1
  <2> QED BY <1>0, <2>1, <2>2, EmptySeq, LenProperties
<1>4. /\ new \in Seq(E) /\ Len(new) = Len(last) + 1 /\ new[Len(last) + 1] = n
      /\ \A j \in 1..Len(last) : new[j] = last[j]
  BY <1>0, <1>2, <1>3, AppendProperties, OneMore
<1>5. /\ fr \in Seq(Seq(E)) /\ Len(fr) = c - 1
      /\ \A i \in 1 .. c - 1 : fr[i] = cs[i] /\ ds[i] = cs[i]
      /\ ds[c] = new /\ Len(ds) = c /\ ds \in Seq(Seq(E))
  <2>1. PICK F : F = Seq(E)
    OBVIOUS
  <2>2. cs \in Seq(F) /\ Len(cs) >= 1 /\ new \in F
    BY <1>1, <1>4, <2>1
  <2>3. /\ Front(cs) \in Seq(F) /\ Len(Front(cs)) = Len(cs) - 1
        /\ \A i \in 1 .. Len(cs) - 1 : Front(cs)[i] = cs[i] /\ Append(Front(cs), new)[i] = cs[i]
        /\ Append(Front(cs), new)[Len(cs)] = new /\ Len(Append(Front(cs), new)) = Len(cs)
        /\ Append(Front(cs), new) \in Seq(F)
    BY <2>2, FrontLast
  <2> QED BY <1>0, <2>1, <2>3
<1>6. last # <<>> => k - 1 # 0
  <2>1. SUFFICES ASSUME k - 1 = 0 PROVE last = <<>>
    OBVIOUS
  <2>2. cs = << <<>> >>
    BY <2>1 DEF Chunked
  <2> QED BY <1>0, <2>2
<1>7. last = <<>> => k - 1 = 0 /\ c = 1
  <2>1. SUFFICES ASSUME last = <<>> PROVE k - 1 = 0 /\ c = 1
    OBVIOUS
  <2>2. k - 1 = 0
    <3>1. SUFFICES ASSUME k - 1 # 0 PROVE FALSE
      OBVIOUS
    <3>2. Len(cs[c]) >= 1
      BY <1>1, <3>1 DEF Chunked
    <3> QED BY <1>0, <2>1, <3>2
  <2>3. cs = << <<>> >>
    BY <2>2 DEF Chunked
  <2> QED BY <2>2, <2>3
<1> HIDE DEF E, c
<1>8. FlattenSeq(ds) = SubSeq(ns, 1, k)
  <2>1. PICK m \in Nat : c = m + 1 /\ m = c - 1
    <3>1. c - 1 \in Nat /\ c = (c - 1) + 1
      BY <1>1
    <3> QED BY <3>1
  <2>2. fr \in [1..m -> Seq(E)] /\ cs \in [1 .. m + 1 -> Seq(E)] /\ ds \in [1 .. m + 1 -> Seq(E)]
    <3>1. /\ DOMAIN fr = 1..m /\ DOMAIN ds = 1 .. m + 1
      BY <1>5, <2>1, LenProperties
    <3>2. (\A i \in 1..m : fr[i] \in Seq(E)) /\ \A i \in 1 .. m + 1 : ds[i] \in Seq(E)
      BY <1>5, <3>1, ElementOfSeq
    <3>3. fr = [i \in 1..m |-> fr[i]] /\ ds = [i \in 1 .. m + 1 |-> ds[i]]
          /\ cs = [i \in 1 .. m + 1 |-> cs[i]]
      BY <1>1, <1>5, <2>1, SeqDef, LenProperties
    <3> QED BY <1>1, <2>1, <3>2, <3>3
  <2>3. (\A i \in 1..m : cs[i] = fr[i]) /\ (\A i \in 1..m : ds[i] = fr[i])
    BY <1>5, <2>1
  <2>4. FlattenSeq(cs) = FlattenSeq(fr) \o cs[m + 1]
    BY <2>2, <2>3, FlattenGrows
  <2>5. FlattenSeq(ds) = FlattenSeq(fr) \o ds[m + 1]
    BY <2>2, <2>3, FlattenGrows
  <2>6. PICK a \in Seq(E) : a = FlattenSeq(fr)
    BY <2>2, FlattenType
  <2>7. FlattenSeq(cs) = a \o last /\ FlattenSeq(ds) = a \o new
    BY <1>0, <1>5, <2>1, <2>4, <2>5, <2>6
  <2>8. new = last \o <<n>> /\ <<n>> \in Seq(E)
    BY <1>0, <1>2, <1>3
  <2>9. PICK x : x = a \o last
    OBVIOUS
  <2>10. x \o <<n>> = a \o new
    BY <1>3, <2>6, <2>8, <2>9, Regroup
  <2>11. SubSeq(ns, 1, k) = SubSeq(ns, 1, k - 1) \o <<n>>
    BY <1>2
  <2> QED BY <1>1, <2>7, <2>9, <2>10, <2>11
<1>9. ASSUME NEW i \in 1..c
      PROVE  /\ Len(ds[i]) >= 1
             /\ \A j \in 1..Len(ds[i]) : \E m \in 1..k : ds[i][j] = ns[m]
             /\ Len(ds[i]) > 1 => TotalChars(ds[i]) <= MaxChars
  <2>0. /\ \A j \in 1..Len(cs[i]) : \E m \in 1 .. k - 1 : cs[i][j] = ns[m]
        /\ Len(cs[i]) > 1 => TotalChars(cs[i]) <= MaxChars
        /\ k - 1 # 0 => Len(cs[i]) >= 1
    BY DEF Chunked, c
  <2>1. \A m \in 1 .. k - 1 : m \in 1..k
    BY <1>2
  <2>2. CASE i = c
    <3>1. ds[i] = new /\ cs[i] = last
      BY <1>0, <1>5, <2>2
    <3>2. ASSUME NEW j \in 1..Len(new) PROVE \E m \in 1..k : new[j] = ns[m]
      <4>1. CASE j = Len(last) + 1
        BY <1>2, <1>4, <4>1
      <4>2. CASE j # Len(last) + 1
        <5>1. j \in 1..Len(last)
          BY <1>3, <1>4, <4>2
        <5>2. new[j] = last[j]
          BY <1>4, <5>1
        <5> QED BY <2>0, <2>1, <3>1, <5>1, <5>2
      <4> QED BY <4>1, <4>2
    <3>3. ASSUME Len(new) > 1 PROVE TotalChars(new) <= MaxChars
      <4>1. last # <<>>
        <5>1. Len(last) # 0
          BY <1>3, <1>4, <3>3
        <5> QED BY <5>1
      <4>2. ~(TotalChars(last) + RawChars(n) > MaxChars)
        BY <1>3, <4>1
      <4>3. TotalChars(new) = TotalChars(last) + RawChars(n)
        BY <1>0, <1>2, <1>3, TotalGrows DEF E
      <4>4. TotalChars(last) \in Nat /\ RawChars(n) \in Nat /\ MaxChars \in Nat
        BY <1>2, <1>3, TotalType, RawType, WindowAssumption DEF E
      <4> QED BY <4>2, <4>3, <4>4
    <3> QED BY <1>3, <1>4, <3>1, <3>2, <3>3
  <2>3. CASE i # c
    <3>1. i \in 1 .. c - 1 /\ ds[i] = cs[i]
      BY <1>1, <1>5, <2>3
    <3>2. k - 1 # 0
      BY <1>1, <1>6, <1>7, <3>1
    <3> QED BY <2>0, <2>1, <3>1, <3>2
  <2> QED BY <2>2, <2>3
<1>10. ASSUME NEW i \in 2..c
       PROVE  TotalChars(ds[i - 1]) + RawChars(ds[i][1]) > MaxChars
  <2>1. TotalChars(cs[i - 1]) + RawChars(cs[i][1]) > MaxChars
    BY DEF Chunked, c
  <2>2. i - 1 \in 1 .. c - 1 /\ ds[i - 1] = cs[i - 1]
    BY <1>1, <1>5
  <2>3. ds[i][1] = cs[i][1]
    <3>1. CASE i = c
      <4>1. last # <<>>
        BY <1>1, <1>7, <3>1
      <4>2. 1 \in 1..Len(last)
        BY <1>3, <4>1
      <4> QED BY <1>0, <1>4, <1>5, <3>1, <4>2
    <3>2. CASE i # c
      <4>1. i \in 1 .. c - 1
        BY <1>1, <3>2
      <4> QED BY <1>5, <4>1
    <3> QED BY <3>1, <3>2
  <2> QED BY <2>1, <2>2, <2>3
<1>11. ds[1][1] = ns[1]
  <2>1. CASE last = <<>>
    <3>1. k = 1 /\ c = 1 /\ Len(last) = 0
      BY <1>2, <1>7, <2>1
    <3>2. new[1] = n
      BY <1>4, <3>1
    <3> QED BY <1>5, <3>1, <3>2
  <2>2. CASE last # <<>>
    <3>1. cs[1][1] = ns[1]
      BY <1>6, <2>2 DEF Chunked
    <3>2. CASE c = 1
      <4>1. 1 \in 1..Len(last)
        BY <1>3, <2>2
      <4> QED BY <1>0, <1>4, <1>5, <3>1, <3>2, <4>1
    <3>3. CASE c # 1
      <4>1. 1 \in 1 .. c - 1
        BY <1>1, <3>3
      <4> QED BY <1>5, <3>1, <4>1
    <3> QED BY <3>2, <3>3
  <2> QED BY <2>1, <2>2
<1>12. Len(ds) = c /\ c >= 1 /\ k # 0 /\ ds \in Seq(Seq(E))
  BY <1>1, <1>2, <1>5
<1>13. Chunked(ds, ns, k)
  BY <1>8, <1>9, <1>10, <1>11, <1>12 DEF Chunked, E
<1> QED BY <1>0, <1>3, <1>13

LEMMA ChunksAre ==
  ASSUME ParseInv, NEW ns \in Seq(DOMAIN nodes)
  PROVE  Chunked(Chunks(ns), ns, Len(ns))
<1>1. Len(ns) \in Nat /\ DOMAIN ns = 1..Len(ns)
  BY LenProperties
<1>2. PICK f : /\ Chunks(ns) = f[Len(ns)] /\ f[0] = << <<>> >>
               /\ \A k \in 1..Len(ns) : f[k] = ChunkStep(f[k - 1], ns[k])
  BY ChunksStep
<1> DEFINE N == {k \in Nat : k <= Len(ns) => Chunked(f[k], ns, k)}
<1>3. 0 \in N
  <2>1. PICK cs : cs = f[0]
    OBVIOUS
  <2>2. cs = << <<>> >> /\ cs[1] = <<>> /\ Len(cs) = 1 /\ Len(cs[1]) = 0
    BY <1>2, <2>1
  <2>3. <<>> \in Seq(DOMAIN nodes) /\ cs \in Seq(Seq(DOMAIN nodes))
    BY <2>2
  <2>4. FlattenSeq(cs) = <<>>
    <3>1. FlattenSeq(<< <<>> >>) = <<>>
      BY <2>3, FlattenOne
    <3>2. cs = << <<>> >>
      BY <2>2
    <3> QED BY <3>1, <3>2
  <2>5. SubSeq(ns, 1, 0) = <<>>
    BY <1>1
  <2>6. \A i \in 1..Len(cs) : Len(cs[i]) = 0 /\ 1..Len(cs[i]) = {}
    BY <2>2
  <2>7. 2..Len(cs) = {}
    BY <2>2
  <2>8. Chunked(cs, ns, 0)
    BY <2>2, <2>3, <2>4, <2>5, <2>6, <2>7 DEF Chunked
  <2> QED BY <2>1, <2>8
<1>4. ASSUME NEW k \in Nat, k \in N PROVE k + 1 \in N
  <2>1. SUFFICES ASSUME k + 1 <= Len(ns) PROVE Chunked(f[k + 1], ns, k + 1)
    OBVIOUS
  <2>2. PICK j : j = k + 1
    OBVIOUS
  <2>3. j \in 1..Len(ns) /\ j - 1 = k /\ k <= Len(ns)
    BY <1>1, <2>1, <2>2
  <2>4. PICK cs, n : cs = f[k] /\ n = ns[j]
    OBVIOUS
  <2>5. Chunked(cs, ns, j - 1) /\ f[j] = ChunkStep(cs, n)
    BY <1>2, <1>4, <2>3, <2>4
  <2> HIDE DEF N
  <2>6. CASE Last(cs) # <<>> /\ TotalChars(Last(cs)) + RawChars(n) > MaxChars
    <3>1. f[j] = Append(cs, <<n>>)
      BY <2>5, <2>6 DEF ChunkStep
    <3>2. Chunked(Append(cs, <<n>>), ns, j)
      BY <2>3, <2>4, <2>5, <2>6, ChunkedNew
    <3> QED BY <2>2, <3>1, <3>2
  <2>7. CASE ~(Last(cs) # <<>> /\ TotalChars(Last(cs)) + RawChars(n) > MaxChars)
    <3>1. f[j] = Append(Front(cs), Append(Last(cs), n))
      BY <2>5, <2>7 DEF ChunkStep
    <3>2. Chunked(Append(Front(cs), Append(Last(cs), n)), ns, j)
      BY <2>3, <2>4, <2>5, <2>7, ChunkedMore
    <3> QED BY <2>2, <3>1, <3>2
  <2> QED BY <2>6, <2>7
<1>5. Len(ns) \in N
  <2> HIDE DEF N
  <2> QED BY <1>1, <1>3, <1>4, SetInduction
<1> QED BY <1>1, <1>2, <1>5

\* However a section is split, the parts are nonempty, within the budget unless
\* they are one node, cut only where the next would not fit, and together it.
LEMMA SplitIs ==
  ASSUME ParseInv, NEW ns \in Seq(DOMAIN nodes), ns # <<>>
  PROVE  Chunked(SplitOversized(ns), ns, Len(ns)) /\ Len(ns) # 0 /\ Len(ns) \in Nat
<1>1. Len(ns) \in Nat /\ Len(ns) # 0 /\ DOMAIN ns = 1..Len(ns)
  BY LenProperties, EmptySeq
<1>2. CASE ~(TotalChars(ns) <= MaxChars)
  BY <1>1, <1>2, ChunksAre DEF SplitOversized
<1>3. CASE TotalChars(ns) <= MaxChars
  <2>1. PICK cs : cs = <<ns>>
    OBVIOUS
  <2>2. SplitOversized(ns) = cs
    BY <1>3, <2>1 DEF SplitOversized
  <2>3. cs \in Seq(Seq(DOMAIN nodes)) /\ Len(cs) = 1 /\ cs[1] = ns
    BY <2>1
  <2>4. FlattenSeq(cs) = ns
    BY <2>1, FlattenOne
  <2>5. SubSeq(ns, 1, Len(ns)) = ns
    BY SubSeqFull
  <2>6. ASSUME NEW i \in 1..Len(cs)
        PROVE  /\ Len(cs[i]) >= 1
               /\ \A j \in 1..Len(cs[i]) : \E m \in 1..Len(ns) : cs[i][j] = ns[m]
               /\ TotalChars(cs[i]) <= MaxChars
    <3>1. cs[i] = ns
      BY <2>3
    <3> QED BY <1>1, <1>3, <3>1
  <2>7. 2..Len(cs) = {} /\ Len(cs) >= 1 /\ cs[1][1] = ns[1]
    BY <2>3
  <2>8. Chunked(cs, ns, Len(ns))
    BY <1>1, <2>3, <2>4, <2>5, <2>6, <2>7 DEF Chunked
  <2> QED BY <1>1, <2>2, <2>8
<1> QED BY <1>2, <1>3

\* Past parsing, lengths stay as they are.
LEMMA CharsFixed ==
  ASSUME text' = text, nodes' = nodes
  PROVE  /\ \A n : RawChars(n)' = RawChars(n)
         /\ \A ns : TotalChars(ns)' = TotalChars(ns)
<1>1. ASSUME NEW n PROVE RawChars(n)' = RawChars(n)
  BY DEF RawChars, ContentOf, MapThenSumSet, MapThenFoldSet
<1>2. ASSUME NEW ns PROVE TotalChars(ns)' = TotalChars(ns)
  BY <1>1 DEF TotalChars, MapThenSumSet, MapThenFoldSet
<1> QED BY <1>1, <1>2

-----------------------------------------------------------------------------
(* Windows *)

WNodes(ws) == [i \in 1..Len(ws) |-> ws[i].nodes]

\* A window keeps to its section and to the budget.
GoodWindow(ns) ==
  /\ ns \in Seq(DOMAIN nodes) /\ Len(ns) >= 1
  /\ \A k \in ns[1] + 1 .. ns[Len(ns)] : ~IsHeading(k)
  /\ Len(ns) > 1 => TotalChars(ns) <= MaxChars

\* Why m does not go on where ns ends.
CutBefore(ns, m) ==
  \/ TotalChars(ns) + RawChars(m) > MaxChars
  \/ \E k \in ns[Len(ns)] + 1 .. m : IsHeading(k)

Sections(ws) ==
  /\ \E S : ws \in Seq(S)
  /\ \A i \in 1..Len(ws) : GoodWindow(ws[i].nodes)
  /\ \A i \in 2..Len(ws) : CutBefore(ws[i - 1].nodes, ws[i].nodes[1])

Below(ws, m) == \A i \in 1..Len(ws) : \A j \in 1..Len(ws[i].nodes) : ws[i].nodes[j] < m

\* The open section begins with its heading, unless it is the first.
OpenPart ==
  /\ current \in Seq(DOMAIN nodes)
  /\ \A j \in 1..Len(current) : current[1] <= current[j] /\ current[j] < at
  /\ current # <<>> =>
       /\ \A k \in current[1] + 1 .. at - 1 : ~IsHeading(k)
       /\ Below(windows, current[1])
       /\ windows # <<>> => IsHeading(current[1])
  /\ current = <<>> /\ pc = "sections" => windows = <<>>

\* s is the nodes up to b that are no footnotes, in their order.
Kept(s, b) ==
  /\ s \in Seq(Nat)
  /\ \A i \in 1..Len(s) : s[i] \in 1..b /\ nodes[s[i]].kind # "footnote"
  /\ \A m \in 1..b : nodes[m].kind # "footnote" => \E i \in 1..Len(s) : s[i] = m
  /\ \A i, j \in 1..Len(s) : i < j => s[i] < s[j]

\* The inductive invariant of planning.
WindowInv ==
  /\ pc \notin {"sections", "gate", "conflicts", "planned"} =>
       at = 1 /\ current = <<>> /\ windows = <<>>
  /\ at \in 1 .. Len(nodes) + 1
  /\ Planned => at = Len(nodes) + 1 /\ current = <<>>
  /\ Sections(windows) /\ Below(windows, at)
  /\ OpenPart
  /\ Kept(FlattenSeq(WNodes(windows)) \o current, at - 1)

LEMMA WNodesType ==
  ASSUME NEW ws, Sections(ws)
  PROVE  /\ Len(ws) \in Nat /\ WNodes(ws) \in [1..Len(ws) -> Seq(DOMAIN nodes)]
         /\ FlattenSeq(WNodes(ws)) \in Seq(DOMAIN nodes)
<1>1. Len(ws) \in Nat
  BY LenProperties DEF Sections
<1>2. WNodes(ws) \in [1..Len(ws) -> Seq(DOMAIN nodes)]
  BY DEF WNodes, Sections, GoodWindow
<1> QED BY <1>1, <1>2, FlattenType

\* Closing a section takes the whole of it into windows.
LEMMA ClosedIs ==
  ASSUME ParseInv, WindowInv
  PROVE  /\ Sections(Closed) /\ Below(Closed, at)
         /\ FlattenSeq(WNodes(Closed)) = FlattenSeq(WNodes(windows)) \o current
<1>0. Sections(windows) /\ Below(windows, at) /\ OpenPart /\ DOMAIN nodes \subseteq Nat /\ at \in Nat
  BY NodeFacts DEF WindowInv
<1>1. CASE current = <<>>
  <2>1. Closed = windows
    BY <1>1 DEF Closed
  <2>2. PICK a \in Seq(DOMAIN nodes) : a = FlattenSeq(WNodes(windows))
    BY <1>0, WNodesType
  <2>3. a \o <<>> = a
    OBVIOUS
  <2> QED BY <1>0, <1>1, <2>1, <2>2, <2>3
<1>2. CASE current # <<>>
  <2> DEFINE w == Len(windows)
  <2>1. PICK cs : cs = SplitOversized(current)
    OBVIOUS
  <2>2. Chunked(cs, current, Len(current)) /\ Len(current) # 0 /\ Len(current) \in Nat
    BY <1>0, <1>2, <2>1, SplitIs DEF OpenPart
  <2>3. PICK c : c = Len(cs)
    OBVIOUS
  <2>4. /\ cs \in Seq(Seq(DOMAIN nodes)) /\ c \in Nat /\ c >= 1 /\ DOMAIN cs = 1..c
        /\ \A i \in 1..c : cs[i] \in Seq(DOMAIN nodes) /\ Len(cs[i]) \in Nat /\ Len(cs[i]) >= 1
    <3>1. cs \in Seq(Seq(DOMAIN nodes)) /\ c >= 1
      BY <2>2, <2>3 DEF Chunked
    <3>2. c \in Nat /\ DOMAIN cs = 1..c
      BY <2>3, <3>1, LenProperties
    <3>3. ASSUME NEW i \in 1..c
          PROVE  cs[i] \in Seq(DOMAIN nodes) /\ Len(cs[i]) \in Nat /\ Len(cs[i]) >= 1
      <4>1. cs[i] \in Seq(DOMAIN nodes)
        BY <3>1, <3>2, <3>3, ElementOfSeq
      <4>2. Len(cs[i]) >= 1
        BY <2>2, <2>3 DEF Chunked
      <4> QED BY <4>1, <4>2, LenProperties
    <3> QED BY <3>1, <3>2, <3>3
  <2>5. PICK new : new = [i \in DOMAIN cs |->
             [section |-> NextSection, part |-> i, of |-> Len(cs), nodes |-> cs[i]]]
    OBVIOUS
  <2>6. PICK cl : cl = windows \o new
    OBVIOUS
  <2>7. Closed = cl
    BY <1>2, <2>1, <2>5, <2>6 DEF Closed
  <2>8. /\ w \in Nat /\ Len(cl) = w + c /\ \E S : cl \in Seq(S)
        /\ \A i \in 1..w : cl[i] = windows[i]
        /\ \A i \in 1..c : cl[w + i].nodes = cs[i]
    <3>1. PICK S : windows \in Seq(S)
      BY <1>0 DEF Sections
    <3>2. PICK U : U = S \cup {new[i] : i \in 1..c}
      OBVIOUS
    <3>3. windows \in Seq(U)
      BY <3>1, <3>2, SeqMonotonic
    <3>4. new \in [1..c -> U]
      BY <2>4, <2>5, <3>2
    <3>5. new \in Seq(U) /\ Len(new) = c
      BY <2>4, <3>4, Sequences
    <3>6. /\ cl \in Seq(U) /\ Len(cl) = w + c /\ w \in Nat
          /\ \A i \in 1 .. w + c : cl[i] = IF i <= w THEN windows[i] ELSE new[i - w]
      BY <2>6, <3>3, <3>5, ConcatProperties, LenProperties
    <3>7. ASSUME NEW i \in 1..c PROVE cl[w + i].nodes = cs[i]
      <4>1. w + i \in 1 .. w + c /\ ~(w + i <= w) /\ (w + i) - w = i
        BY <2>4, <3>6
      <4>2. new[i].nodes = cs[i]
        BY <2>4, <2>5
      <4> QED BY <3>6, <4>1, <4>2
    <3>8. ASSUME NEW i \in 1..w PROVE cl[i] = windows[i]
      <4>1. i \in 1 .. w + c /\ i <= w
        BY <2>4, <3>6
      <4> QED BY <3>6, <4>1
    <3> QED BY <3>6, <3>7, <3>8
  <2> HIDE DEF w
  <2>9. \A i \in 1 .. w + c : i \in 1..w \/ \E j \in 1..c : i = w + j
    <3>1. ASSUME NEW i \in 1 .. w + c, i \notin 1..w PROVE \E j \in 1..c : i = w + j
      <4>1. i - w \in 1..c /\ i = w + (i - w)
        BY <2>4, <2>8, <3>1
      <4> QED BY <4>1
    <3> QED BY <3>1
  <2>10. ASSUME NEW i \in 1..c, NEW j \in 1..Len(cs[i])
         PROVE  /\ cs[i][j] \in DOMAIN nodes /\ cs[i][j] \in Nat
                /\ current[1] <= cs[i][j] /\ cs[i][j] < at
    <3>1. PICK m \in 1..Len(current) : cs[i][j] = current[m]
      BY <2>2, <2>3 DEF Chunked
    <3>2. current[m] \in DOMAIN nodes
      BY <1>0, ElementOfSeq, LenProperties DEF OpenPart
    <3> QED BY <1>0, <3>1, <3>2 DEF OpenPart
  <2>11. current[1] \in Nat /\ current[1] \in DOMAIN nodes
    <3>1. 1 \in 1..Len(current)
      BY <2>2
    <3> QED BY <1>0, <3>1, ElementOfSeq, LenProperties DEF OpenPart
  <2>12. ASSUME NEW i \in 1..c PROVE GoodWindow(cs[i])
    <3>1. Len(cs[i]) > 1 => TotalChars(cs[i]) <= MaxChars
      BY <2>2, <2>3 DEF Chunked
    <3>2. PICK a, b : a = cs[i][1] /\ b = cs[i][Len(cs[i])]
      OBVIOUS
    <3>3. 1 \in 1..Len(cs[i]) /\ Len(cs[i]) \in 1..Len(cs[i])
      BY <2>4
    <3>4. a \in Nat /\ b \in Nat /\ current[1] <= a /\ b < at
      BY <2>10, <3>2, <3>3
    <3>5. \A k \in a + 1 .. b : ~IsHeading(k)
      <4>1. \A k \in a + 1 .. b : k \in current[1] + 1 .. at - 1
        BY <1>0, <2>11, <3>4
      <4> QED BY <1>0, <1>2, <4>1 DEF OpenPart
    <3> QED BY <2>4, <3>1, <3>2, <3>5 DEF GoodWindow
  <2>13. ASSUME NEW i \in 1 .. w + c PROVE GoodWindow(cl[i].nodes)
    <3>1. CASE i \in 1..w
      BY <1>0, <2>8, <3>1 DEF Sections, w
    <3>2. CASE \E j \in 1..c : i = w + j
      BY <2>8, <2>12, <3>2
    <3> QED BY <2>9, <3>1, <3>2
  <2>14. ASSUME NEW i \in 2 .. w + c PROVE CutBefore(cl[i - 1].nodes, cl[i].nodes[1])
    <3>0. i \in 1 .. w + c /\ i \in Nat /\ i - 1 >= 1
      BY <2>4, <2>8
    <3>1. CASE i \in 1..w
      <4>1. i \in 2..w /\ i - 1 \in 1..w
        BY <2>8, <3>0, <3>1
      <4>2. CutBefore(windows[i - 1].nodes, windows[i].nodes[1])
        BY <1>0, <4>1 DEF Sections, w
      <4> QED BY <2>8, <3>1, <4>1, <4>2
    <3>2. CASE i = w + 1
      <4>1. i - 1 = w /\ w \in 1..w /\ 1 \in 1..c
        BY <2>4, <2>8, <3>0, <3>2
      <4>2. cl[i - 1] = windows[w] /\ cl[i].nodes = cs[1]
        BY <2>8, <3>2, <4>1
      <4>3. cs[1][1] = current[1]
        BY <2>2 DEF Chunked
      <4>4. PICK ns : ns = windows[w].nodes
        OBVIOUS
      <4>5. GoodWindow(ns)
        BY <1>0, <4>1, <4>4 DEF Sections, w
      <4>6. Len(ns) \in 1..Len(ns) /\ ns[Len(ns)] \in Nat
        <5>1. ns \in Seq(DOMAIN nodes) /\ Len(ns) >= 1
          BY <4>5 DEF GoodWindow
        <5>2. Len(ns) \in Nat /\ DOMAIN ns = 1..Len(ns)
          BY <5>1, LenProperties
        <5>3. Len(ns) \in 1..Len(ns)
          BY <5>1, <5>2
        <5> QED BY <1>0, <5>1, <5>2, <5>3, ElementOfSeq
      <4>7. ns[Len(ns)] < current[1]
        <5>1. Below(windows, current[1])
          BY <1>0, <1>2 DEF OpenPart
        <5> QED BY <4>1, <4>4, <4>6, <5>1 DEF Below, w
      <4>8. IsHeading(current[1])
        <5>1. windows # <<>>
          <6>1. SUFFICES ASSUME windows = <<>> PROVE FALSE
            OBVIOUS
          <6>2. w = 0
            BY <6>1 DEF w
          <6> QED BY <4>1, <6>2
        <5> QED BY <1>0, <1>2, <5>1 DEF OpenPart
      <4>9. current[1] \in ns[Len(ns)] + 1 .. current[1]
        BY <2>11, <4>6, <4>7
      <4>10. CutBefore(ns, current[1])
        BY <4>8, <4>9 DEF CutBefore
      <4> QED BY <4>2, <4>3, <4>4, <4>10
    <3>3. CASE i \notin 1..w /\ i # w + 1
      <4>1. PICK j \in 1..c : i = w + j
        BY <2>9, <3>0, <3>3
      <4>2. j \in 2..c /\ j - 1 \in 1..c /\ i - 1 = w + (j - 1)
        BY <2>4, <2>8, <3>3, <4>1
      <4>3. TotalChars(cs[j - 1]) + RawChars(cs[j][1]) > MaxChars
        BY <2>2, <2>3, <4>2 DEF Chunked
      <4>4. cl[i - 1].nodes = cs[j - 1] /\ cl[i].nodes = cs[j]
        BY <2>8, <4>1, <4>2
      <4> QED BY <4>3, <4>4 DEF CutBefore
    <3> QED BY <3>1, <3>2, <3>3
  <2>15. Sections(cl)
    BY <2>8, <2>13, <2>14 DEF Sections
  <2>16. Below(cl, at)
    <3>1. ASSUME NEW i \in 1 .. w + c, NEW j \in 1..Len(cl[i].nodes) PROVE cl[i].nodes[j] < at
      <4>1. CASE i \in 1..w
        BY <1>0, <2>8, <4>1 DEF Below, w
      <4>2. CASE \E k \in 1..c : i = w + k
        <5>1. PICK k \in 1..c : i = w + k
          BY <4>2
        <5>2. cl[i].nodes = cs[k]
          BY <2>8, <5>1
        <5> QED BY <2>10, <5>2
      <4> QED BY <2>9, <4>1, <4>2
    <3> QED BY <2>8, <3>1 DEF Below
  <2>17. FlattenSeq(WNodes(cl)) = FlattenSeq(WNodes(windows)) \o current
    <3>1. PICK x, a : x = WNodes(cl) /\ a = WNodes(windows)
      OBVIOUS
    <3>2. x \in [1 .. w + c -> Seq(DOMAIN nodes)] /\ a \in [1..w -> Seq(DOMAIN nodes)]
      BY <1>0, <2>8, <2>15, <3>1, WNodesType DEF w
    <3>3. cs \in [1..c -> Seq(DOMAIN nodes)]
      BY <2>3, <2>4, LenProperties
    <3>4. \A i \in 1..w : x[i] = a[i]
      <4>1. \A i \in 1..w : i \in 1 .. w + c
        BY <2>4, <2>8
      <4> QED BY <2>8, <3>1, <4>1 DEF WNodes, w
    <3>5. \A i \in 1..c : x[w + i] = cs[i]
      <4>1. \A i \in 1..c : w + i \in 1 .. w + c
        BY <2>4, <2>8
      <4> QED BY <2>8, <3>1, <4>1 DEF WNodes
    <3>6. Joins(DOMAIN nodes, x, a, w, cs, c)
      BY <2>4, <2>8, <3>2, <3>3, <3>4, <3>5 DEF Joins
    <3>7. FlattenSeq(x) = FlattenSeq(a) \o FlattenSeq(cs)
      BY <3>6, FlattenConcat
    <3>8. FlattenSeq(cs) = current
      <4>1. SubSeq(current, 1, Len(current)) = current
        BY <1>0, SubSeqFull DEF OpenPart
      <4> QED BY <2>2, <4>1 DEF Chunked
    <3> QED BY <3>1, <3>7, <3>8
  <2> QED BY <2>7, <2>15, <2>16, <2>17
<1> QED BY <1>1, <1>2

LEMMA Fresh ==
  ~Planned /\ at = 1 /\ current = <<>> /\ windows = <<>> /\ Len(nodes) \in Nat => WindowInv
<1> SUFFICES ASSUME ~Planned, at = 1, current = <<>>, windows = <<>>, Len(nodes) \in Nat
             PROVE  WindowInv
  OBVIOUS
<1>1. PICK zero \in Nat : zero = 0
  OBVIOUS
<1>2. Len(windows) = zero /\ Len(current) = zero /\ 1..zero = {} /\ 2..zero = {} /\ at - 1 = zero
  BY <1>1
<1>3. Sections(windows) /\ Below(windows, at)
  <2>1. windows \in Seq({})
    OBVIOUS
  <2> QED BY <1>2, <2>1 DEF Sections, Below
<1>4. OpenPart
  <2>1. current \in Seq(DOMAIN nodes)
    OBVIOUS
  <2> QED BY <1>2, <2>1 DEF OpenPart
<1>5. PICK s : s = FlattenSeq(WNodes(windows)) \o current
  OBVIOUS
<1>6. s = <<>>
  <2>1. WNodes(windows) = <<>>
    BY <1>1, <1>2 DEF WNodes
  <2>2. FlattenSeq(<<>>) = <<>>
    BY FlattenNone
  <2> QED BY <1>5, <2>1, <2>2
<1>7. Kept(s, at - 1)
  <2>1. s \in Seq(Nat) /\ Len(s) = zero
    BY <1>1, <1>6
  <2> QED BY <1>2, <2>1 DEF Kept
<1> QED BY <1>3, <1>4, <1>5, <1>7 DEF WindowInv

\* A footnote is passed over, anything else is put at the end.
LEMMA KeptSkips ==
  ASSUME NEW s, NEW b \in Nat, Kept(s, b), nodes[b + 1].kind = "footnote"
  PROVE  Kept(s, b + 1)
<1>1. \A m \in 1 .. b + 1 : m \in 1..b \/ m = b + 1
  OBVIOUS
<1>2. \A m \in 1..b : m \in 1 .. b + 1
  OBVIOUS
<1> QED BY <1>1, <1>2 DEF Kept

LEMMA KeptTakes ==
  ASSUME NEW s, NEW b \in Nat, Kept(s, b), nodes[b + 1].kind # "footnote",
         NEW t, t = Append(s, b + 1)
  PROVE  Kept(t, b + 1)
<1> DEFINE k == Len(s) + 1
<1>1. /\ s \in Seq(Nat) /\ Len(s) \in Nat /\ t \in Seq(Nat) /\ Len(t) = k
      /\ t[k] = b + 1 /\ \A i \in 1..Len(s) : t[i] = s[i]
  <2>1. s \in Seq(Nat) /\ b + 1 \in Nat
    BY DEF Kept
  <2>2. t \in Seq(Nat)
    BY <2>1, AppendProperties
  <2> QED BY <2>1, <2>2, OneMore
<1>2. \A i \in 1..k : i \in 1..Len(s) \/ i = k
  BY <1>1
<1>3. \A i \in 1..Len(s) : i \in 1..k
  BY <1>1
<1>4. k \in 1..k
  BY <1>1
<1> HIDE DEF k
<1>5. \A i \in 1..k : t[i] \in 1 .. b + 1 /\ nodes[t[i]].kind # "footnote"
  <2>1. \A i \in 1..Len(s) : s[i] \in 1..b /\ nodes[s[i]].kind # "footnote"
    BY DEF Kept
  <2>2. \A m \in 1..b : m \in 1 .. b + 1
    OBVIOUS
  <2>3. b + 1 \in 1 .. b + 1
    OBVIOUS
  <2> QED BY <1>1, <1>2, <2>1, <2>2, <2>3
<1>6. \A m \in 1 .. b + 1 : nodes[m].kind # "footnote" => \E i \in 1..k : t[i] = m
  <2>1. \A m \in 1 .. b + 1 : m \in 1..b \/ m = b + 1
    OBVIOUS
  <2>2. \A m \in 1..b : nodes[m].kind # "footnote" => \E i \in 1..Len(s) : s[i] = m
    BY DEF Kept
  <2> QED BY <1>1, <1>3, <1>4, <2>1, <2>2
<1>7. ASSUME NEW i \in 1..k, NEW j \in 1..k, i < j PROVE t[i] < t[j]
  <2>1. i \in 1..Len(s)
    BY <1>1, <1>2, <1>7 DEF k
  <2>2. s[i] \in 1..b /\ t[i] = s[i]
    BY <1>1, <2>1 DEF Kept
  <2>3. CASE j = k
    BY <1>1, <2>2, <2>3
  <2>4. CASE j \in 1..Len(s)
    BY <1>1, <1>7, <2>1, <2>2, <2>4 DEF Kept
  <2> QED BY <1>2, <2>3, <2>4
<1> QED BY <1>1, <1>5, <1>6, <1>7 DEF Kept

\* What is said of the nodes stays true of them.
LEMMA WindowsFixed ==
  ASSUME text' = text, nodes' = nodes
  PROVE  /\ \A ns : GoodWindow(ns)' = GoodWindow(ns)
         /\ \A ns, m : CutBefore(ns, m)' = CutBefore(ns, m)
         /\ \A s, b : Kept(s, b)' = Kept(s, b)
         /\ \A ws : Sections(ws)' = Sections(ws)
<1>1. \A k : IsHeading(k)' = IsHeading(k)
  BY DEF IsHeading
<1>2. ASSUME NEW ns PROVE GoodWindow(ns)' = GoodWindow(ns)
  BY <1>1, CharsFixed DEF GoodWindow
<1>3. ASSUME NEW ns, NEW m PROVE CutBefore(ns, m)' = CutBefore(ns, m)
  BY <1>1, CharsFixed DEF CutBefore
<1>4. ASSUME NEW s, NEW b PROVE Kept(s, b)' = Kept(s, b)
  BY DEF Kept
<1>5. ASSUME NEW ws PROVE Sections(ws)' = Sections(ws)
  BY <1>2, <1>3 DEF Sections
<1> QED BY <1>2, <1>3, <1>4, <1>5

LEMMA WindowInvInit == CInit => WindowInv
<1> SUFFICES ASSUME CInit PROVE WindowInv
  OBVIOUS
<1>1. pc = "reflow" /\ at = 1 /\ current = <<>> /\ windows = <<>> /\ nodes = <<>>
  BY DEF CInit, WInit, EInit, Init
<1>2. ~Planned /\ Len(nodes) \in Nat
  BY <1>1 DEF Planned
<1> QED BY <1>1, <1>2, Fresh

\* Every step by what it does to the windows.
LEMMA WindowSteps ==
  ASSUME [CNext]_cvars
  PROVE  \/ /\ pc \notin {"sections", "gate", "conflicts", "planned"} /\ ~Planned'
            /\ UNCHANGED plan
         \/ SkipFootnote \/ OpenSection \/ Continue \/ EndOfNodes
         \/ /\ UNCHANGED <<parse, at, current, windows>>
            /\ pc' = pc \/ (Planned /\ Planned')
<1>1. CASE ENext /\ UNCHANGED <<plan, mutual, cluster>>
  <2>1. CASE Read
    BY <1>1, <2>1 DEF Read, Parse, ReadBlank, ReadStarter, ReadText, EndOfText, SplitUnits,
                      Nest, Gate, Planned
  <2>2. CASE Lexicon
    BY <1>1, <2>2 DEF Lexicon, Planned
  <2>3. CASE Patterns
    BY <1>1, <2>3 DEF Patterns, Planned
  <2>4. CASE Merge
    BY <1>1, <2>4 DEF Merge, Planned
  <2> QED BY <1>1, <2>1, <2>2, <2>3, <2>4 DEF ENext
<1>2. CASE Plan
  <2>1. CASE BeginPlan
    BY <2>1 DEF BeginPlan, Planned
  <2>2. CASE ApplyGate
    BY <2>2 DEF ApplyGate, Planned
  <2> QED BY <1>2, <2>1, <2>2 DEF Plan
<1>3. CASE DetectConflicts
  <2>1. UNCHANGED parse /\ UNCHANGED plan /\ Planned /\ Planned'
    BY <1>3 DEF DetectConflicts, Planned
  <2> QED BY <2>1 DEF plan
<1>4. CASE UNCHANGED cvars
  BY <1>4 DEF cvars, wvars, vars, plan
<1> QED BY <1>1, <1>2, <1>3, <1>4 DEF CNext

LEMMA BelowGrows ==
  ASSUME ParseInv, NEW ws, Sections(ws), NEW m \in Nat, Below(ws, m)
  PROVE  Below(ws, m + 1)
<1>1. ASSUME NEW i \in 1..Len(ws), NEW j \in 1..Len(ws[i].nodes) PROVE ws[i].nodes[j] < m + 1
  <2>1. ws[i].nodes \in Seq(DOMAIN nodes)
    BY DEF Sections, GoodWindow
  <2>2. ws[i].nodes[j] \in Nat
    BY <2>1, ElementOfSeq, LenProperties, NodeFacts
  <2>3. ws[i].nodes[j] < m
    BY DEF Below
  <2> QED BY <2>2, <2>3
<1> QED BY <1>1 DEF Below

\* A step among the sections, by what it makes of the windows.
LEMMA Stepped ==
  ASSUME ParseInv, text' = text, nodes' = nodes,
         NEW ws, ws = windows', NEW cur, cur = current', NEW a, a = at',
         a \in 1 .. Len(nodes) + 1,
         pc' = "sections" \/ (pc' = "gate" /\ a = Len(nodes) + 1 /\ cur = <<>>),
         Sections(ws), Below(ws, a), cur \in Seq(DOMAIN nodes),
         \A j \in 1..Len(cur) : cur[1] <= cur[j] /\ cur[j] < a,
         cur # <<>> => /\ \A k \in cur[1] + 1 .. a - 1 : ~IsHeading(k)
                       /\ Below(ws, cur[1]) /\ (ws # <<>> => IsHeading(cur[1])),
         cur = <<>> /\ pc' = "sections" => ws = <<>>,
         NEW s, s = FlattenSeq(WNodes(ws)) \o cur, Kept(s, a - 1)
  PROVE  WindowInv'
<1>1. Sections(ws)' /\ Kept(s, a - 1)'
  BY WindowsFixed
<1>2. Sections(windows)'
  BY <1>1 DEF Sections
<1>3. Below(windows, at)'
  BY DEF Below
<1>4. OpenPart'
  <2>1. \A k : IsHeading(k)' = IsHeading(k)
    BY DEF IsHeading
  <2>2. cur # <<>> => IsHeading(cur[1])' = IsHeading(cur[1])
    BY <2>1
  <2>3. cur # <<>> => Below(windows, current[1])'
    BY DEF Below
  <2>4. current' # <<>> /\ windows' # <<>> => IsHeading(current[1])'
    BY DEF IsHeading
  <2>5. current' # <<>> => (\A k \in current[1] + 1 .. at - 1 : ~IsHeading(k))'
    BY DEF IsHeading
  <2> QED BY <2>3, <2>4, <2>5 DEF OpenPart
<1>5. (FlattenSeq(WNodes(windows)) \o current)' = s
  BY DEF WNodes
<1>6. Kept(FlattenSeq(WNodes(windows)) \o current, at - 1)'
  BY <1>1, <1>5 DEF Kept
<1>7. (at \in 1 .. Len(nodes) + 1)' /\ (Planned => at = Len(nodes) + 1 /\ current = <<>>)'
  BY DEF Planned
<1>8. (pc \in {"sections", "gate", "conflicts", "planned"})'
  OBVIOUS
<1> QED BY <1>2, <1>3, <1>4, <1>6, <1>7, <1>8 DEF WindowInv

LEMMA NodesLen == ParseInv => Len(nodes) \in Nat
BY NodeFacts

LEMMA WindowInvNext == ParseInv /\ ParseInv' /\ WindowInv /\ [CNext]_cvars => WindowInv'
<1> SUFFICES ASSUME ParseInv, ParseInv', WindowInv, [CNext]_cvars PROVE WindowInv'
  OBVIOUS
<1>0. /\ Len(nodes) \in Nat /\ DOMAIN nodes = 1..Len(nodes)
      /\ at \in 1 .. Len(nodes) + 1 /\ at \in Nat
      /\ at - 1 \in Nat /\ (at - 1) + 1 = at /\ (at + 1) - 1 = at
  BY NodeFacts DEF WindowInv
<1>00. Len(nodes') \in Nat
  <2>1. ParseInv' => (Len(nodes) \in Nat)'
    BY NodesLen, PTL
  <2> QED BY <2>1
<1>1. CASE /\ pc \notin {"sections", "gate", "conflicts", "planned"} /\ ~Planned'
           /\ UNCHANGED plan
  <2>1. at' = 1 /\ current' = <<>> /\ windows' = <<>>
    BY <1>1 DEF WindowInv, plan
  <2>2. (~Planned /\ at = 1 /\ current = <<>> /\ windows = <<>> /\ Len(nodes) \in Nat => WindowInv)'
    BY Fresh, PTL
  <2> QED BY <1>00, <1>1, <2>1, <2>2
<1> DEFINE F == FlattenSeq(WNodes(windows))
<1>01. PICK old : old = F \o current
  OBVIOUS
<1>02. /\ Sections(windows) /\ Below(windows, at) /\ OpenPart
       /\ Kept(old, at - 1) /\ F \in Seq(DOMAIN nodes)
       /\ current \in Seq(DOMAIN nodes) /\ Len(current) \in Nat
  <2>1. Sections(windows) /\ Below(windows, at) /\ OpenPart /\ Kept(old, at - 1)
    BY <1>01 DEF WindowInv
  <2>2. current \in Seq(DOMAIN nodes)
    BY <2>1 DEF OpenPart
  <2> QED BY <2>1, <2>2, WNodesType, LenProperties
<1> HIDE DEF F
<1>03. /\ at \in DOMAIN nodes /\ nodes[at].kind = "footnote" => Kept(old, at)
       /\ \A t : at \in DOMAIN nodes /\ nodes[at].kind # "footnote" /\ t = Append(old, at)
                   => Kept(t, at)
  <2>1. PICK b \in Nat : b = at - 1 /\ b + 1 = at
    BY <1>0
  <2>2. Kept(old, b)
    BY <1>02, <2>1
  <2>3. nodes[b + 1].kind = "footnote" => Kept(old, b + 1)
    BY <2>2, KeptSkips
  <2>4. ASSUME NEW t, t = Append(old, b + 1), nodes[b + 1].kind # "footnote" PROVE Kept(t, b + 1)
    BY <2>2, <2>4, KeptTakes
  <2> QED BY <2>1, <2>3, <2>4
<1>04. \A j \in 1..Len(current) : current[j] \in Nat
  BY <1>0, <1>02, ElementOfSeq, LenProperties
<1>05. PICK ws, cur, a : ws = windows' /\ cur = current' /\ a = at'
  OBVIOUS
<1>06. Below(windows, at + 1)
  BY <1>0, <1>02, BelowGrows
<1>2. CASE SkipFootnote
  <2>1. /\ pc = "sections" /\ pc' = "sections" /\ nodes' = nodes /\ text' = text /\ a = at + 1
        /\ cur = current /\ ws = windows
        /\ at \in DOMAIN nodes /\ nodes[at].kind = "footnote"
    BY <1>2, <1>05 DEF SkipFootnote, AtNode, vars, parse
  <2>2. a \in 1 .. Len(nodes) + 1 /\ a - 1 = at
    BY <1>0, <2>1
  <2>3. \A j \in 1..Len(cur) : cur[1] <= cur[j] /\ cur[j] < a
    BY <1>0, <1>02, <1>04, <2>1 DEF OpenPart
  <2>4. cur # <<>> => /\ \A k \in cur[1] + 1 .. a - 1 : ~IsHeading(k)
                      /\ Below(ws, cur[1]) /\ (ws # <<>> => IsHeading(cur[1]))
    <3>1. SUFFICES ASSUME cur # <<>>
                   PROVE  /\ \A k \in cur[1] + 1 .. a - 1 : ~IsHeading(k)
                          /\ Below(ws, cur[1]) /\ (ws # <<>> => IsHeading(cur[1]))
      OBVIOUS
    <3>2. \A k \in cur[1] + 1 .. at - 1 : ~IsHeading(k)
      BY <1>02, <2>1, <3>1 DEF OpenPart
    <3>3. ~IsHeading(at)
      BY <2>1 DEF IsHeading
    <3>4. cur[1] \in Nat
      <4>1. Len(current) # 0
        BY <1>02, <2>1, <3>1, EmptySeq
      <4>2. 1 \in 1..Len(current)
        BY <1>02, <4>1
      <4> QED BY <1>04, <2>1, <4>2
    <3>5. \A k \in cur[1] + 1 .. a - 1 : k \in cur[1] + 1 .. at - 1 \/ k = at
      BY <1>0, <2>1, <2>2, <3>4
    <3> QED BY <1>02, <2>1, <3>1, <3>2, <3>3, <3>5 DEF OpenPart
  <2>5. cur = <<>> /\ pc' = "sections" => ws = <<>>
    BY <1>02, <2>1 DEF OpenPart
  <2>6. old = FlattenSeq(WNodes(ws)) \o cur /\ Kept(old, a - 1)
    BY <1>01, <1>03, <2>1, <2>2 DEF F
  <2> QED BY <1>02, <1>05, <1>06, <2>1, <2>2, <2>3, <2>4, <2>5, <2>6, Stepped
<1>07. PICK cl : cl = Closed
  OBVIOUS
<1>08. Sections(cl) /\ Below(cl, at) /\ FlattenSeq(WNodes(cl)) = old
  BY <1>01, <1>07, ClosedIs DEF F
<1>09. old \in Seq(DOMAIN nodes)
  BY <1>01, <1>02, ConcatProperties
<1>3. CASE OpenSection
  <2>1. /\ pc' = "sections" /\ nodes' = nodes /\ text' = text /\ a = at + 1
        /\ cur = <<at>> /\ ws = cl
        /\ at \in DOMAIN nodes /\ nodes[at].kind = "structural"
    BY <1>3, <1>05, <1>07 DEF OpenSection, AtNode, vars, parse
  <2>2. a \in 1 .. Len(nodes) + 1 /\ a - 1 = at
    BY <1>0, <2>1
  <2>3. cur \in Seq(DOMAIN nodes) /\ Len(cur) = 1 /\ cur[1] = at /\ cur # <<>>
    BY <2>1
  <2>4. \A j \in 1..Len(cur) : cur[1] <= cur[j] /\ cur[j] < a
    <3>1. \A j \in 1..Len(cur) : cur[j] = at
      BY <2>3
    <3> QED BY <1>0, <2>1, <2>3, <3>1
  <2>5. Below(ws, a)
    BY <1>0, <1>08, <2>1, BelowGrows
  <2>6. cur # <<>> => /\ \A k \in cur[1] + 1 .. a - 1 : ~IsHeading(k)
                      /\ Below(ws, cur[1]) /\ (ws # <<>> => IsHeading(cur[1]))
    <3>1. cur[1] + 1 .. a - 1 = {}
      BY <1>0, <2>2, <2>3
    <3> QED BY <1>08, <2>1, <2>3, <3>1 DEF IsHeading
  <2>7. PICK s : s = FlattenSeq(WNodes(ws)) \o cur
    OBVIOUS
  <2>8. Kept(s, a - 1)
    <3>1. s = Append(old, at)
      BY <1>08, <1>09, <2>1, <2>7
    <3> QED BY <1>03, <2>1, <2>2, <3>1
  <2> QED BY <1>05, <1>08, <2>1, <2>2, <2>3, <2>4, <2>5, <2>6, <2>7, <2>8, Stepped
<1>4. CASE Continue
  <2>1. /\ pc = "sections" /\ pc' = "sections" /\ nodes' = nodes /\ text' = text /\ a = at + 1
        /\ cur = Append(current, at) /\ ws = windows
        /\ at \in DOMAIN nodes /\ nodes[at].kind = "proposition"
    BY <1>4, <1>05 DEF Continue, AtNode, vars, parse
  <2>2. a \in 1 .. Len(nodes) + 1 /\ a - 1 = at
    BY <1>0, <2>1
  <2>3. /\ cur \in Seq(DOMAIN nodes) /\ Len(cur) = Len(current) + 1 /\ cur # <<>>
        /\ \A j \in 1..Len(current) : cur[j] = current[j]
        /\ cur[Len(current) + 1] = at
    <3>1. cur \in Seq(DOMAIN nodes)
      BY <1>02, <2>1, AppendProperties
    <3>2. Len(cur) = Len(current) + 1 /\ cur[Len(current) + 1] = at
          /\ \A j \in 1..Len(current) : cur[j] = current[j]
      BY <1>02, <2>1, OneMore
    <3>3. cur # <<>>
      <4>1. Len(cur) # 0
        BY <1>02, <3>2
      <4> QED BY <4>1
    <3> QED BY <3>1, <3>2, <3>3
  <2>4. \A j \in 1..Len(cur) : j \in 1..Len(current) \/ j = Len(current) + 1
    BY <1>02, <2>3
  <2>5. ~IsHeading(at)
    BY <2>1 DEF IsHeading
  <2>6. ASSUME current = <<>>
        PROVE  /\ \A j \in 1..Len(cur) : cur[1] <= cur[j] /\ cur[j] < a
               /\ \A k \in cur[1] + 1 .. a - 1 : ~IsHeading(k)
               /\ Below(ws, cur[1]) /\ (ws # <<>> => IsHeading(cur[1]))
    <3>1. Len(current) = 0 /\ ws = <<>> /\ Len(ws) = 0
      BY <1>02, <2>1, <2>6 DEF OpenPart
    <3>2. cur[1] = at /\ Len(cur) = 1
      BY <2>3, <3>1
    <3>3. \A j \in 1..Len(cur) : cur[1] <= cur[j] /\ cur[j] < a
      <4>1. \A j \in 1..Len(cur) : cur[j] = at
        BY <3>2
      <4>2. at <= at /\ at < a
        BY <1>0, <2>1
      <4> QED BY <3>2, <4>1, <4>2
    <3>4. cur[1] + 1 .. a - 1 = {}
      BY <1>0, <2>2, <3>2
    <3>5. Below(ws, cur[1])
      BY <3>1 DEF Below
    <3> QED BY <3>1, <3>3, <3>4, <3>5
  <2>7. ASSUME current # <<>>
        PROVE  /\ \A j \in 1..Len(cur) : cur[1] <= cur[j] /\ cur[j] < a
               /\ \A k \in cur[1] + 1 .. a - 1 : ~IsHeading(k)
               /\ Below(ws, cur[1]) /\ (ws # <<>> => IsHeading(cur[1]))
    <3>1. Len(current) # 0
      BY <1>02, <2>7, EmptySeq
    <3>2. 1 \in 1..Len(current) /\ cur[1] = current[1] /\ current[1] \in Nat
      <4>1. 1 \in 1..Len(current)
        BY <1>02, <3>1
      <4> QED BY <1>04, <2>3, <4>1
    <3>3. \A j \in 1..Len(current) : current[1] <= current[j] /\ current[j] < at
      BY <1>02 DEF OpenPart
    <3>4. ASSUME NEW j \in 1..Len(cur) PROVE cur[1] <= cur[j] /\ cur[j] < a
      <4>1. CASE j \in 1..Len(current)
        BY <1>0, <1>04, <2>1, <2>3, <3>2, <3>3, <4>1
      <4>2. CASE j = Len(current) + 1
        BY <1>0, <2>1, <2>3, <3>2, <3>3, <4>2
      <4> QED BY <2>4, <4>1, <4>2
    <3>5. \A k \in cur[1] + 1 .. a - 1 : k \in current[1] + 1 .. at - 1 \/ k = at
      BY <1>0, <2>2, <3>2
    <3>6. \A k \in cur[1] + 1 .. a - 1 : ~IsHeading(k)
      BY <1>02, <2>5, <2>7, <3>5 DEF OpenPart
    <3>7. Below(ws, cur[1]) /\ (ws # <<>> => IsHeading(cur[1]))
      BY <1>02, <2>1, <2>7, <3>2 DEF OpenPart
    <3> QED BY <3>4, <3>6, <3>7
  <2>8. PICK s : s = FlattenSeq(WNodes(ws)) \o cur
    OBVIOUS
  <2>9. Kept(s, a - 1)
    <3>1. <<at>> \in Seq(DOMAIN nodes) /\ cur = current \o <<at>>
      BY <1>02, <2>1
    <3>2. old \o <<at>> = F \o cur
      BY <1>01, <1>02, <3>1, Regroup
    <3>3. s = Append(old, at)
      BY <1>09, <2>1, <2>8, <3>2 DEF F
    <3> QED BY <1>03, <2>1, <2>2, <3>3
  <2> QED BY <1>02, <1>05, <1>06, <2>1, <2>2, <2>3, <2>6, <2>7, <2>8, <2>9, Stepped
<1>5. CASE EndOfNodes
  <2>1. /\ pc' = "gate" /\ nodes' = nodes /\ text' = text /\ a = at
        /\ cur = <<>> /\ ws = cl /\ at \notin DOMAIN nodes
    BY <1>5, <1>05, <1>07 DEF EndOfNodes, vars, parse
  <2>2. a \in 1 .. Len(nodes) + 1 /\ a = Len(nodes) + 1
    BY <1>0, <2>1
  <2>3. Len(cur) = 0 /\ cur \in Seq(DOMAIN nodes) /\ 1..Len(cur) = {}
    BY <2>1
  <2>4. old = FlattenSeq(WNodes(ws)) \o cur
    BY <1>08, <1>09, <2>1
  <2> QED BY <1>02, <1>05, <1>08, <2>1, <2>2, <2>3, <2>4, Stepped
<1>6. CASE /\ UNCHANGED <<parse, at, current, windows>>
           /\ pc' = pc \/ (Planned /\ Planned')
  <2>1. nodes' = nodes /\ text' = text /\ at' = at /\ current' = current /\ windows' = windows
    BY <1>6 DEF parse
  <2>2. Sections(windows)' /\ Kept(FlattenSeq(WNodes(windows)) \o current, at - 1)'
    <3>1. PICK v : v = windows
      OBVIOUS
    <3>2. Sections(v)' /\ Kept(old, at - 1) /\ Sections(windows)' = Sections(v)'
      BY <1>02, <2>1, <3>1, WindowsFixed DEF Sections
    <3>3. (FlattenSeq(WNodes(windows)) \o current)' = old
      BY <1>01, <2>1 DEF WNodes, F
    <3> QED BY <2>1, <3>2, <3>3 DEF Kept
  <2>3. Below(windows, at)'
    BY <1>02, <2>1 DEF Below
  <2>4. OpenPart'
    <3>1. pc' = "sections" => pc = "sections"
      BY <1>6 DEF Planned
    <3> QED BY <1>02, <2>1, <3>1 DEF OpenPart, Below, IsHeading
  <2>5. /\ Planned' => Planned
        /\ pc' \notin {"sections", "gate", "conflicts", "planned"} =>
             pc \notin {"sections", "gate", "conflicts", "planned"}
    BY <1>6 DEF Planned
  <2> QED BY <2>1, <2>2, <2>3, <2>4, <2>5 DEF WindowInv
<1> QED BY <1>1, <1>2, <1>3, <1>4, <1>5, <1>6, WindowSteps

LEMMA WindowsHold == CSpec => [](ParseInv /\ WindowInv)
BY DocumentsParse, WindowInvInit, WindowInvNext, PTL DEF CSpec

\* Every node but the footnotes is in exactly one window, in its place
\* (group_sections, _split_oversized).
THEOREM WindowsAreWhole == CSpec => []WindowsTile
<1>1. ParseInv /\ WindowInv => WindowsTile
  <2>1. SUFFICES ASSUME ParseInv, WindowInv, Planned PROVE WindowsTile
    BY DEF WindowsTile
  <2>2. PICK s : s = FlattenSeq([i \in DOMAIN windows |-> windows[i].nodes])
    OBVIOUS
  <2>3. Sections(windows) /\ current = <<>> /\ at = Len(nodes) + 1 /\ Len(nodes) \in Nat
        /\ DOMAIN nodes = 1..Len(nodes)
    BY <2>1, NodeFacts DEF WindowInv
  <2>4. DOMAIN windows = 1..Len(windows)
    BY <2>3, LenProperties DEF Sections
  <2>5. s = FlattenSeq(WNodes(windows)) /\ s \in Seq(DOMAIN nodes)
    BY <2>2, <2>3, <2>4, WNodesType DEF WNodes
  <2>6. FlattenSeq(WNodes(windows)) \o current = s /\ at - 1 = Len(nodes)
    BY <2>3, <2>5
  <2>7. Kept(s, Len(nodes)) /\ DOMAIN s = 1..Len(s)
    BY <2>1, <2>5, <2>6, LenProperties DEF WindowInv
  <2>8. ToSet(s) = {n \in DOMAIN nodes : nodes[n].kind # "footnote"}
    BY <2>3, <2>7 DEF ToSet, Kept
  <2>9. \A i, j \in DOMAIN s : i < j => s[i] < s[j]
    BY <2>7 DEF Kept
  <2> QED BY <2>2, <2>8, <2>9 DEF WindowsTile
<1> QED BY <1>1, WindowsHold, PTL

\* A window keeps to one section and to the budget, and no section is cut that
\* need not be.
THEOREM WindowsKeepSections == CSpec => []WindowsAreSections
<1>1. ParseInv /\ WindowInv => WindowsAreSections
  <2>1. SUFFICES ASSUME ParseInv, WindowInv PROVE WindowsAreSections
    OBVIOUS
  <2>2. Sections(windows) /\ DOMAIN windows = 1..Len(windows) /\ Len(windows) \in Nat
    BY <2>1, LenProperties DEF WindowInv, Sections
  <2>3. ASSUME NEW i \in DOMAIN windows
        PROVE  LET ns == windows[i].nodes IN
               /\ \A k \in ns[1] + 1 .. Last(ns) : nodes[k].kind # "structural"
               /\ Len(ns) > 1 => TotalChars(ns) <= MaxChars
    BY <2>2 DEF Sections, GoodWindow, Last, IsHeading
  <2>4. ASSUME NEW i \in 2..Len(windows)
        PROVE  LET before == windows[i - 1].nodes
                   first == windows[i].nodes[1]
               IN  TotalChars(before) + RawChars(first) > MaxChars
                     \/ \E k \in Last(before) + 1 .. first : nodes[k].kind = "structural"
    BY <2>2 DEF Sections, CutBefore, Last, IsHeading
  <2> QED BY <2>3, <2>4 DEF WindowsAreSections
<1> QED BY <1>1, WindowsHold, PTL

-----------------------------------------------------------------------------
(* Conflicting overrides *)

\* A node is in one window, and stands between the first and the last of it.
LEMMA WindowOf ==
  ASSUME ParseInv, WindowInv, Planned, NEW i \in 1..Len(windows),
         NEW n \in ToSet(windows[i].nodes)
  PROVE  /\ n \in Nat /\ windows[i].nodes[1] \in DOMAIN nodes /\ windows[i].nodes[1] <= n
         /\ \A k \in windows[i].nodes[1] + 1 .. n : ~IsHeading(k)
         /\ \A k \in 1..Len(windows) : n \in ToSet(windows[k].nodes) => k = i
<1>1. PICK N \in Nat : N = Len(windows)
  BY WNodesType DEF WindowInv
<1>2. PICK ss : ss = WNodes(windows)
  OBVIOUS
<1>3. ss \in [1..N -> Seq(DOMAIN nodes)] /\ \A k \in 1..N : ss[k] = windows[k].nodes
  BY <1>1, <1>2, WNodesType DEF WindowInv, WNodes
<1>4. PICK f : f = FlattenSeq(ss)
  OBVIOUS
<1>5. f \in Seq(DOMAIN nodes) /\ DOMAIN nodes \subseteq Nat
  BY <1>2, <1>4, WNodesType, NodeFacts DEF WindowInv
<1>6. f \o current = f
  BY <1>5 DEF WindowInv
<1>7. \A a, b \in 1..Len(f) : a < b => f[a] < f[b]
  BY <1>2, <1>4, <1>6 DEF WindowInv, Kept
<1>8. \A a \in 1..Len(f) : f[a] \in Nat
  BY <1>5, ElementOfSeq
<1>9. ASSUME NEW p \in 1..N, NEW r \in 1..N, NEW q \in 1..Len(ss[p]), NEW t \in 1..Len(ss[r]),
             p < r \/ (p = r /\ q < t)
      PROVE  ss[p][q] < ss[r][t]
  <2>1. PICK a, b \in 1..Len(f) : a < b /\ f[a] = ss[p][q] /\ f[b] = ss[r][t]
    <3>1. PICK E : E = DOMAIN nodes
      OBVIOUS
    <3>2. ss \in [1..N -> Seq(E)]
      BY <1>3, <3>1
    <3>3. Orderly(f, ss, N)
      BY <1>4, <3>2, FlattenOrder
    <3> QED BY <1>9, <3>3 DEF Orderly
  <2> QED BY <1>7, <2>1
<1>10. PICK ns : ns = windows[i].nodes
  OBVIOUS
<1>11. /\ ns \in Seq(DOMAIN nodes) /\ Len(ns) >= 1 /\ Len(ns) \in Nat /\ DOMAIN ns = 1..Len(ns)
       /\ \A k \in ns[1] + 1 .. ns[Len(ns)] : ~IsHeading(k)
  BY <1>10, LenProperties DEF WindowInv, Sections, GoodWindow
<1>12. i \in 1..N /\ ss[i] = ns
  BY <1>1, <1>3, <1>10
<1>18. \A q, t \in 1..Len(ns) : q < t => ns[q] < ns[t]
  BY <1>9, <1>12
<1>13. PICK j \in 1..Len(ns) : ns[j] = n
  BY <1>10, <1>11 DEF ToSet
<1>14. /\ n \in DOMAIN nodes /\ n \in Nat
       /\ ns[1] \in DOMAIN nodes /\ ns[1] \in Nat
       /\ ns[Len(ns)] \in Nat
  BY <1>5, <1>11, <1>13, ElementOfSeq
<1>15. ns[1] <= n /\ n <= ns[Len(ns)]
  <2>1. 1 \in 1..Len(ns) /\ Len(ns) \in 1..Len(ns)
    BY <1>11
  <2>2. j = 1 \/ ns[1] < ns[j]
    BY <1>18, <2>1
  <2>3. j = Len(ns) \/ ns[j] < ns[Len(ns)]
    <3>1. PICK l \in Nat : l = Len(ns)
      BY <1>11
    <3>2. j \in 1..l
      BY <3>1
    <3>3. j = l \/ j < l
      BY <3>2
    <3>4. l \in 1..Len(ns)
      BY <2>1, <3>1
    <3> QED BY <1>18, <3>1, <3>3, <3>4
  <2> QED BY <1>13, <1>14, <2>2, <2>3
<1>16. ASSUME NEW k \in 1..Len(windows), n \in ToSet(windows[k].nodes) PROVE k = i
  <2>1. k \in 1..N /\ ss[k] = windows[k].nodes /\ ss[k] \in Seq(DOMAIN nodes)
    BY <1>1, <1>3
  <2>2. PICK l \in 1..Len(ss[k]) : ss[k][l] = n
    BY <1>16, <2>1, LenProperties DEF ToSet
  <2>3. ~(k < i) /\ ~(i < k)
    BY <1>9, <1>12, <1>13, <1>14, <2>1, <2>2
  <2> QED BY <1>12, <2>1, <2>3
<1>17. \A k \in ns[1] + 1 .. n : ~IsHeading(k)
  BY <1>11, <1>14, <1>15
<1> QED BY <1>10, <1>14, <1>15, <1>16, <1>17

\* The window of a provision under a heading begins with its section's heading.
LEMMA HeadingOf ==
  ASSUME ParseInv, WindowInv, Planned, NEW n \in Provisions, UnderHeading(n)
  PROVE  /\ \E w \in ToSet(windows) : n \in ToSet(w.nodes)
         /\ \A w \in ToSet(windows) : n \in ToSet(w.nodes) => SectionNumber(w) = NumberOver(n)
         /\ EnclosingSection(n) \in DOMAIN nodes /\ IsHeading(EnclosingSection(n))
<1>0. DOMAIN windows = 1..Len(windows) /\ DOMAIN nodes = 1..Len(nodes) /\ Len(nodes) \in Nat
  BY NodeFacts, LenProperties DEF WindowInv, Sections
<1>1. PICK i \in 1..Len(windows) :
        n \in ToSet(windows[i].nodes) /\ IsHeading(windows[i].nodes[1])
  BY <1>0 DEF UnderHeading, ToSet, IsHeading
<1>2. PICK a : a = windows[i].nodes[1]
  OBVIOUS
<1>3. /\ n \in Nat /\ a \in DOMAIN nodes /\ a \in Nat /\ a <= n /\ a > 0
      /\ \A k \in a + 1 .. n : ~IsHeading(k)
      /\ \A k \in 1..Len(windows) : n \in ToSet(windows[k].nodes) => k = i
  BY <1>0, <1>1, <1>2, WindowOf
<1>4. IsHeading(a) /\ ~IsHeading(n)
  BY <1>1, <1>2 DEF Provisions, IsHeading
<1>5. PICK h \in Nat : /\ EnclosingSection(n) = h /\ h < n /\ NoHeading(h, n)
                       /\ h # 0 => h \in DOMAIN nodes /\ IsHeading(h)
  BY EnclosingIs
<1>6. a < n
  BY <1>3, <1>4
<1>7. ~(h < a)
  BY <1>3, <1>4, <1>5, <1>6 DEF NoHeading
<1>8. ~(a < h)
  <2>1. SUFFICES ASSUME a < h PROVE FALSE
    OBVIOUS
  <2>2. h \in a + 1 .. n /\ h # 0
    BY <1>3, <1>5, <2>1
  <2> QED BY <1>3, <1>5, <2>2
<1>9. EnclosingSection(n) = a
  BY <1>3, <1>5, <1>7, <1>8
<1>10. ASSUME NEW w \in ToSet(windows), n \in ToSet(w.nodes) PROVE SectionNumber(w) = NumberOver(n)
  <2>1. PICK k \in 1..Len(windows) : w = windows[k]
    BY <1>0 DEF ToSet
  <2>2. w.nodes[1] = a /\ nodes[a].kind = "structural"
    BY <1>2, <1>3, <1>4, <1>10, <2>1 DEF IsHeading
  <2> QED BY <1>9, <2>2 DEF SectionNumber, NumberOver
<1>11. \E w \in ToSet(windows) : n \in ToSet(w.nodes)
  BY DEF UnderHeading
<1> QED BY <1>3, <1>4, <1>9, <1>10, <1>11

-----------------------------------------------------------------------------
(* What is read of a document stays while its text and its nodes do *)

LEMMA ReadingsFixed ==
  ASSUME text' = text, nodes' = nodes
  PROVE  /\ Provisions' = Provisions
         /\ \A n : Opening(n)' = Opening(n) /\ FirstMatches(n)' = FirstMatches(n)
         /\ \A n, marker, cites : Targets(n, marker, cites)' = Targets(n, marker, cites)
         /\ \A n, num : ClaimsOf(n, num)' = ClaimsOf(n, num)
<1>1. Provisions' = Provisions
  BY DEF Provisions
<1>2. ASSUME NEW n PROVE Opening(n)' = Opening(n)
  BY DEF Opening
<1>3. ASSUME NEW n, NEW i PROVE ContentOf(n, i)' = ContentOf(n, i)
  BY DEF ContentOf
<1>4. ASSUME NEW n PROVE Contents(n)' = Contents(n)
  BY <1>3 DEF Contents
<1>5. ASSUME NEW n PROVE Matches(n)' = Matches(n)
  BY <1>4 DEF Matches
<1>6. ASSUME NEW n PROVE FirstMatches(n)' = FirstMatches(n)
  BY <1>3, <1>5 DEF FirstMatches
<1>7. ASSUME NEW k PROVE SectionOf(k)' = SectionOf(k)
  BY <1>2 DEF SectionOf
<1>8. ASSUME NEW n PROVE EnclosingSection(n)' = EnclosingSection(n)
  BY DEF EnclosingSection
<1>9. ASSUME NEW s, NEW k PROVE SubsectionOf(s, k)' = SubsectionOf(s, k)
  BY <1>1, <1>2, <1>8 DEF SubsectionOf
<1>10. ASSUME NEW n PROVE Siblings(n)' = Siblings(n)
  BY DEF Siblings
<1>11. ASSUME NEW n PROVE Preceding(n)' = Preceding(n) /\ Following(n)' = Following(n)
  BY <1>10 DEF Preceding, Following
<1>12. ASSUME NEW n, NEW c PROVE TargetsOf(n, c)' = TargetsOf(n, c)
  BY <1>7, <1>8, <1>9 DEF TargetsOf
<1>13. ASSUME NEW n, NEW marker, NEW cites
       PROVE  Targets(n, marker, cites)' = Targets(n, marker, cites)
  BY <1>11, <1>12 DEF Targets
<1>14. ASSUME NEW n, NEW x PROVE ReachesAfter(n, x)' = ReachesAfter(n, x)
  BY <1>3 DEF ReachesAfter
<1>15. ASSUME NEW n, NEW num PROVE ClaimsOf(n, num)' = ClaimsOf(n, num)
  BY <1>6, <1>14 DEF ClaimsOf
<1> QED BY <1>1, <1>2, <1>6, <1>13, <1>15

-----------------------------------------------------------------------------
(* Which supersedes edges ingest draws *)

\* A marker of n that supersedes has t among its targets.
Overrides(n, t) ==
  /\ n \in Provisions
  /\ \E x \in FirstMatches(n) : /\ Markers[x[1].marker].type = "supersedes"
                               /\ t \in Targets(n, Markers[x[1].marker], x[1].cites)

Drawn(S, n, t) == \E e \in S : e.type = "supersedes" /\ e.src = n /\ e.dst = t

\* The inductive invariant: what is drawn is what markers say.
OverridesInv ==
  /\ pc = "patterns" => \A e \in raw : e.type # "supersedes"
  /\ pc = "merge" \/ Ingested => \A n, t : Drawn(raw, n, t) <=> Overrides(n, t)
  /\ Ingested => \A n, t : Drawn(edges, n, t) <=> Overrides(n, t)

LEMMA MarkersDraw ==
  ASSUME ParseInv, NEW n, NEW t
  PROVE  Drawn(UnitEdges \cup MarkerEdges, n, t) <=> Overrides(n, t)
<1>1. ASSUME NEW e \in UnitEdges PROVE e.type # "supersedes"
  <2>1. PICK k \in Provisions : e = UnitEdge(k) /\ IsUnit(k)
    BY DEF UnitEdges, UnitEdge
  <2>2. PICK unit : unit = Opening(k).shape
    OBVIOUS
  <2>3. e.type = UnitType[unit] /\ unit \in DOMAIN UnitType
    BY <2>1, <2>2 DEF UnitEdge, Made, IsUnit
  <2> QED BY <2>3 DEF UnitType
<1>2. ASSUME NEW e \in MarkerEdges, e.type = "supersedes" PROVE Overrides(e.src, e.dst)
  <2>1. PICK k \in Provisions : e \in MarkerEdgesOf(k)
    BY DEF MarkerEdges
  <2>2. PICK x, u :
          /\ x \in FirstMatches(k)
          /\ u \in Targets(k, Markers[x[1].marker], x[1].cites)
          /\ e = MarkerEdge(x[1].marker, k, u)
    BY <2>1 DEF MarkerEdgesOf, MarkerEdge
  <2>3. PICK type : type = Markers[x[1].marker].type
    OBVIOUS
  <2>4. e.type = type /\ e.src = Oriented(k, u, type)[1] /\ e.dst = Oriented(k, u, type)[2]
    BY <2>2, <2>3 DEF MarkerEdge, Made
  <2>5. e.src = k /\ e.dst = u
    BY <1>2, <2>4 DEF Oriented
  <2> QED BY <1>2, <2>2, <2>3, <2>4, <2>5 DEF Overrides
<1>3. ASSUME Overrides(n, t) PROVE Drawn(MarkerEdges, n, t)
  <2>1. PICK x \in FirstMatches(n) :
          /\ Markers[x[1].marker].type = "supersedes"
          /\ t \in Targets(n, Markers[x[1].marker], x[1].cites)
    BY <1>3 DEF Overrides
  <2>2. PICK e : e = MarkerEdge(x[1].marker, n, t)
    OBVIOUS
  <2>3. e \in MarkerEdgesOf(n)
    BY <2>1, <2>2 DEF MarkerEdgesOf, MarkerEdge
  <2>4. e \in MarkerEdges
    BY <1>3, <2>3 DEF MarkerEdges, Overrides
  <2>5. e.type = "supersedes" /\ e.src = n /\ e.dst = t
    BY <2>1, <2>2 DEF MarkerEdge, Made, Oriented
  <2> QED BY <2>4, <2>5 DEF Drawn
<1>4. Drawn(UnitEdges \cup MarkerEdges, n, t) => Overrides(n, t)
  BY <1>1, <1>2 DEF Drawn
<1>5. Drawn(MarkerEdges, n, t) => Drawn(UnitEdges \cup MarkerEdges, n, t)
  BY DEF Drawn
<1> QED BY <1>3, <1>4, <1>5

LEMMA OverridesInvInit == CInit => OverridesInv
BY DEF CInit, WInit, EInit, Init, OverridesInv, Ingested

LEMMA OverridesInvNext ==
  ParseInv /\ EdgesInv /\ OverridesInv /\ [CNext]_cvars => OverridesInv'
<1> SUFFICES ASSUME ParseInv, EdgesInv, OverridesInv, [CNext]_cvars PROVE OverridesInv'
  OBVIOUS
<1>0. UNCHANGED <<text, nodes>> => \A n, t : Overrides(n, t)' = Overrides(n, t)
  BY ReadingsFixed DEF Overrides
<1>1. CASE Parse /\ UNCHANGED <<raw, edges>>
  <2>1. pc' \notin {"patterns", "merge"} /\ ~Ingested'
    BY <1>1 DEF Parse, ReadBlank, ReadStarter, ReadText, EndOfText, SplitUnits, Nest, Gate,
                Ingested
  <2> QED BY <2>1 DEF OverridesInv
<1>2. CASE Lexicon
  <2>1. raw' = TreeEdges \cup MentionEdges /\ pc' = "patterns"
    BY <1>2 DEF Lexicon
  <2>2. \A e \in TreeEdges \cup MentionEdges : e.type # "supersedes"
    BY DEF TreeEdges, MentionEdges, Made
  <2> QED BY <2>1, <2>2 DEF OverridesInv, Ingested
<1>3. CASE Patterns
  <2>1. /\ raw' = raw \cup UnitEdges \cup MarkerEdges /\ pc = "patterns" /\ pc' = "merge"
        /\ UNCHANGED <<text, nodes>>
    BY <1>3 DEF Patterns, parse
  <2>2. \A n, t : Drawn(raw', n, t) <=> Drawn(UnitEdges \cup MarkerEdges, n, t)
    BY <2>1 DEF OverridesInv, Drawn
  <2>3. \A n, t : Drawn(raw, n, t)' = Drawn(raw', n, t)
    BY DEF Drawn
  <2>4. \A n, t : Drawn(UnitEdges \cup MarkerEdges, n, t) <=> Overrides(n, t)
    BY MarkersDraw
  <2> QED BY <1>0, <2>1, <2>2, <2>3, <2>4 DEF OverridesInv, Ingested
<1>4. CASE Merge
  <2>1. /\ raw' = raw /\ edges' = Dedupe(raw) /\ pc = "merge" /\ pc' = "ingested"
        /\ UNCHANGED <<text, nodes>>
    BY <1>4 DEF Merge, parse
  <2>2. /\ Dedupe(raw) \subseteq raw
        /\ \A y \in raw : \E d \in Dedupe(raw) : Relation(d) = Relation(y)
    BY DedupeKeeps DEF EdgesInv, EdgeFits
  <2>3. \A d, y : Relation(d) = Relation(y) => d.src = y.src /\ d.dst = y.dst /\ d.type = y.type
    BY DEF Relation
  <2>4. \A n, t : Drawn(Dedupe(raw), n, t) <=> Drawn(raw, n, t)
    BY <2>2, <2>3 DEF Drawn
  <2>5. \A n, t : Drawn(raw, n, t)' = Drawn(raw, n, t) /\ Drawn(edges, n, t)' = Drawn(Dedupe(raw), n, t)
    BY <2>1 DEF Drawn
  <2>6. \A n, t : Drawn(raw, n, t) <=> Overrides(n, t)
    BY <2>1 DEF OverridesInv
  <2> QED BY <1>0, <2>1, <2>4, <2>5, <2>6 DEF OverridesInv
<1>5. CASE /\ UNCHANGED <<parse, raw, edges>>
           /\ pc' = pc \/ (Ingested /\ Ingested')
  <2>1. raw' = raw /\ edges' = edges /\ UNCHANGED <<text, nodes>>
    BY <1>5 DEF parse
  <2>2. /\ pc' = "patterns" => pc = "patterns"
        /\ pc' = "merge" => pc = "merge"
        /\ Ingested' => Ingested
    BY <1>5 DEF Ingested
  <2>3. \A n, t : Drawn(raw, n, t)' = Drawn(raw, n, t) /\ Drawn(edges, n, t)' = Drawn(edges, n, t)
    BY <2>1 DEF Drawn
  <2> QED BY <1>0, <2>1, <2>2, <2>3 DEF OverridesInv
<1> QED BY <1>1, <1>2, <1>3, <1>4, <1>5, ParseSteps

LEMMA OverridesHold == CSpec => [](ParseInv /\ OverridesInv)
BY EdgesHold, OverridesInvInit, OverridesInvNext, PTL DEF CSpec

-----------------------------------------------------------------------------
(* What the detector makes of the claims *)

Found(claims) ==
  /\ mutual = {{p[1].node, p[2].node} : p \in Pairs(claims)}
  /\ cluster = {{c.node : c \in wide} : wide \in Clusters(claims)}

FindingsInv == pc = "planned" => \E claims : claims = OverrideClaims /\ Found(claims)

LEMMA ClaimsFixed ==
  ASSUME text' = text, nodes' = nodes, windows' = windows
  PROVE  OverrideClaims' = OverrideClaims
<1>1. Provisions' = Provisions /\ \A n, num : ClaimsOf(n, num)' = ClaimsOf(n, num)
  BY ReadingsFixed
<1>2. \A n : Opening(n)' = Opening(n)
  BY ReadingsFixed
<1>3. \A w : SectionNumber(w)' = SectionNumber(w)
  BY <1>2 DEF SectionNumber
<1>4. \A w : \E num : num = SectionNumber(w) /\ num = SectionNumber(w)'
  BY <1>3
<1>5. ASSUME NEW w
      PROVE  (UNION {ClaimsOf(n, SectionNumber(w)) : n \in ToSet(w.nodes) \cap Provisions})'
               = UNION {ClaimsOf(n, SectionNumber(w)) : n \in ToSet(w.nodes) \cap Provisions}
  <2>1. PICK num : num = SectionNumber(w) /\ num = SectionNumber(w)'
    BY <1>4
  <2>2. \A n : ClaimsOf(n, SectionNumber(w))' = ClaimsOf(n, num)'
    BY <2>1 DEF ClaimsOf
  <2> QED BY <1>1, <2>1, <2>2
<1> QED BY <1>5 DEF OverrideClaims

LEMMA FindingsInvNext == FindingsInv /\ [CNext]_cvars => FindingsInv'
<1> SUFFICES ASSUME FindingsInv, [CNext]_cvars, pc' = "planned"
             PROVE  \E claims : claims = OverrideClaims' /\ Found(claims)'
  BY DEF FindingsInv
<1>1. CASE DetectConflicts
  <2>1. PICK claims : claims = OverrideClaims
    OBVIOUS
  <2>2. OverrideClaims' = claims
    BY <1>1, <2>1, ClaimsFixed DEF DetectConflicts, parse, plan
  <2>3. Found(claims)'
    BY <1>1, <2>1 DEF DetectConflicts, Found
  <2> QED BY <2>2, <2>3
<1>2. CASE ~DetectConflicts
  <2>1. UNCHANGED cvars
    <3>1. Parse => pc' # "planned"
      <4>2. ReadBlank \/ ReadStarter \/ ReadText => pc' = "reflow"
        BY DEF ReadBlank, ReadStarter, ReadText
      <4>3. EndOfText => pc' = "split"
        BY DEF EndOfText
      <4>4. SplitUnits => pc' = "nest"
        BY DEF SplitUnits
      <4>5. Nest => pc' = "nest"
        BY DEF Nest
      <4>6. Gate => pc' # "planned"
        BY DEF Gate
      <4> QED BY <4>2, <4>3, <4>4, <4>5, <4>6 DEF Parse
    <3>2. Lexicon \/ Patterns \/ Merge => pc' # "planned"
      BY DEF Lexicon, Patterns, Merge
    <3>3. SkipFootnote \/ OpenSection \/ Continue => pc' # "planned"
      BY DEF SkipFootnote, OpenSection, Continue, AtNode, vars
    <3>4. BeginPlan \/ EndOfNodes \/ ApplyGate => pc' # "planned"
      BY DEF BeginPlan, EndOfNodes, ApplyGate
    <3> QED BY <1>2, <3>1, <3>2, <3>3, <3>4 DEF CNext, ENext, Read, Plan
  <2>2. pc = "planned" /\ UNCHANGED <<text, nodes, windows, mutual, cluster>>
    BY <2>1 DEF cvars, wvars, vars, parse, plan
  <2>3. PICK claims : claims = OverrideClaims /\ Found(claims)
    BY <2>2 DEF FindingsInv
  <2>4. OverrideClaims' = claims
    BY <2>2, <2>3, ClaimsFixed
  <2>5. Found(claims)'
    BY <2>2, <2>3 DEF Found
  <2> QED BY <2>4, <2>5
<1> QED BY <1>1, <1>2

\* The claims of a provision under its heading are those of its own number.
LEMMA ClaimsAre ==
  ASSUME ParseInv, WindowInv, Planned, NEW n \in Provisions, UnderHeading(n), NEW c
  PROVE  /\ c \in OverrideClaims /\ c.node = n <=> c \in ClaimsOf(n, NumberOver(n))
         /\ c \in ClaimsOf(n, NumberOver(n)) => c.section = NumberOver(n)
<1>1. \A k, num : \A d \in ClaimsOf(k, num) : d.node = k /\ d.section = num
  BY DEF ClaimsOf
<1>2. ASSUME c \in OverrideClaims, c.node = n PROVE c \in ClaimsOf(n, NumberOver(n))
  <2>1. PICK w \in ToSet(windows) :
          \E k \in ToSet(w.nodes) \cap Provisions : c \in ClaimsOf(k, SectionNumber(w))
    BY <1>2 DEF OverrideClaims
  <2>2. n \in ToSet(w.nodes) /\ c \in ClaimsOf(n, SectionNumber(w))
    BY <1>1, <1>2, <2>1
  <2>3. SectionNumber(w) = NumberOver(n)
    BY <2>2, HeadingOf
  <2> QED BY <2>2, <2>3
<1>3. ASSUME c \in ClaimsOf(n, NumberOver(n)) PROVE c \in OverrideClaims
  <2>1. PICK w \in ToSet(windows) : n \in ToSet(w.nodes)
    BY HeadingOf
  <2>2. SectionNumber(w) = NumberOver(n)
    BY <2>1, HeadingOf
  <2>3. c \in UNION {ClaimsOf(k, SectionNumber(w)) : k \in ToSet(w.nodes) \cap Provisions}
    BY <1>3, <2>1, <2>2
  <2> QED BY <2>3 DEF OverrideClaims
<1> QED BY <1>1, <1>2, <1>3

\* A match is of a marker, with what it cites.
LEMMA MatchType ==
  ASSUME ParseInv, NEW n \in Provisions, NEW x \in FirstMatches(n)
  PROVE  /\ x[1].marker \in DOMAIN Markers /\ x[1].cites \in Seq(Citation)
         /\ \A r \in ReachesAfter(n, x) :
              /\ r.marker = x[1].marker /\ Markers[r.marker].type = "supersedes"
              /\ r \in Reach
<1>1. PICK m, i : x = <<m, i>> /\ i \in DOMAIN nodes[n].segs
  BY DEF FirstMatches, Matches
<1>2. PICK k : k = ContentOf(n, i)
  OBVIOUS
<1>3. x[1] = m /\ x[2] = i /\ m \in Says[k] /\ k \in Content
  BY <1>1, <1>2, ContentFacts DEF FirstMatches, Provisions
<1>4. m \in [marker : DOMAIN Markers, cites : Seq(Citation)]
  BY <1>3, SaysAssumption
<1>5. ASSUME NEW r \in ReachesAfter(n, x)
      PROVE  /\ r.marker = x[1].marker /\ Markers[r.marker].type = "supersedes"
             /\ r \in Reach
  <2>1. r \in Reaches[k] /\ r.marker = x[1].marker
    BY <1>2, <1>3 DEF ReachesAfter
  <2>2. r \in Reach /\ Markers[r.marker].type = "supersedes"
    BY <1>3, <2>1, ReachesAssumption
  <2> QED BY <2>1, <2>2
<1> QED BY <1>3, <1>4, <1>5

LEMMA Sides ==
  \A name \in DOMAIN Markers : Markers[name].side \in {"within", "after", "before"}
BY DEF Markers, Mark

\* Of the only citation, unbroken and of a section, a marker governs that one.
LEMMA GovernsOne ==
  ASSUME NEW cites \in Seq(Citation), Len(cites) = 1, NEW c, c = cites[1],
         c.of = "section", ~c.broken, NEW side \in {"within", "after", "before"}
  PROVE  Governed(cites, side) = {c}
<1>1. DOMAIN cites = {1}
  BY LenProperties
<1>2. OfKind(cites, "subsection", side) = {}
  <2>1. {i \in DOMAIN cites : cites[i].of = "subsection"} = {}
    BY <1>1
  <2> QED BY <2>1 DEF OfKind
<1>3. OfKind(cites, "section", side) = {c}
  <2>1. PICK own : own = {i \in DOMAIN cites : cites[i].of = "section"}
    OBVIOUS
  <2>2. own = {1}
    BY <1>1, <2>1
  <2>3. {cites[i] : i \in own} = {c}
    BY <2>2
  <2>4. {j \in own : \A k \in own : k <= j => ~cites[k].broken} = own
    BY <2>2
  <2>5. {j \in own : \A k \in own : k <= j} = own
    BY <2>2
  <2>6. CASE side = "within"
    BY <2>1, <2>3, <2>6 DEF OfKind
  <2>7. CASE side = "after"
    BY <2>1, <2>3, <2>4, <2>7 DEF OfKind
  <2>8. CASE side = "before"
    BY <2>1, <2>3, <2>5, <2>8 DEF OfKind
  <2> QED BY <2>6, <2>7, <2>8
<1> QED BY <1>2, <1>3 DEF Governed

\* The heading a number stands for.
LEMMA SectionIs ==
  ASSUME ParseInv, NEW num
  PROVE  /\ SectionOf(num) # 0 =>
              /\ SectionOf(num) \in DOMAIN nodes /\ IsHeading(SectionOf(num))
              /\ Opening(SectionOf(num)).num = num
         /\ num # 0 /\ (\E h \in DOMAIN nodes : IsHeading(h) /\ Opening(h).num = num)
              => SectionOf(num) # 0
<1> DEFINE found == {n \in DOMAIN nodes :
                       nodes[n].kind = "structural" /\ Opening(n).num = num}
<1>1. SectionOf(num) = IF num = 0 \/ found = {} THEN 0 ELSE Max(found)
  BY DEF SectionOf
<1>2. found \in SUBSET Nat /\ Len(nodes) \in Nat /\ \A n \in found : n <= Len(nodes)
  BY NodeFacts
<1>3. 0 \notin found
  BY NodeFacts
<1>4. (\E h \in DOMAIN nodes : IsHeading(h) /\ Opening(h).num = num) => found # {}
  BY DEF IsHeading
<1>5. \A h \in found : h \in DOMAIN nodes /\ IsHeading(h) /\ Opening(h).num = num
  BY DEF IsHeading
<1> HIDE DEF found
<1>6. found # {} => Max(found) \in found
  BY <1>2, MaxIs
<1> QED BY <1>1, <1>3, <1>4, <1>5, <1>6

\* What the match of a clause that overrides one section reaches and targets.
LEMMA PlainMatch ==
  ASSUME ParseInv, NEW n \in Provisions, OverridesOneSection(n), NEW x \in FirstMatches(n),
         Markers[x[1].marker].type = "supersedes"
  PROVE  \E k \in Nat \ {0} :
           /\ ReachesAfter(n, x)
                = {[marker |-> x[1].marker, scope |-> "section", target |-> k]}
           /\ Targets(n, Markers[x[1].marker], x[1].cites) = {SectionOf(k)} \ {0, n}
<1>1. PICK cites, c : cites = x[1].cites /\ c = cites[1]
  OBVIOUS
<1>2. PICK marker : marker = Markers[x[1].marker]
  OBVIOUS
<1>3. /\ marker.hint = "referenced" /\ Len(cites) = 1
      /\ c.of = "section" /\ ~c.foreign /\ ~c.broken
  BY <1>1, <1>2 DEF OverridesOneSection
<1>4. PICK k \in c.nums :
        /\ c.nums = {k}
        /\ ReachesAfter(n, x) = {[marker |-> x[1].marker, scope |-> "section", target |-> k]}
  BY <1>1 DEF OverridesOneSection
<1>5. x[1].marker \in DOMAIN Markers /\ cites \in Seq(Citation)
  BY <1>1, MatchType
<1>6. c \in Citation
  BY <1>1, <1>3, <1>5, ElementOfSeq
<1>7. k \in Nat \ {0}
  BY <1>4, <1>6 DEF Citation
<1>8. Governed(cites, marker.side) = {c}
  BY <1>1, <1>2, <1>3, <1>5, GovernsOne, Sides
<1>9. TargetsOf(n, c) = {SectionOf(k)} \ {0, n}
  BY <1>3, <1>4 DEF TargetsOf
<1>10. Targets(n, marker, cites) = {SectionOf(k)} \ {0, n}
  BY <1>3, <1>8, <1>9 DEF Targets
<1> QED BY <1>1, <1>2, <1>4, <1>7, <1>10

\* A claim of such a clause is over one section, not that of no number.
LEMMA PlainClaim ==
  ASSUME ParseInv, NEW n \in Provisions, OverridesOneSection(n), NEW num,
         NEW c \in ClaimsOf(n, num)
  PROVE  /\ c.scope = "section" /\ c.target # 0
         /\ \E x \in FirstMatches(n) :
              /\ Markers[x[1].marker].type = "supersedes"
              /\ Targets(n, Markers[x[1].marker], x[1].cites) = {SectionOf(c.target)} \ {0, n}
<1>0. PICK x \in FirstMatches(n) : \E r \in ReachesAfter(n, x) :
        c = [node |-> n, section |-> num, scope |-> r.scope, target |-> r.target]
  BY DEF ClaimsOf
<1>1. PICK r \in ReachesAfter(n, x) :
        c = [node |-> n, section |-> num, scope |-> r.scope, target |-> r.target]
  BY <1>0
<1>2. Markers[x[1].marker].type = "supersedes"
  BY <1>1, MatchType
<1>3. PICK k \in Nat \ {0} :
        /\ ReachesAfter(n, x) = {[marker |-> x[1].marker, scope |-> "section", target |-> k]}
        /\ Targets(n, Markers[x[1].marker], x[1].cites) = {SectionOf(k)} \ {0, n}
  BY <1>2, PlainMatch
<1>4. c.scope = "section" /\ c.target = k
  BY <1>1, <1>3
<1> QED BY <1>2, <1>3, <1>4

\* Its supersedes edges to headings of a number are its claims on that number.
LEMMA PlainSupersedes ==
  ASSUME ParseInv, WindowInv, Planned, OverridesInv,
         NEW n \in Provisions, OverridesOneSection(n),
         NEW m \in Provisions, UnderHeading(m), NEW num
  PROVE  Supersedes(n, NumberOver(m)) <=> \E c \in ClaimsOf(n, num) : c.target = NumberOver(m)
<1>1. \A t : Drawn(edges, n, t) <=> Overrides(n, t)
  BY DEF OverridesInv, Ingested, Planned
<1>2. ASSUME Supersedes(n, NumberOver(m))
      PROVE  \E c \in ClaimsOf(n, num) : c.target = NumberOver(m)
  <2>1. PICK t : /\ Drawn(edges, n, t)
                 /\ IsHeading(t) /\ Opening(t).num = NumberOver(m)
    BY <1>2 DEF Supersedes, Drawn, IsHeading
  <2>2. PICK x \in FirstMatches(n) :
          /\ Markers[x[1].marker].type = "supersedes"
          /\ t \in Targets(n, Markers[x[1].marker], x[1].cites)
    BY <1>1, <2>1 DEF Overrides
  <2>3. PICK k \in Nat \ {0} :
          /\ ReachesAfter(n, x) = {[marker |-> x[1].marker, scope |-> "section", target |-> k]}
          /\ Targets(n, Markers[x[1].marker], x[1].cites) = {SectionOf(k)} \ {0, n}
    BY <2>2, PlainMatch
  <2>4. k = NumberOver(m)
    BY <2>1, <2>2, <2>3, SectionIs
  <2>5. PICK c : c = [node |-> n, section |-> num, scope |-> "section", target |-> k]
    OBVIOUS
  <2>6. c \in ClaimsOf(n, num)
    <3>1. PICK r : r = [marker |-> x[1].marker, scope |-> "section", target |-> k]
      OBVIOUS
    <3>2. r \in ReachesAfter(n, x) /\ r.scope = "section" /\ r.target = k
      BY <2>3, <3>1
    <3>3. c \in {[node |-> n, section |-> num, scope |-> q.scope, target |-> q.target] :
                   q \in ReachesAfter(n, x)}
      BY <2>5, <3>2
    <3> QED BY <3>3 DEF ClaimsOf
  <2> QED BY <2>4, <2>5, <2>6
<1>3. ASSUME NEW c \in ClaimsOf(n, num), c.target = NumberOver(m)
      PROVE  Supersedes(n, NumberOver(m))
  <2>1. PICK x \in FirstMatches(n) :
          /\ Markers[x[1].marker].type = "supersedes"
          /\ Targets(n, Markers[x[1].marker], x[1].cites) = {SectionOf(c.target)} \ {0, n}
    BY PlainClaim
  <2>2. PICK t : t = SectionOf(c.target)
    OBVIOUS
  <2>3. t # 0 /\ t \in DOMAIN nodes /\ IsHeading(t) /\ Opening(t).num = NumberOver(m)
    <3>1. PICK h : h = EnclosingSection(m)
      OBVIOUS
    <3>2. h \in DOMAIN nodes /\ IsHeading(h) /\ Opening(h).num = c.target
      BY <1>3, <3>1, HeadingOf DEF NumberOver
    <3>3. c.target # 0
      BY PlainClaim
    <3> QED BY <1>3, <2>2, <3>2, <3>3, SectionIs
  <2>4. t # n
    BY <2>3 DEF Provisions, IsHeading
  <2>5. Overrides(n, t)
    BY <2>1, <2>2, <2>3, <2>4 DEF Overrides
  <2> QED BY <1>1, <2>3, <2>5 DEF Drawn, Supersedes, IsHeading
<1> QED BY <1>2, <1>3

Opposed(claims, n, m) ==
  \E c, d \in claims : /\ c.node = n /\ d.node = m
                       /\ c.scope # "document" \/ d.scope # "document"
                       /\ Covers(c, d) /\ Covers(d, c)

\* A pair that is reported is one claim of each against the other.
LEMMA MutualIs ==
  ASSUME NEW claims, Found(claims), NEW n, NEW m, n # m
  PROVE  {n, m} \in mutual <=> Opposed(claims, n, m)
<1>1. \A p : p \in Pairs(claims) <=>
        /\ p \in claims \X claims
        /\ p[1].scope # "document" \/ p[2].scope # "document"
        /\ Covers(p[1], p[2]) /\ Covers(p[2], p[1])
  BY DEF Pairs, ActWide
<1>2. ASSUME {n, m} \in mutual
      PROVE  Opposed(claims, n, m)
  <2>1. PICK p \in Pairs(claims) : {n, m} = {p[1].node, p[2].node}
    BY <1>2 DEF Found
  <2>2. PICK c \in claims, d \in claims : p[1] = c /\ p[2] = d
    BY <1>1, <2>1
  <2>3. \/ c.node = n /\ d.node = m
        \/ c.node = m /\ d.node = n
    BY <2>1, <2>2
  <2> QED BY <1>1, <2>1, <2>2, <2>3 DEF Opposed
<1>3. ASSUME NEW c \in claims, NEW d \in claims, c.node = n, d.node = m,
             c.scope # "document" \/ d.scope # "document", Covers(c, d), Covers(d, c)
      PROVE  {n, m} \in mutual
  <2>1. PICK p : p = <<c, d>>
    OBVIOUS
  <2>2. p \in Pairs(claims) /\ p[1] = c /\ p[2] = d
    BY <1>1, <1>3, <2>1
  <2>3. {p[1].node, p[2].node} = {n, m}
    BY <1>3, <2>2
  <2> QED BY <2>2, <2>3 DEF Found
<1> QED BY <1>2, <1>3 DEF Opposed

\* Between two clauses, each of one section, the finding of the detector is the
\* 2-cycle of the edges (detect_override_conflicts, extract_marker_edges).
THEOREM ConflictsAreCycles == CSpec => []ConflictsAreTwoCycles
<1>1. ParseInv /\ WindowInv /\ OverridesInv /\ FindingsInv => ConflictsAreTwoCycles
  <2>1. SUFFICES ASSUME ParseInv, WindowInv, OverridesInv, FindingsInv, pc = "planned",
                        NEW n \in Provisions, UnderHeading(n), OverridesOneSection(n),
                        NEW m \in Provisions, UnderHeading(m), OverridesOneSection(m), n # m
                 PROVE  {n, m} \in mutual <=>
                          Supersedes(n, NumberOver(m)) /\ Supersedes(m, NumberOver(n))
    BY DEF ConflictsAreTwoCycles
  <2>2. PICK claims : claims = OverrideClaims /\ Found(claims)
    BY <2>1 DEF FindingsInv
  <2>3. Planned
    BY <2>1 DEF Planned
  <2>4. PICK a, b : a = NumberOver(n) /\ b = NumberOver(m)
    OBVIOUS
  <2>5. /\ \A c : c \in claims /\ c.node = n <=> c \in ClaimsOf(n, a)
        /\ \A c : c \in claims /\ c.node = m <=> c \in ClaimsOf(m, b)
        /\ \A c \in ClaimsOf(n, a) : c.section = a /\ c.scope = "section"
        /\ \A c \in ClaimsOf(m, b) : c.section = b /\ c.scope = "section"
    BY <2>1, <2>2, <2>3, <2>4, ClaimsAre, PlainClaim
  <2>6. /\ Supersedes(n, b) <=> \E c \in ClaimsOf(n, a) : c.target = b
        /\ Supersedes(m, a) <=> \E d \in ClaimsOf(m, b) : d.target = a
    BY <2>1, <2>3, <2>4, PlainSupersedes
  <2>7. \A c \in ClaimsOf(n, a), d \in ClaimsOf(m, b) :
          /\ c.node # d.node
          /\ Covers(c, d) <=> c.target = b
          /\ Covers(d, c) <=> d.target = a
    BY <2>1, <2>5 DEF Covers
  <2>8. {n, m} \in mutual <=>
          \E c \in ClaimsOf(n, a), d \in ClaimsOf(m, b) : c.target = b /\ d.target = a
    BY <2>1, <2>2, <2>5, <2>7, MutualIs DEF Opposed
  <2> QED BY <2>4, <2>6, <2>8
<1>2. FindingsInv /\ [CNext]_cvars => FindingsInv'
  BY FindingsInvNext
<1>3. CInit => FindingsInv
  BY DEF CInit, WInit, EInit, Init, FindingsInv
<1> QED BY <1>1, <1>2, <1>3, OverridesHold, WindowsHold, PTL DEF CSpec

\* A finite set with two different elements is a crowd.
LEMMA TwoElements ==
  ASSUME NEW S, IsFiniteSet(S), NEW a \in S, NEW b \in S, a # b
  PROVE  Cardinality(S) > 1
<1>1. IsFiniteSet({a}) /\ Cardinality({a}) = 1
  BY FS_Singleton
<1>2. IsFiniteSet({a} \cup {b}) /\ Cardinality({a} \cup {b}) = 2
  <2>1. PICK A : A = {a}
    OBVIOUS
  <2>2. IsFiniteSet(A) /\ Cardinality(A) = 1 /\ b \notin A
    BY <1>1, <2>1
  <2>3. IsFiniteSet(A \cup {b}) /\ Cardinality(A \cup {b}) = Cardinality(A) + 1
    BY <2>2, FS_AddElement
  <2> QED BY <2>1, <2>2, <2>3
<1>3. {a} \cup {b} \subseteq S
  OBVIOUS
<1>4. Cardinality({a} \cup {b}) <= Cardinality(S)
  BY <1>3, FS_Subset
<1>5. Cardinality(S) \in Nat
  BY FS_CardinalityType
<1> QED BY <1>2, <1>4, <1>5

\* The claims of a document stand in finitely many sections.
LEMMA SectionsAreFinite ==
  ASSUME WindowInv
  PROVE  IsFiniteSet({c.section : c \in ActWide(OverrideClaims)})
<1> DEFINE S == {SectionNumber(w) : w \in ToSet(windows)}
<1>1. PICK N \in Nat : DOMAIN windows = 1..N
  BY LenProperties DEF WindowInv, Sections
<1>2. IsFiniteSet(1..N)
  BY <1>1, FS_Interval
<1>3. PICK f : f = [i \in 1..N |-> SectionNumber(windows[i])]
  OBVIOUS
<1>4. f \in Surjection(1..N, S)
  <2>1. ASSUME NEW i \in 1..N PROVE f[i] \in S
    BY <1>1, <1>3 DEF ToSet
  <2>2. ASSUME NEW t \in S PROVE \E i \in 1..N : f[i] = t
    <3>1. PICK w \in ToSet(windows) : t = SectionNumber(w)
      OBVIOUS
    <3>2. PICK i \in 1..N : w = windows[i]
      BY <1>1 DEF ToSet
    <3> QED BY <1>3, <3>1, <3>2
  <2> HIDE DEF S
  <2>3. f \in [1..N -> S]
    BY <1>3, <2>1
  <2> QED BY <2>2, <2>3 DEF Surjection
<1>5. ASSUME NEW c \in OverrideClaims PROVE c.section \in S
  BY DEF OverrideClaims, ClaimsOf
<1>6. {c.section : c \in ActWide(OverrideClaims)} \subseteq S
  BY <1>5 DEF ActWide
<1> HIDE DEF S
<1>7. IsFiniteSet(S)
  BY <1>2, <1>4, FS_Surjection
<1> QED BY <1>6, <1>7, FS_Subset

LEMMA OneClusterAtMost ==
  ASSUME NEW claims, Found(claims)
  PROVE  Cardinality(cluster) <= 1
<1>0. PICK wide : wide = ActWide(claims)
  OBVIOUS
<1>1. PICK all : all = {c.node : c \in wide}
  OBVIOUS
<1>2. cluster = {} \/ cluster = {all}
  <2>1. Clusters(claims) = {} \/ Clusters(claims) = {wide}
    BY <1>0 DEF Clusters
  <2>2. cluster = {{c.node : c \in w} : w \in Clusters(claims)}
    BY DEF Found
  <2> QED BY <1>1, <2>1, <2>2
<1>3. Cardinality({}) = 0 /\ Cardinality({all}) = 1
  BY FS_EmptySet, FS_Singleton
<1> QED BY <1>2, <1>3

\* Claims over the whole act compete across sections, and with what overrides
\* their own section from another.
THEOREM ActWideClaimsMeet == CSpec => []ActWideClaimsCompete
<1>1. ParseInv /\ WindowInv /\ OverridesInv /\ FindingsInv => ActWideClaimsCompete
  <2>1. SUFFICES ASSUME ParseInv, WindowInv, OverridesInv, FindingsInv, pc = "planned"
                 PROVE  ActWideClaimsCompete
    BY DEF ActWideClaimsCompete
  <2>2. PICK claims : claims = OverrideClaims /\ Found(claims)
    BY <2>1 DEF FindingsInv
  <2>3. Planned
    BY <2>1 DEF Planned
  <2>4. Cardinality(cluster) <= 1
    BY <2>2, OneClusterAtMost
  <2>5. ASSUME NEW n \in Provisions, UnderHeading(n), NEW m \in Provisions, UnderHeading(m),
               n # m, ClaimsActWide(n), NEW a, a = NumberOver(n), NEW b, b = NumberOver(m)
        PROVE  /\ ClaimsActWide(m) /\ a # b => \E all \in cluster : {n, m} \subseteq all
               /\ OverridesOneSection(m) /\ Supersedes(m, a)
                    => /\ a # b => {n, m} \in mutual
                       /\ {n, m} \in mutual /\ OnlyActWide(n) => a # b
    <3>1. /\ \A c : c \in claims /\ c.node = n <=> c \in ClaimsOf(n, a)
          /\ \A c : c \in claims /\ c.node = m <=> c \in ClaimsOf(m, b)
          /\ \A c \in ClaimsOf(n, a) : c.section = a
          /\ \A c \in ClaimsOf(m, b) : c.section = b
      BY <2>1, <2>2, <2>3, <2>5, ClaimsAre
    <3>2. PICK c \in ClaimsOf(n, a) : c \in ActWide(claims)
      BY <2>2, <2>5, <3>1 DEF ClaimsActWide, ActWide
    <3>3. c \in claims /\ c.node = n /\ c.section = a /\ c.scope = "document"
      BY <3>1, <3>2 DEF ActWide
    <3>4. ASSUME ClaimsActWide(m), a # b PROVE \E all \in cluster : {n, m} \subseteq all
      <4>1. PICK d \in ActWide(claims) : d.node = m
        BY <2>2, <3>4 DEF ClaimsActWide
      <4>2. d.section = b
        BY <3>1, <4>1 DEF ActWide
      <4>3. PICK wide : wide = ActWide(claims)
        OBVIOUS
      <4>4. Cardinality({k.section : k \in wide}) > 1
        <5>1. PICK S : S = {k.section : k \in wide}
          OBVIOUS
        <5>2. IsFiniteSet(S) /\ a \in S /\ b \in S
          BY <2>1, <2>2, <3>2, <3>3, <4>1, <4>2, <4>3, <5>1, SectionsAreFinite
        <5> QED BY <3>4, <5>1, <5>2, TwoElements
      <4>5. {k.node : k \in wide} \in cluster
        BY <2>2, <4>3, <4>4 DEF Found, Clusters
      <4>6. {n, m} \subseteq {k.node : k \in wide}
        BY <3>2, <3>3, <4>1, <4>3
      <4> QED BY <4>5, <4>6
    <3>5. ASSUME OverridesOneSection(m), Supersedes(m, a), a # b PROVE {n, m} \in mutual
      <4>1. PICK d \in ClaimsOf(m, b) : d.target = a
        BY <2>1, <2>3, <2>5, <3>5, PlainSupersedes
      <4>2. d.scope = "section"
        BY <2>1, <2>5, <3>5, PlainClaim
      <4>3. d \in claims /\ d.node = m /\ d.section = b
        BY <3>1
      <4>4. Covers(c, d) /\ Covers(d, c)
        BY <2>5, <3>3, <3>5, <4>1, <4>2, <4>3 DEF Covers
      <4> QED BY <2>2, <2>5, <3>3, <4>2, <4>3, <4>4, MutualIs DEF Opposed
    <3>6. ASSUME OverridesOneSection(m), {n, m} \in mutual, OnlyActWide(n) PROVE a # b
      <4>0. Opposed(claims, n, m)
        BY <2>2, <2>5, <3>6, MutualIs
      <4>1. PICK e \in claims, d \in claims :
              e.node = n /\ d.node = m /\ Covers(e, d) /\ Covers(d, e)
        BY <4>0 DEF Opposed
      <4>2. e.scope = "document" /\ e.section = a
        BY <2>2, <3>1, <3>6, <4>1 DEF OnlyActWide
      <4>3. d \in ClaimsOf(m, b) /\ d.section = b
        BY <3>1, <4>1
      <4>4. d.scope = "section" /\ d.target # 0
        BY <2>1, <2>5, <3>6, <4>3, PlainClaim
      <4>5. d.target = a
        BY <4>1, <4>2, <4>4 DEF Covers
      <4> QED BY <4>1, <4>2, <4>3, <4>4, <4>5 DEF Covers
    <3> QED BY <3>4, <3>5, <3>6
  <2> QED BY <2>4, <2>5 DEF ActWideClaimsCompete
<1>2. FindingsInv /\ [CNext]_cvars => FindingsInv'
  BY FindingsInvNext
<1>3. CInit => FindingsInv
  BY DEF CInit, WInit, EInit, Init, FindingsInv
<1> QED BY <1>1, <1>2, <1>3, OverridesHold, WindowsHold, PTL DEF CSpec

-----------------------------------------------------------------------------
(* What ingest and planning hand over *)

\* An edge between two different nodes, of a type and a confidence that
\* traversal knows.
WellFormed(e) ==
  /\ e.src \in DOMAIN nodes /\ e.dst \in DOMAIN nodes /\ e.src # e.dst
  /\ e.type \in EdgeType /\ e.confidence \in Confidence

OneEach(S) == \A e, f \in S : Relation(e) = Relation(f) => e = f

IngestedWell == (\A e \in edges : WellFormed(e)) /\ OneEach(edges)

GraphInv == (\A e \in raw : WellFormed(e)) /\ OneEach(edges)

LEMMA EdgeTypes ==
  /\ \A name \in DOMAIN Markers :
       Markers[name].type \in EdgeType /\ Markers[name].confidence \in Confidence
  /\ \A unit \in DOMAIN UnitType : UnitType[unit] \in EdgeType
  /\ {"part_of", "defines"} \subseteq EdgeType /\ {80, 100} \subseteq Confidence
BY DEF Markers, Mark, UnitType, EdgeType, ClosureType, ContextType, Confidence

\* No neighbour of a provision is the provision.
LEMMA PrecedingIsBefore ==
  ASSUME ParseInv, NEW n \in Provisions
  PROVE  Preceding(n) # n
<1> DEFINE before == {m \in Siblings(n) : m < n}
<1>1. n \in DOMAIN nodes /\ n \in Nat /\ DOMAIN nodes \subseteq Nat /\ nodes[n].parent \in 0 .. n - 1
  BY NodeFacts DEF Provisions
<1>2. Preceding(n) = IF before = {} THEN nodes[n].parent ELSE Max(before)
  BY DEF Preceding
<1>3. before \in SUBSET Nat /\ \A m \in before : m <= n
  BY <1>1 DEF Siblings
<1>4. n \notin before
  BY <1>1
<1>5. CASE before = {}
  <2>1. Preceding(n) = nodes[n].parent
    BY <1>2, <1>5
  <2> QED BY <1>1, <2>1
<1>6. CASE before # {}
  <2> HIDE DEF before
  <2> QED BY <1>1, <1>2, <1>3, <1>4, <1>6, MaxIs
<1> QED BY <1>5, <1>6

LEMMA FollowingIsAfter ==
  ASSUME ParseInv, NEW n \in Provisions
  PROVE  Following(n) # n
<1> DEFINE after == {m \in Siblings(n) : m > n}
<1>1. n \in Nat /\ n # 0 /\ DOMAIN nodes \subseteq Nat
  BY NodeFacts DEF Provisions
<1>2. Following(n) = IF after = {} THEN 0 ELSE Min(after)
  BY DEF Following
<1>3. after \in SUBSET Nat
  BY <1>1 DEF Siblings
<1>4. n \notin after
  BY <1>1
<1> HIDE DEF after
<1> QED BY <1>1, <1>2, <1>3, <1>4, MinIs

LEMMA TargetsAreOthers ==
  ASSUME ParseInv, NEW n \in Provisions, NEW marker, NEW cites,
         marker.hint \in {"preceding", "following", "referenced"},
         NEW t \in Targets(n, marker, cites)
  PROVE  t # n
<1>1. CASE marker.hint = "preceding"
  BY <1>1, PrecedingIsBefore DEF Targets
<1>2. CASE marker.hint = "following"
  BY <1>2, FollowingIsAfter DEF Targets
<1>3. CASE marker.hint = "referenced"
  <2>1. PICK c : t \in TargetsOf(n, c)
    BY <1>3 DEF Targets
  <2> QED BY <2>1 DEF TargetsOf
<1> QED BY <1>1, <1>2, <1>3

LEMMA OrientedEnds ==
  ASSUME NEW n, NEW t, NEW type, Linked(n), Linked(t), n # t
  PROVE  /\ Oriented(n, t, type)[1] \in DOMAIN nodes /\ Oriented(n, t, type)[2] \in DOMAIN nodes
         /\ Oriented(n, t, type)[1] # Oriented(n, t, type)[2]
BY DEF Oriented, Linked

LEMMA EdgesAreWellFormed ==
  ASSUME ParseInv, NEW e \in TreeEdges \cup MentionEdges \cup UnitEdges \cup MarkerEdges
  PROVE  WellFormed(e)
<1>1. CASE e \in TreeEdges
  <2>1. PICK n \in DOMAIN nodes : e = TreeEdge(n) /\ nodes[n].parent # 0
    BY <1>1 DEF TreeEdges, TreeEdge
  <2>2. PICK p : p = nodes[n].parent
    OBVIOUS
  <2>3. p \in DOMAIN nodes /\ p # n
    BY <2>1, <2>2, NodeFacts
  <2>4. e.src = n /\ e.dst = p /\ e.type = "part_of" /\ e.confidence = 100
    BY <2>1, <2>2 DEF TreeEdge, Made
  <2> QED BY <2>3, <2>4, EdgeTypes DEF WellFormed
<1>2. CASE e \in MentionEdges
  <2>1. PICK a \in Provisions, b \in Provisions :
          a # b /\ e = Made(<<"mention", a, b>>, a, "defines", b, "pattern", 80, 1)
    BY <1>2 DEF MentionEdges
  <2>2. e.src = a /\ e.dst = b /\ e.type = "defines" /\ e.confidence = 80
    BY <2>1 DEF Made
  <2> QED BY <2>1, <2>2, EdgeTypes DEF WellFormed, Provisions
<1>3. CASE e \in UnitEdges
  <2>1. PICK n \in Provisions : e = UnitEdge(n) /\ IsUnit(n) /\ Preceding(n) # 0
    BY <1>3 DEF UnitEdges, UnitEdge
  <2>2. PICK unit, p, ends : /\ unit = Opening(n).shape /\ p = Preceding(n)
                             /\ ends = Oriented(n, p, UnitType[unit])
    OBVIOUS
  <2>3. unit \in DOMAIN UnitType
    BY <2>1, <2>2 DEF IsUnit
  <2>4. e.src = ends[1] /\ e.dst = ends[2] /\ e.type = UnitType[unit] /\ e.confidence = 100
    BY <2>1, <2>2 DEF UnitEdge, Made
  <2>5. Linked(n) /\ Linked(p) /\ n # p
    BY <2>1, <2>2, PrecedingLinks, PrecedingIsBefore, ProvisionsLink
  <2>6. ends[1] \in DOMAIN nodes /\ ends[2] \in DOMAIN nodes /\ ends[1] # ends[2]
    BY <2>2, <2>5, OrientedEnds
  <2> QED BY <2>3, <2>4, <2>6, EdgeTypes DEF WellFormed
<1>4. CASE e \in MarkerEdges
  <2>1. PICK n \in Provisions : e \in MarkerEdgesOf(n)
    BY <1>4 DEF MarkerEdges
  <2>2. PICK x, t :
          /\ x \in FirstMatches(n)
          /\ t \in Targets(n, Markers[x[1].marker], x[1].cites)
          /\ e = MarkerEdge(x[1].marker, n, t)
    BY <2>1 DEF MarkerEdgesOf, MarkerEdge
  <2>3. PICK name : name = x[1].marker /\ name \in DOMAIN Markers
    BY <2>2, MarkersMatch
  <2>4. Markers[name].hint \in {"preceding", "following", "referenced"}
    BY <2>3 DEF Markers, Mark
  <2>5. Linked(n) /\ Linked(t) /\ n # t
    BY <2>2, <2>3, <2>4, TargetsLink, TargetsAreOthers, ProvisionsLink
  <2>6. PICK ends : ends = Oriented(n, t, Markers[name].type)
    OBVIOUS
  <2>7. /\ e.src = ends[1] /\ e.dst = ends[2] /\ e.type = Markers[name].type
        /\ e.confidence = Markers[name].confidence
    BY <2>2, <2>3, <2>6 DEF MarkerEdge, Made
  <2>8. ends[1] \in DOMAIN nodes /\ ends[2] \in DOMAIN nodes /\ ends[1] # ends[2]
    BY <2>5, <2>6, OrientedEnds
  <2> QED BY <2>3, <2>7, <2>8, EdgeTypes DEF WellFormed
<1> QED BY <1>1, <1>2, <1>3, <1>4

\* The edge that stays of those of a relation.
TheBest(S, r) ==
  CHOOSE e \in {x \in S : Relation(x) = r} :
    \A f \in {x \in S : Relation(x) = r} :
      f.confidence < e.confidence \/ (f.confidence = e.confidence /\ f.stage >= e.stage)

LEMMA DedupeIsOneEach == ASSUME NEW S, \A e \in S : e.confidence \in 0..100 /\ e.stage \in 0..3
                         PROVE  OneEach(Dedupe(S))
<1>1. ASSUME NEW d \in Dedupe(S)
      PROVE  d = TheBest(S, Relation(d))
  <2>1. PICK r \in {Relation(x) : x \in S} : d = TheBest(S, r)
    BY DEF Dedupe, TheBest
  <2>2. PICK y \in S : r = Relation(y)
    OBVIOUS
  <2>3. d = Best(S, y)
    BY <2>1, <2>2 DEF Best, TheBest
  <2>4. Relation(d) = r
    BY <2>2, <2>3, BestIs
  <2> QED BY <2>1, <2>4
<1>2. ASSUME NEW d \in Dedupe(S), NEW e \in Dedupe(S), Relation(d) = Relation(e)
      PROVE  d = e
  <2>1. d = TheBest(S, Relation(d)) /\ e = TheBest(S, Relation(e))
    BY <1>1
  <2> QED BY <1>2, <2>1
<1> QED BY <1>2 DEF OneEach

LEMMA GraphInvInit == CInit => GraphInv
BY DEF CInit, WInit, EInit, GraphInv, OneEach

LEMMA GraphInvNext == ParseInv /\ EdgesInv /\ GraphInv /\ [CNext]_cvars => GraphInv'
<1> SUFFICES ASSUME ParseInv, EdgesInv, GraphInv, [CNext]_cvars PROVE GraphInv'
  OBVIOUS
<1>1. UNCHANGED nodes => \A e : WellFormed(e)' = WellFormed(e)
  BY DEF WellFormed
<1>2. UNCHANGED edges => OneEach(edges)'
  BY DEF GraphInv, OneEach
<1>3. CASE Parse /\ UNCHANGED <<raw, edges>>
  <2>1. ~Parsed
    BY <1>3 DEF Parse, ReadBlank, ReadStarter, ReadText, EndOfText, SplitUnits, Nest, Gate, Parsed
  <2>2. raw' = {}
    BY <1>3, <2>1 DEF EdgesInv
  <2> QED BY <1>2, <1>3, <2>2 DEF GraphInv
<1>4. CASE Lexicon
  <2>1. raw' = TreeEdges \cup MentionEdges /\ UNCHANGED <<nodes, edges>>
    BY <1>4 DEF Lexicon, parse
  <2> QED BY <1>1, <1>2, <2>1, EdgesAreWellFormed DEF GraphInv
<1>5. CASE Patterns
  <2>1. raw' = raw \cup UnitEdges \cup MarkerEdges /\ UNCHANGED <<nodes, edges>>
    BY <1>5 DEF Patterns, parse
  <2>2. \A e \in raw : WellFormed(e)
    BY DEF GraphInv
  <2> QED BY <1>1, <1>2, <2>1, <2>2, EdgesAreWellFormed DEF GraphInv
<1>6. CASE Merge
  <2>1. edges' = Dedupe(raw) /\ UNCHANGED <<nodes, raw>>
    BY <1>6 DEF Merge, parse
  <2>2. OneEach(Dedupe(raw))
    BY DedupeIsOneEach DEF EdgesInv, EdgeFits
  <2>3. OneEach(edges)'
    BY <2>1, <2>2 DEF OneEach
  <2>4. \A e \in raw' : WellFormed(e)'
    BY <1>1, <2>1 DEF GraphInv
  <2> QED BY <2>3, <2>4 DEF GraphInv
<1>7. CASE UNCHANGED <<parse, raw, edges>>
  <2>1. raw' = raw /\ nodes' = nodes /\ edges' = edges
    BY <1>7 DEF parse
  <2>2. \A e \in raw' : WellFormed(e)'
    BY <1>1, <2>1 DEF GraphInv
  <2> QED BY <1>2, <2>1, <2>2 DEF GraphInv
<1> QED BY <1>3, <1>4, <1>5, <1>6, <1>7, ParseSteps

\* What ingest writes is a graph that the walks can start from: no edge dangles or
\* runs from a node to itself, whatever a marker cites, every type and confidence is
\* one that the policy table knows, and one relation has one edge (_dedupe_edges),
\* which is what extraction assumes of the pattern edges it judges.
THEOREM GraphIsWhole == CSpec => []IngestedWell
<1>1. EdgesInv /\ GraphInv => IngestedWell
  BY DEF EdgesInv, GraphInv, IngestedWell
<1> QED BY <1>1, EdgesHold, GraphInvInit, GraphInvNext, PTL DEF CSpec

\* No node is in two of the windows that get a call.
WindowsShareNothing ==
  Planned => \A i, j \in DOMAIN windows :
    i # j => ToSet(windows[i].nodes) \cap ToSet(windows[j].nodes) = {}

\* A provision is shown to the model in one call: the answers of two calls are never
\* about the same pair of nodes.  This is what extraction assumes of its windows
\* (SectionsAreDisjoint), and what lets it judge an edge by one answer.
THEOREM WindowsAreDisjoint == CSpec => []WindowsShareNothing
<1>1. ParseInv /\ WindowInv => WindowsShareNothing
  <2>1. SUFFICES ASSUME ParseInv, WindowInv, Planned,
                        NEW i \in DOMAIN windows, NEW j \in DOMAIN windows,
                        NEW n \in ToSet(windows[i].nodes), n \in ToSet(windows[j].nodes)
                 PROVE  i = j
    BY DEF WindowsShareNothing
  <2>2. DOMAIN windows = 1..Len(windows)
    BY LenProperties, <2>1 DEF WindowInv, Sections
  <2> QED BY <2>1, <2>2, WindowOf
<1> QED BY <1>1, WindowsHold, PTL
=============================================================================
