-------------------------- MODULE BundleEmbedProofs --------------------------
(***************************************************************************)
(* Proofs about the bundle file between ingest and embed, for any          *)
(* documents, batches and embedders, any number of ingests, failures and   *)
(* killed runs.                                                            *)
(***************************************************************************)
EXTENDS BundleEmbed, DataLemmas

-----------------------------------------------------------------------------
(* Sequences *)

LEMMA HeadAndTail ==
  ASSUME NEW S, NEW s \in Seq(S), s # <<>>
  PROVE  /\ Head(s) \in S /\ Tail(s) \in Seq(S)
         /\ ToSet(s) = {Head(s)} \cup ToSet(Tail(s))
         /\ Head(s) = s[1] /\ 1 \in DOMAIN s
         /\ \A k \in DOMAIN Tail(s) : k + 1 \in DOMAIN s /\ Tail(s)[k] = s[k + 1]
<1>1. /\ Len(s) \in Nat \ {0} /\ DOMAIN s = 1..Len(s)
      /\ Head(s) \in S /\ Tail(s) \in Seq(S) /\ Len(Tail(s)) = Len(s) - 1
      /\ \A k \in 1..Len(Tail(s)) : Tail(s)[k] = s[k + 1]
  BY EmptySeq, LenProperties, HeadTailProperties
<1>2. DOMAIN Tail(s) = 1..(Len(s) - 1)
  BY <1>1, LenProperties
<1>3. Head(s) = s[1]
  BY <1>1
<1>4. ASSUME NEW x \in ToSet(s) PROVE x = Head(s) \/ x \in ToSet(Tail(s))
  <2>1. PICK i \in 1..Len(s) : s[i] = x
    BY <1>1 DEF ToSet
  <2>2. CASE i # 1
    <3>1. i - 1 \in 1..(Len(s) - 1) /\ Tail(s)[i - 1] = s[i]
      BY <1>1, <1>2, <2>2
    <3> QED BY <1>2, <2>1, <3>1 DEF ToSet
  <2> QED BY <1>3, <2>1, <2>2
<1>5. ASSUME NEW x \in ToSet(Tail(s)) PROVE x \in ToSet(s)
  <2>1. PICK i \in 1..(Len(s) - 1) : Tail(s)[i] = x
    BY <1>2 DEF ToSet
  <2>2. i + 1 \in 1..Len(s) /\ s[i + 1] = x
    BY <1>1, <1>2, <2>1
  <2> QED BY <1>1, <2>2 DEF ToSet
<1>6. Head(s) \in ToSet(s)
  BY <1>1, <1>3 DEF ToSet
<1> QED BY <1>1, <1>2, <1>3, <1>4, <1>5, <1>6

-----------------------------------------------------------------------------
(* Ingest *)

Row == [id : Doc, review : {"none", "pending"}, nodes : Seq(Node)]

\* What one document's row must be.
RowFits(row) ==
  /\ row \in Row
  /\ row.nodes = IF row.id \in Confident THEN Cut[row.id] ELSE <<>>
  /\ row.review = "pending" <=> row.id \notin Confident

\* Rows of distinct documents.
RowsFit(rows) ==
  /\ rows \in Seq(Row)
  /\ \A i \in DOMAIN rows : RowFits(rows[i])
  /\ \A i, j \in DOMAIN rows : rows[i].id = rows[j].id => i = j

Readable == Unreadable \notin ToSet(corpus)

IngestInv ==
  /\ ingests \in Nat /\ troubles \in Nat
  /\ corpus \in Seq(Doc \cup {Unreadable}) /\ toRead \in Seq(Doc \cup {Unreadable})
  /\ RowsFit(taken) /\ RowsFit(docs)
  /\ ingest \in {"idle", "reading", "unlinked", "created"}
  /\ ingest = "reading" => IdsOf(taken) \cup ToSet(toRead) = ToSet(corpus)
  /\ ingest \in {"unlinked", "created"} => IdsOf(taken) = ToSet(corpus)
  /\ file = "full" => IdsOf(docs) = ToSet(manifest)
  /\ ingest = "idle" /\ ingests > 0 /\ troubles = 0 /\ Readable
       => file = "full" /\ manifest = corpus

\* One more row.
LEMMA RowAdded ==
  ASSUME NEW rows, RowsFit(rows), NEW row, RowFits(row), row.id \notin IdsOf(rows)
  PROVE  /\ RowsFit(Append(rows, row))
         /\ IdsOf(Append(rows, row)) = IdsOf(rows) \cup {row.id}
<1> DEFINE more == Append(rows, row)
           n == Len(rows)
<1>1. rows \in Seq(Row) /\ row \in Row
  BY DEF RowsFit, RowFits
<1>2. /\ n \in Nat /\ DOMAIN rows = 1..n
      /\ more \in Seq(Row) /\ Len(more) = n + 1
      /\ \A i \in 1..n : more[i] = rows[i]
      /\ more[n + 1] = row
  BY <1>1, LenProperties, AppendProperties
<1>3. DOMAIN more = 1..(n + 1)
  BY <1>2, LenProperties
<1> HIDE DEF more, n
<1>4. \A i \in DOMAIN more : (i \in DOMAIN rows /\ more[i] = rows[i]) \/ (i = n + 1 /\ more[i] = row)
  <2> SUFFICES ASSUME NEW i \in DOMAIN more
               PROVE  (i \in DOMAIN rows /\ more[i] = rows[i]) \/ (i = n + 1 /\ more[i] = row)
    OBVIOUS
  <2>1. CASE i = n + 1
    BY <1>2, <2>1
  <2>2. CASE i # n + 1
    <3>1. i \in 1..n
      BY <1>2, <1>3, <2>2
    <3> QED BY <1>2, <3>1
  <2> QED BY <2>1, <2>2
<1>5. \A i \in DOMAIN rows : i \in DOMAIN more /\ more[i] = rows[i] /\ i # n + 1
  BY <1>2, <1>3
<1>6. n + 1 \in DOMAIN more
  BY <1>2, <1>3
<1>7. \A i \in DOMAIN rows : rows[i].id # row.id
  BY DEF IdsOf
<1>8. \A i, j \in DOMAIN more : more[i].id = more[j].id => i = j
  BY <1>4, <1>7 DEF RowsFit
<1>9. \A i \in DOMAIN more : RowFits(more[i])
  BY <1>4 DEF RowsFit
<1>10. IdsOf(more) = IdsOf(rows) \cup {row.id}
  BY <1>2, <1>4, <1>5, <1>6 DEF IdsOf
<1> QED BY <1>2, <1>8, <1>9, <1>10 DEF RowsFit, more

LEMMA NoRowsFit == RowsFit(<<>>) /\ IdsOf(<<>>) = {}
<1>1. <<>> \in Seq(Row) /\ DOMAIN <<>> = {}
  BY EmptySeq
<1> QED BY <1>1 DEF RowsFit, IdsOf

\* A document is collected.
LEMMA CollectKeeps ==
  ASSUME IngestInv, NextIsNew, NEW review, NEW nodes, Collect(review, nodes),
         RowFits([id |-> Head(toRead), review |-> review, nodes |-> nodes])
  PROVE  IngestInv'
<1> DEFINE row == [id |-> Head(toRead), review |-> review, nodes |-> nodes]
<1>1. /\ Tail(toRead) \in Seq(Doc \cup {Unreadable})
      /\ ToSet(toRead) = {Head(toRead)} \cup ToSet(Tail(toRead))
  BY HeadAndTail DEF IngestInv, NextIsNew
<1>2. row.id = Head(toRead) /\ row.id \notin IdsOf(taken)
  BY DEF NextIsNew
<1> HIDE DEF row
<1>3. taken' = Append(taken, row) /\ toRead' = Tail(toRead)
  BY DEF Collect, row
<1>4. RowsFit(taken') /\ IdsOf(taken') = IdsOf(taken) \cup {Head(toRead)}
  <2>1. RowFits(row) /\ RowsFit(taken)
    BY DEF row, IngestInv
  <2> QED BY <1>2, <1>3, <2>1, RowAdded
<1> QED BY <1>1, <1>3, <1>4 DEF Collect, NextIsNew, IngestInv, Readable, bundle

\* A step of ingest.
LEMMA IngestKeeps == IngestInv /\ IngestNext => IngestInv'
<1> SUFFICES ASSUME IngestInv, IngestNext PROVE IngestInv'
  OBVIOUS
<1>1. CASE Begin
  <2>1. corpus' \in Seq(Doc \cup {Unreadable}) /\ toRead' = corpus' /\ taken' = <<>>
    BY <1>1, BatchesAssumption DEF Begin
  <2> QED BY <1>1, <2>1, NoRowsFit DEF Begin, IngestInv, Readable, bundle
<1>2. CASE Skip
  <2>1. /\ Tail(toRead) \in Seq(Doc \cup {Unreadable})
        /\ ToSet(toRead) = {Head(toRead)} \cup ToSet(Tail(toRead))
    BY <1>2, HeadAndTail DEF IngestInv, Skip
  <2> QED BY <1>2, <2>1 DEF Skip, IngestInv, Readable, bundle
<1>3. CASE Halt
  <2>1. RowFits([id |-> Head(toRead), review |-> "pending", nodes |-> <<>>])
    BY <1>3, EmptySeq DEF Halt, NextIsNew, RowFits, Row
  <2> QED BY <1>3, <2>1, CollectKeeps DEF Halt
<1>4. CASE Accept
  <2>1. RowFits([id |-> Head(toRead), review |-> "none", nodes |-> Cut[Head(toRead)]])
    BY <1>4, CutAssumption DEF Accept, NextIsNew, RowFits, Row
  <2> QED BY <1>4, <2>1, CollectKeeps DEF Accept
<1>5. CASE ReadFails
  <2>1. Unreadable \in ToSet(toRead)
    BY <1>5, HeadAndTail DEF IngestInv, ReadFails
  <2> QED BY <1>5, <2>1 DEF ReadFails, IngestInv, Readable, bundle
<1>6. CASE Unlink
  <2>1. ToSet(toRead) = {}
    <3>1. DOMAIN <<>> = {}
      BY EmptySeq
    <3> QED BY <1>6, <3>1 DEF Unlink, ToSet
  <2> QED BY <1>6, <2>1, NoRowsFit DEF Unlink, IngestInv, Readable
<1>7. CASE CreateSchema
  BY <1>7 DEF CreateSchema, IngestInv, Readable
<1>8. CASE WriteRows
  <2>1. KeysAreFree
    BY DEF KeysAreFree, IngestInv, RowsFit
  <2> QED BY <1>8, <2>1 DEF WriteRows, IngestInv, Readable
<1>9. CASE IngestDies
  BY <1>9 DEF IngestDies, IngestInv, Readable, bundle
<1> QED BY <1>1, <1>2, <1>3, <1>4, <1>5, <1>6, <1>7, <1>8, <1>9 DEF IngestNext, Proceed

\* An embedding run leaves the rows and the ingest process alone, and never
\* takes a bundle's rows away.
LEMMA RunsKeepIngest ==
  ASSUME NEW r \in Process, Run(r), troubles \in Nat
  PROVE  /\ docs' = docs /\ manifest' = manifest /\ batch' = batch /\ ingests' = ingests
         /\ file = "full" <=> file' = "full"
         /\ troubles' \in Nat /\ (troubles' = 0 => troubles = 0)
BY DEF Run, Open, Advance, Finish, Embed, EmbedFails, WriteBatch, WriteNowhere, Killed,
       bundle

LEMMA IngestInvNext == IngestInv /\ [Next]_vars => IngestInv'
<1> SUFFICES ASSUME IngestInv, [Next]_vars PROVE IngestInv'
  OBVIOUS
<1>1. ASSUME NEW r \in Process, Run(r) PROVE IngestInv'
  <2>1. /\ docs' = docs /\ manifest' = manifest /\ batch' = batch /\ ingests' = ingests
        /\ file = "full" <=> file' = "full"
        /\ troubles' \in Nat /\ (troubles' = 0 => troubles = 0)
    BY <1>1, RunsKeepIngest DEF IngestInv
  <2> QED BY <2>1 DEF IngestInv, Readable, batch
<1>2. CASE UNCHANGED vars
  BY <1>2 DEF vars, bundle, batch, IngestInv, Readable
<1> QED BY <1>1, <1>2, IngestKeeps DEF Next

LEMMA IngestInvInit == Init => IngestInv
<1> SUFFICES ASSUME Init PROVE IngestInv
  OBVIOUS
<1>1. <<>> \in Seq(Doc \cup {Unreadable})
  BY EmptySeq
<1> QED BY <1>1, NoRowsFit DEF Init, IInit, IngestInv, Readable

LEMMA IngestInvHolds == Spec => []IngestInv
BY IngestInvInit, IngestInvNext, PTL DEF Spec

\* A full bundle is what its manifest says it is, and an ingest that nothing
\* disturbs leaves such a bundle.
THEOREM BundlesAreBatches == Spec => []BundleIsBatch
<1>1. IngestInv => BundleIsBatch
  <2> SUFFICES ASSUME IngestInv PROVE BundleIsBatch
    OBVIOUS
  <2>1. ASSUME NEW i \in DOMAIN docs
        PROVE  /\ \A j \in DOMAIN docs \ {i} : docs[j].id # docs[i].id
               /\ docs[i].nodes = IF docs[i].id \in Confident THEN Cut[docs[i].id] ELSE <<>>
               /\ docs[i].review = "pending" <=> docs[i].id \notin Confident
    BY DEF IngestInv, RowsFit, RowFits
  <2> QED BY <2>1 DEF IngestInv, BundleIsBatch, Readable
<1> QED BY <1>1, IngestInvHolds, PTL

\* A full bundle is only given up for one whose files have all been read.
THEOREM BundlesAreKept == Spec => OldBundleKept
<1>1. IngestInv /\ [Next]_vars
        => [file = "full" /\ file' # "full" => IdsOf(taken) = ToSet(corpus)]_<<bundle, batch>>
  <2> SUFFICES ASSUME IngestInv, [Next]_vars, file = "full", file' # "full"
               PROVE  IdsOf(taken) = ToSet(corpus)
    OBVIOUS
  <2>1. CASE Unlink
    <3>1. DOMAIN <<>> = {}
      BY EmptySeq
    <3>2. ToSet(toRead) = {}
      BY <2>1, <3>1 DEF Unlink, ToSet
    <3> QED BY <2>1, <3>2 DEF Unlink, IngestInv
  <2>2. CASE CreateSchema
    BY <2>2 DEF CreateSchema, IngestInv
  <2>3. ~Unlink /\ ~CreateSchema => file' = "full"
    <3>1. ASSUME NEW r \in Process, Run(r) PROVE file' = "full"
      BY <3>1, RunsKeepIngest DEF IngestInv
    <3>2. ASSUME ~Unlink, ~CreateSchema, IngestNext PROVE file' = "full"
      BY <3>2 DEF IngestNext, Begin, Proceed, Skip, Halt, Accept, Collect, ReadFails,
                  WriteRows, IngestDies, bundle
    <3>3. CASE UNCHANGED vars
      BY <3>3 DEF vars, bundle
    <3> QED BY <3>1, <3>2, <3>3 DEF Next
  <2> QED BY <2>1, <2>2, <2>3
<1> QED BY <1>1, IngestInvHolds, PTL DEF Spec, OldBundleKept

-----------------------------------------------------------------------------
(* What a run takes of a document *)

LEMMA InjectiveAppend ==
  ASSUME NEW S, NEW r \in Seq(S), IsInjective(r), NEW x \in S, x \notin ToSet(r)
  PROVE  /\ Append(r, x) \in Seq(S) /\ IsInjective(Append(r, x))
         /\ ToSet(Append(r, x)) = ToSet(r) \cup {x}
<1> DEFINE n == Len(r)
           more == Append(r, x)
<1>1. /\ n \in Nat /\ DOMAIN r = 1..n
      /\ more \in Seq(S) /\ Len(more) = n + 1
      /\ \A i \in 1..n : more[i] = r[i]
      /\ more[n + 1] = x
  BY LenProperties, AppendProperties
<1>2. DOMAIN more = 1..(n + 1)
  BY <1>1, LenProperties
<1> HIDE DEF more, n
<1>3. \A i \in DOMAIN more : (i \in DOMAIN r /\ more[i] = r[i]) \/ (i = n + 1 /\ more[i] = x)
  <2> SUFFICES ASSUME NEW i \in DOMAIN more
               PROVE  (i \in DOMAIN r /\ more[i] = r[i]) \/ (i = n + 1 /\ more[i] = x)
    OBVIOUS
  <2>1. CASE i = n + 1
    BY <1>1, <2>1
  <2>2. CASE i # n + 1
    <3>1. i \in 1..n
      BY <1>1, <1>2, <2>2
    <3> QED BY <1>1, <3>1
  <2> QED BY <2>1, <2>2
<1>4. \A i \in DOMAIN r : i \in DOMAIN more /\ more[i] = r[i]
  BY <1>1, <1>2
<1>5. n + 1 \in DOMAIN more
  BY <1>1, <1>2
<1>6. \A i \in DOMAIN r : r[i] # x
  BY DEF ToSet
<1>7. IsInjective(more)
  BY <1>3, <1>6 DEF IsInjective
<1>8. ToSet(more) = ToSet(r) \cup {x}
  BY <1>1, <1>3, <1>4, <1>5 DEF ToSet
<1> QED BY <1>1, <1>7, <1>8 DEF more

\* f leaves out of s, from the front, what is in T.
LeavesOut(f, s, T, n) ==
  f = [k \in 0..n |-> IF k = 0 THEN <<>>
                      ELSE IF s[k] \in T THEN f[k - 1] ELSE Append(f[k - 1], s[k])]

LEMMA WithoutUnfolds ==
  ASSUME NEW s, NEW T
  PROVE  Without(s, T) = (CHOOSE f : LeavesOut(f, s, T, Len(s)))[Len(s)]
BY DEF Without, LeavesOut

LEMMA LeavesOutExists ==
  ASSUME NEW s, NEW T, NEW n \in Nat
  PROVE  \E f : LeavesOut(f, s, T, n)
<1> DEFINE N == {k \in Nat : \E f : LeavesOut(f, s, T, k)}
<1>1. 0 \in N
  <2> DEFINE f == [k \in 0..0 |-> <<>>]
  <2>1. LeavesOut(f, s, T, 0)
    BY DEF LeavesOut
  <2> QED BY <2>1
<1>2. ASSUME NEW k \in Nat, k \in N PROVE k + 1 \in N
  <2>1. PICK f : LeavesOut(f, s, T, k)
    BY <1>2
  <2> DEFINE next(g, i) == IF i = 0 THEN <<>>
                           ELSE IF s[i] \in T THEN g[i - 1] ELSE Append(g[i - 1], s[i])
             h == [i \in 0..(k + 1) |-> next(f, i)]
  <2>2. \A i \in 0..k : i \in 0..(k + 1) /\ f[i] = next(f, i)
    <3>1. \A i \in 0..k : f[i] = next(f, i)
      BY <2>1 DEF LeavesOut
    <3>2. \A i \in 0..k : i \in 0..(k + 1)
      OBVIOUS
    <3> QED BY <3>1, <3>2
  <2>3. \A i \in 0..k : h[i] = f[i]
    BY <2>2
  <2>4. \A i \in 0..(k + 1) : i # 0 => i - 1 \in 0..k
    OBVIOUS
  <2>5. \A i \in 0..(k + 1) : next(h, i) = next(f, i)
    <3>1. \A i \in 0..(k + 1) : i # 0 => h[i - 1] = f[i - 1]
      BY <2>3, <2>4
    <3> HIDE DEF h
    <3> QED BY <3>1
  <2>6. h = [i \in 0..(k + 1) |-> next(h, i)]
    <3> HIDE DEF next
    <3> QED BY <2>5
  <2>7. LeavesOut(h, s, T, k + 1)
    <3> HIDE DEF h
    <3> QED BY <2>6 DEF LeavesOut
  <2> QED BY <2>7
<1>3. n \in N
  <2> HIDE DEF N
  <2> QED BY <1>1, <1>2, SetInduction
<1> QED BY <1>3

\* What is left is exactly what is not in T, each once.
LEMMA WithoutIs ==
  ASSUME NEW S, NEW s \in Seq(S), IsInjective(s), NEW T
  PROVE  /\ Without(s, T) \in Seq(S) /\ IsInjective(Without(s, T))
         /\ ToSet(Without(s, T)) = ToSet(s) \ T
<1> DEFINE n == Len(s)
           f == CHOOSE g : LeavesOut(g, s, T, n)
           Part(r, k) == /\ r \in Seq(S) /\ IsInjective(r)
                         /\ ToSet(r) = {s[i] : i \in 1..k} \ T
           N == {k \in Nat : k <= n => Part(f[k], k)}
<1>1. n \in Nat /\ DOMAIN s = 1..n /\ \A i \in 1..n : s[i] \in S
  BY LenProperties, ElementOfSeq
<1>2. LeavesOut(f, s, T, n)
  BY <1>1, LeavesOutExists
<1>3. \A k \in 0..n : f[k] = IF k = 0 THEN <<>>
                             ELSE IF s[k] \in T THEN f[k - 1] ELSE Append(f[k - 1], s[k])
  <2> HIDE DEF f
  <2> QED BY <1>2 DEF LeavesOut
<1> HIDE DEF f
<1>4. 0 \in N
  <2>1. f[0] = <<>>
    BY <1>1, <1>3
  <2>2. DOMAIN <<>> = {} /\ <<>> \in Seq(S)
    BY EmptySeq
  <2>3. Part(<<>>, 0)
    BY <2>2 DEF IsInjective, ToSet
  <2> QED BY <2>1, <2>3
<1>5. ASSUME NEW k \in Nat, k \in N PROVE k + 1 \in N
  <2> SUFFICES ASSUME k + 1 <= n PROVE Part(f[k + 1], k + 1)
    OBVIOUS
  <2>1. Part(f[k], k)
    BY <1>1, <1>5
  <2>2. k + 1 \in 1..n /\ k + 1 \in 0..n /\ k + 1 # 0 /\ (k + 1) - 1 = k
    BY <1>1
  <2>3. f[k + 1] = IF s[k + 1] \in T THEN f[k] ELSE Append(f[k], s[k + 1])
    BY <1>3, <2>2
  <2>4. {s[i] : i \in 1..(k + 1)} = {s[i] : i \in 1..k} \cup {s[k + 1]}
    <3>1. 1..(k + 1) = 1..k \cup {k + 1}
      OBVIOUS
    <3> QED BY <3>1
  <2>5. CASE s[k + 1] \in T
    BY <2>1, <2>3, <2>4, <2>5
  <2>6. CASE s[k + 1] \notin T
    <3>1. \A i \in 1..k : i \in 1..n /\ i # k + 1
      BY <2>2, <1>1
    <3>2. s[k + 1] \notin {s[i] : i \in 1..k}
      BY <1>1, <2>2, <3>1 DEF IsInjective
    <3>3. s[k + 1] \in S /\ s[k + 1] \notin ToSet(f[k])
      BY <1>1, <2>1, <2>2, <3>2
    <3>4. /\ f[k] \in Seq(S) /\ IsInjective(f[k])
      BY <2>1
    <3>5. /\ Append(f[k], s[k + 1]) \in Seq(S) /\ IsInjective(Append(f[k], s[k + 1]))
          /\ ToSet(Append(f[k], s[k + 1])) = ToSet(f[k]) \cup {s[k + 1]}
      BY <3>3, <3>4, InjectiveAppend
    <3> QED BY <2>1, <2>3, <2>4, <2>6, <3>5
  <2> QED BY <2>5, <2>6
<1>6. n \in N
  <2> HIDE DEF N
  <2> QED BY <1>1, <1>4, <1>5, SetInduction
<1>7. Part(f[n], n)
  BY <1>1, <1>6
<1>8. ToSet(s) = {s[i] : i \in 1..n}
  BY <1>1 DEF ToSet
<1>9. Without(s, T) = f[n]
  BY WithoutUnfolds DEF f
<1> QED BY <1>7, <1>8, <1>9

\* The part of a sequence that a call takes, and what it leaves.
LEMMA CutInTwo ==
  ASSUME NEW S, NEW s \in Seq(S), IsInjective(s), NEW c \in 0..Len(s)
  PROVE  LET called == SubSeq(s, 1, c)
             left == SubSeq(s, c + 1, Len(s))
         IN  /\ left \in Seq(S) /\ IsInjective(left)
             /\ ToSet(called) \cup ToSet(left) \subseteq ToSet(s)
             /\ ToSet(called) \cap ToSet(left) = {}
<1> DEFINE n == Len(s)
           called == SubSeq(s, 1, c)
           left == SubSeq(s, c + 1, n)
<1>1. n \in Nat /\ DOMAIN s = 1..n /\ c \in Nat /\ c <= n /\ \A i \in 1..n : s[i] \in S
  BY LenProperties, ElementOfSeq
<1>2. /\ called \in Seq(S) /\ Len(called) = c
      /\ \A i \in 1..c : called[i] = s[i]
  <2>1. \A i \in 1..c : s[i] \in S
    BY <1>1
  <2>2. /\ called \in Seq(S) /\ Len(called) = IF 1 <= c THEN c - 1 + 1 ELSE 0
        /\ \A i \in 1..c - 1 + 1 : called[i] = s[1 + i - 1]
    BY <1>1, <2>1, SubSeqProperties
  <2> QED BY <1>1, <2>2
<1>3. /\ left \in Seq(S) /\ Len(left) = n - c
      /\ \A i \in 1..(n - c) : left[i] = s[c + i]
  <2>1. \A i \in (c + 1)..n : s[i] \in S
    BY <1>1
  <2>2. /\ left \in Seq(S) /\ Len(left) = IF c + 1 <= n THEN n - (c + 1) + 1 ELSE 0
        /\ \A i \in 1..n - (c + 1) + 1 : left[i] = s[c + 1 + i - 1]
    BY <1>1, <2>1, SubSeqProperties
  <2> HIDE DEF left, n
  <2>3. n - (c + 1) + 1 = n - c /\ (~(c + 1 <= n) => n - c = 0)
    BY <1>1
  <2>4. \A i \in 1..(n - c) : c + 1 + i - 1 = c + i
    BY <1>1
  <2> QED BY <2>2, <2>3, <2>4
<1>4. DOMAIN called = 1..c /\ DOMAIN left = 1..(n - c)
  BY <1>2, <1>3, LenProperties
<1> HIDE DEF called, left, n
<1>5. \A i \in DOMAIN called : i \in DOMAIN s /\ called[i] = s[i]
  BY <1>1, <1>2, <1>4
<1>6. \A i \in DOMAIN left : c + i \in DOMAIN s /\ left[i] = s[c + i] /\ c + i \notin DOMAIN called
  BY <1>1, <1>3, <1>4
<1>7. \A i, j \in DOMAIN left : c + i = c + j => i = j
  BY <1>1, <1>4
<1>8. IsInjective(left)
  BY <1>6, <1>7 DEF IsInjective
<1>9. ToSet(called) \cup ToSet(left) \subseteq ToSet(s)
  BY <1>5, <1>6 DEF ToSet
<1>10. ToSet(called) \cap ToSet(left) = {}
  BY <1>5, <1>6 DEF ToSet, IsInjective
<1> QED BY <1>3, <1>8, <1>9, <1>10 DEF called, left, n

-----------------------------------------------------------------------------
(* What a run holds *)

NodesOf(rows) == UNION {ToSet(rows[i].nodes) : i \in DOMAIN rows}

\* The first row of a plan shares no node with the rest.
LEMMA RowsApart ==
  ASSUME NEW rows, RowsFit(rows), rows # <<>>
  PROVE  /\ RowsFit(Tail(rows)) /\ RowFits(Head(rows))
         /\ ToSet(Head(rows).nodes) \subseteq NodesOf(rows)
         /\ NodesOf(Tail(rows)) \subseteq NodesOf(rows)
         /\ ToSet(Head(rows).nodes) \cap NodesOf(Tail(rows)) = {}
         /\ Head(rows).nodes \in Seq(Node) /\ IsInjective(Head(rows).nodes)
<1>1. /\ Tail(rows) \in Seq(Row) /\ Head(rows) = rows[1] /\ 1 \in DOMAIN rows
      /\ \A k \in DOMAIN Tail(rows) : k + 1 \in DOMAIN rows /\ Tail(rows)[k] = rows[k + 1]
  BY HeadAndTail DEF RowsFit
<1>2. DOMAIN Tail(rows) \subseteq Nat \ {0}
  <2>1. DOMAIN Tail(rows) = 1..Len(Tail(rows)) /\ Len(Tail(rows)) \in Nat
    BY <1>1, LenProperties
  <2> QED BY <2>1
<1>3. \A k \in DOMAIN Tail(rows) : k + 1 # 1 /\ \A j \in DOMAIN Tail(rows) : k + 1 = j + 1 => k = j
  BY <1>2
<1>4. RowsFit(Tail(rows))
  BY <1>1, <1>3 DEF RowsFit
<1>5. RowFits(Head(rows))
  BY <1>1 DEF RowsFit
<1>6. \A r, q : RowFits(r) /\ RowFits(q) /\ r.id # q.id => ToSet(r.nodes) \cap ToSet(q.nodes) = {}
  <2>1. ToSet(<<>>) = {}
    <3>1. DOMAIN <<>> = {}
      BY EmptySeq
    <3> QED BY <3>1 DEF ToSet
  <2> QED BY <2>1, CutAssumption DEF RowFits, Row
<1>7. Head(rows).nodes \in Seq(Node) /\ IsInjective(Head(rows).nodes)
  <2>1. <<>> \in Seq(Node) /\ IsInjective(<<>>)
    <3>1. DOMAIN <<>> = {}
      BY EmptySeq
    <3> QED BY <3>1, EmptySeq DEF IsInjective
  <2> QED BY <1>5, <2>1, CutAssumption DEF RowFits, Row
<1>8. \A k \in DOMAIN Tail(rows) :
        /\ RowFits(Tail(rows)[k]) /\ Tail(rows)[k].id # Head(rows).id
        /\ ToSet(Tail(rows)[k].nodes) \subseteq NodesOf(rows)
  BY <1>1, <1>3 DEF RowsFit, NodesOf
<1>9. NodesOf(Tail(rows)) \subseteq NodesOf(rows)
  BY <1>8 DEF NodesOf
<1>10. ToSet(Head(rows).nodes) \cap NodesOf(Tail(rows)) = {}
  BY <1>5, <1>6, <1>8 DEF NodesOf
<1>11. ToSet(Head(rows).nodes) \subseteq NodesOf(rows)
  BY <1>1 DEF NodesOf
<1> QED BY <1>4, <1>5, <1>7, <1>9, <1>10, <1>11

RunMaps ==
  /\ DOMAIN pc = Process /\ DOMAIN plan = Process
  /\ DOMAIN already = Process /\ DOMAIN pending = Process

\* A run holds rows and nodes; and if no other run has its embedder, it knows of
\* or has done whatever of its work carries the model's vector.
WorkLeft(r) ==
  /\ pc[r] # "idle" => r \in deployed
  /\ RowsFit(plan[r])
  /\ pending[r] \in Seq(Node) /\ IsInjective(pending[r])
  /\ Alone(r) /\ pc[r] # "idle" =>
       Carrying(EmbedderOf[r]) \cap NodesOf(plan[r]) \subseteq already[r]
  /\ Alone(r) /\ pc[r] \in {"batch", "write"} =>
       ToSet(pending[r]) \cap (Carrying(EmbedderOf[r]) \cup NodesOf(plan[r])) = {}

EInv == RunMaps /\ \A r \in Process : WorkLeft(r)

LEMMA WorkKept ==
  ASSUME NEW r, WorkLeft(r), deployed' = deployed,
         Alone(r) => Carrying(EmbedderOf[r])' \subseteq Carrying(EmbedderOf[r]),
         plan'[r] = plan[r], already'[r] = already[r], pending'[r] = pending[r],
         pc'[r] = pc[r]
  PROVE  WorkLeft(r)'
<1>1. Alone(r)' = Alone(r)
  BY DEF Alone
<1> QED BY <1>1 DEF WorkLeft

LEMMA ChunkFits ==
  ASSUME NEW r \in Process, pending[r] \in Seq(Node)
  PROVE  Chunk(r) \in 0..Len(pending[r])
<1>1. MaxBatch[EmbedderOf[r]] \in Nat /\ Len(pending[r]) \in Nat
  BY MaxBatchAssumption, ProcessAssumption, LenProperties
<1> QED BY <1>1 DEF Chunk

\* What one transaction of a run does to the models' nodes.
LEMMA CarryingAfter ==
  ASSUME NEW r \in Process, WriteBatch(r), NEW m
  PROVE  Carrying(m)' = IF m = EmbedderOf[r] THEN Carrying(m) \cup Called(r)
                        ELSE Carrying(m) \ Called(r)
BY DEF Carrying, WriteBatch

LEMMA RunKeepsWork ==
  ASSUME IngestInv, EInv, NEW r \in Process, Run(r)
  PROVE  EInv'
<1>1. RunMaps' /\ deployed' = deployed
  BY DEF EInv, RunMaps, Run, Open, Advance, Finish, Embed, EmbedFails, WriteBatch,
         WriteNowhere, Killed
<1>2. ASSUME NEW q \in Process, q # r PROVE WorkLeft(q)'
  <2>1. /\ plan'[q] = plan[q] /\ already'[q] = already[q] /\ pending'[q] = pending[q]
        /\ pc'[q] = pc[q]
    BY <1>2 DEF EInv, RunMaps, Run, Open, Advance, Finish, Embed, EmbedFails, WriteBatch,
                WriteNowhere, Killed
  <2>2. ASSUME Alone(q) PROVE Carrying(EmbedderOf[q])' \subseteq Carrying(EmbedderOf[q])
    <3>1. CASE WriteBatch(r)
      <4>1. r \in deployed
        BY <3>1 DEF WriteBatch, EInv, WorkLeft
      <4>2. EmbedderOf[r] # EmbedderOf[q]
        BY <1>2, <2>2, <4>1 DEF Alone
      <4> QED BY <3>1, <4>2, CarryingAfter
    <3>2. CASE ~WriteBatch(r)
      <4>1. vectors' = vectors
        BY <3>2 DEF Run, Open, Advance, Finish, Embed, EmbedFails, WriteNowhere, Killed, bundle
      <4> QED BY <4>1 DEF Carrying
    <3> QED BY <3>1, <3>2
  <2> QED BY <1>1, <2>1, <2>2, WorkKept DEF EInv
<1>3. WorkLeft(r)'
  <2>0. WorkLeft(r) /\ RunMaps /\ Alone(r)' = Alone(r) /\ deployed' = deployed
    BY <1>1 DEF EInv, Alone
  <2>1. CASE Open(r)
    <3>1. /\ plan'[r] = docs /\ already'[r] = Carrying(EmbedderOf[r]) /\ pending' = pending
          /\ vectors' = vectors /\ pc'[r] = "documents" /\ r \in deployed
      BY <2>0, <2>1 DEF Open, RunMaps, bundle
    <3> QED BY <2>0, <3>1 DEF WorkLeft, Carrying, IngestInv
  <2>2. CASE Advance(r)
    <3> DEFINE row == Head(plan[r])
               left == IF row.review = "pending" THEN <<>> ELSE Without(row.nodes, already[r])
    <3>1. /\ pc[r] = "documents" /\ plan[r] # <<>>
          /\ pending'[r] = left /\ pc'[r] = IF left = <<>> THEN "documents" ELSE "batch"
          /\ plan'[r] = Tail(plan[r]) /\ already' = already /\ vectors' = vectors
      BY <2>0, <2>2 DEF Advance, RunMaps, bundle
    <3>2. /\ RowsFit(Tail(plan[r]))
          /\ ToSet(row.nodes) \subseteq NodesOf(plan[r])
          /\ NodesOf(Tail(plan[r])) \subseteq NodesOf(plan[r])
          /\ ToSet(row.nodes) \cap NodesOf(Tail(plan[r])) = {}
          /\ row.nodes \in Seq(Node) /\ IsInjective(row.nodes)
      BY <2>0, <3>1, RowsApart DEF WorkLeft
    <3>3. /\ left \in Seq(Node) /\ IsInjective(left)
          /\ ToSet(left) \subseteq ToSet(row.nodes) \ already[r]
      <4>1. DOMAIN <<>> = {} /\ <<>> \in Seq(Node)
        BY EmptySeq
      <4>2. IsInjective(<<>>) /\ ToSet(<<>>) = {}
        BY <4>1 DEF IsInjective, ToSet
      <4>3. /\ Without(row.nodes, already[r]) \in Seq(Node)
            /\ IsInjective(Without(row.nodes, already[r]))
            /\ ToSet(Without(row.nodes, already[r])) = ToSet(row.nodes) \ already[r]
        BY <3>2, WithoutIs
      <4> QED BY <4>1, <4>2, <4>3
    <3>4. /\ Carrying(EmbedderOf[r])' = Carrying(EmbedderOf[r])
          /\ Alone(r) => Carrying(EmbedderOf[r]) \cap NodesOf(plan[r]) \subseteq already[r]
      BY <2>0, <3>1 DEF WorkLeft, Carrying
    <3> HIDE DEF left, row
    <3>5. Alone(r) => ToSet(left) \cap (Carrying(EmbedderOf[r]) \cup NodesOf(Tail(plan[r]))) = {}
      BY <3>2, <3>3, <3>4
    <3>6. r \in deployed
      BY <2>0, <3>1 DEF WorkLeft
    <3> QED BY <2>0, <3>1, <3>2, <3>3, <3>4, <3>5, <3>6 DEF WorkLeft
  <2>3. CASE WriteBatch(r)
    <3> DEFINE left == SubSeq(pending[r], Chunk(r) + 1, Len(pending[r]))
    <3>1. /\ pc[r] = "write" /\ plan' = plan /\ already' = already
          /\ pending'[r] = left
      BY <2>0, <2>3 DEF WriteBatch, RunMaps
    <3>2. Carrying(EmbedderOf[r])' = Carrying(EmbedderOf[r]) \cup Called(r)
      BY <2>3, CarryingAfter
    <3>3. /\ left \in Seq(Node) /\ IsInjective(left)
          /\ Called(r) \cup ToSet(left) \subseteq ToSet(pending[r])
          /\ Called(r) \cap ToSet(left) = {}
      <4>1. Chunk(r) \in 0..Len(pending[r]) /\ pending[r] \in Seq(Node) /\ IsInjective(pending[r])
        BY <2>0, ChunkFits DEF WorkLeft
      <4> QED BY <4>1, CutInTwo DEF Called
    <3>4. Alone(r) => ToSet(pending[r]) \cap (Carrying(EmbedderOf[r]) \cup NodesOf(plan[r])) = {}
      BY <2>0, <3>1 DEF WorkLeft
    <3>5. /\ Alone(r) => Carrying(EmbedderOf[r]) \cap NodesOf(plan[r]) \subseteq already[r]
          /\ RowsFit(plan[r]) /\ r \in deployed
      BY <2>0, <3>1 DEF WorkLeft
    <3> HIDE DEF left
    <3>6. Alone(r) => ToSet(left) \cap (Carrying(EmbedderOf[r])' \cup NodesOf(plan[r])) = {}
      BY <3>2, <3>3, <3>4
    <3>7. Alone(r) => Carrying(EmbedderOf[r])' \cap NodesOf(plan[r]) \subseteq already[r]
      BY <3>2, <3>3, <3>4, <3>5
    <3> QED BY <2>0, <3>1, <3>3, <3>5, <3>6, <3>7 DEF WorkLeft
  <2>4. CASE Finish(r) \/ Embed(r) \/ EmbedFails(r) \/ WriteNowhere(r) \/ Killed(r)
    <3>1. /\ plan' = plan /\ already' = already /\ pending' = pending /\ vectors' = vectors
          /\ pc'[r] # "idle" => pc[r] # "idle"
          /\ pc'[r] \in {"batch", "write"} => pc[r] \in {"batch", "write"}
      BY <2>0, <2>4 DEF Finish, Embed, EmbedFails, WriteNowhere, Killed, RunMaps, bundle
    <3> QED BY <2>0, <3>1 DEF WorkLeft, Carrying
  <2> QED BY <2>1, <2>2, <2>3, <2>4 DEF Run
<1> QED BY <1>1, <1>2, <1>3 DEF EInv

LEMMA EInvNext == IngestInv /\ EInv /\ [Next]_vars => EInv'
<1> SUFFICES ASSUME IngestInv, EInv, [Next]_vars PROVE EInv'
  OBVIOUS
<1>1. ASSUME (IngestNext /\ UNCHANGED embed) \/ UNCHANGED vars PROVE EInv'
  <2>1. \A m : Carrying(m)' \subseteq Carrying(m)
    <3>1. CASE vectors' = vectors
      BY <3>1 DEF Carrying
    <3>2. CASE vectors' = NoVectors
      BY <3>2 DEF Carrying, NoVectors
    <3>3. vectors' = vectors \/ vectors' = NoVectors
      BY <1>1 DEF IngestNext, Begin, Proceed, Skip, Halt, Accept, Collect, ReadFails, Unlink,
                  CreateSchema, WriteRows, IngestDies, bundle, vars
    <3> QED BY <3>1, <3>2, <3>3
  <2>2. /\ plan' = plan /\ already' = already /\ pending' = pending /\ pc' = pc
        /\ deployed' = deployed
    BY <1>1 DEF embed, vars
  <2> QED BY <2>1, <2>2, WorkKept DEF EInv, RunMaps
<1> QED BY <1>1, RunKeepsWork DEF Next

LEMMA EInvInit == Init => EInv
<1> SUFFICES ASSUME Init PROVE EInv
  OBVIOUS
<1>1. DOMAIN <<>> = {} /\ <<>> \in Seq(Node)
  BY EmptySeq
<1> QED BY <1>1, NoRowsFit DEF Init, EInv, RunMaps, WorkLeft, IsInjective

LEMMA EInvHolds == Spec => []EInv
BY EInvInit, EInvNext, IngestInvHolds, PTL DEF Spec

\* No call is paid for a node that carries the model's vector by then, whatever
\* was ingested, interrupted and started over meanwhile.
THEOREM WorkIsPaidOnce == Spec => []PaidOnce
<1>1. EInv => PaidOnce
  BY DEF EInv, WorkLeft, PaidOnce
<1> QED BY <1>1, EInvHolds, PTL

-----------------------------------------------------------------------------
(* Whole documents *)

\* One embedder is in use on the bundle, by however many processes.
OneEmbedder ==
  \A used \in Deployments : \A q, r \in used : EmbedderOf[q] = EmbedderOf[r]

Contextual(m) == MaxBatch[m] = 0
Whole(T) == \E d \in Doc : T = ToSet(Cut[d])

\* Either all of a document's nodes are in T or none.
ByDocument(T) == \A d \in Doc : ToSet(Cut[d]) \subseteq T \/ ToSet(Cut[d]) \cap T = {}

VectorsFit ==
  \A n \in DOMAIN vectors :
    /\ \E r \in deployed : vectors[n].model = EmbedderOf[r]
    /\ Contextual(vectors[n].model) =>
         /\ n \in vectors[n].with /\ Whole(vectors[n].with)
         /\ vectors[n].with \subseteq DOMAIN vectors

\* A contextual embedder's run has only whole documents before it.
RunsWhole(r) ==
  /\ Contextual(EmbedderOf[r]) /\ pc[r] # "idle" => ByDocument(already[r])
  /\ Contextual(EmbedderOf[r]) /\ pc[r] \in {"batch", "write"} => Whole(ToSet(pending[r]))

SInv ==
  /\ deployed \in Deployments
  /\ VectorsFit
  /\ \A r \in Process : RunsWhole(r)

\* Under one embedder the vectors of the bundle are of whole documents.
LEMMA CarriedByDocument ==
  ASSUME OneEmbedder, deployed \in Deployments, VectorsFit,
         NEW r \in deployed, Contextual(EmbedderOf[r])
  PROVE  ByDocument(Carrying(EmbedderOf[r]))
<1> SUFFICES ASSUME NEW d \in Doc, NEW n \in ToSet(Cut[d]) \cap Carrying(EmbedderOf[r])
             PROVE  ToSet(Cut[d]) \subseteq Carrying(EmbedderOf[r])
  BY DEF ByDocument
<1>1. \A x \in DOMAIN vectors : vectors[x].model = EmbedderOf[r]
  BY DEF OneEmbedder, VectorsFit
<1>2. /\ n \in DOMAIN vectors /\ n \in vectors[n].with /\ Whole(vectors[n].with)
      /\ vectors[n].with \subseteq DOMAIN vectors
  BY <1>1 DEF VectorsFit, Carrying
<1>3. vectors[n].with = ToSet(Cut[d])
  BY <1>2, CutAssumption DEF Whole
<1> QED BY <1>1, <1>2, <1>3 DEF Carrying

LEMMA RunKeepsWhole ==
  ASSUME OneEmbedder, EInv, SInv, NEW r \in Process, Run(r)
  PROVE  SInv'
<1>0. RunMaps /\ RunsWhole(r) /\ WorkLeft(r)
  BY DEF EInv, SInv
<1>1. deployed' = deployed
  BY DEF Run, Open, Advance, Finish, Embed, EmbedFails, WriteBatch, WriteNowhere, Killed
<1>2. ASSUME NEW q \in Process, q # r PROVE RunsWhole(q)'
  <2>1. already'[q] = already[q] /\ pending'[q] = pending[q] /\ pc'[q] = pc[q]
    BY <1>0, <1>2 DEF RunMaps, Run, Open, Advance, Finish, Embed, EmbedFails, WriteBatch,
                      WriteNowhere, Killed
  <2> QED BY <1>1, <2>1 DEF SInv, RunsWhole, Contextual
<1>3. CASE Open(r)
  <2>1. /\ already'[r] = Carrying(EmbedderOf[r]) /\ pc'[r] = "documents" /\ r \in deployed
        /\ vectors' = vectors
    BY <1>0, <1>3 DEF Open, RunMaps, bundle
  <2>2. Contextual(EmbedderOf[r]) => ByDocument(Carrying(EmbedderOf[r]))
    BY <2>1, CarriedByDocument DEF SInv
  <2>3. RunsWhole(r)'
    BY <1>1, <2>1, <2>2 DEF RunsWhole, ByDocument, Contextual
  <2> QED BY <1>1, <1>2, <2>1, <2>3 DEF SInv, VectorsFit, Contextual
<1>4. CASE Advance(r)
  <2> DEFINE row == Head(plan[r])
             left == IF row.review = "pending" THEN <<>> ELSE Without(row.nodes, already[r])
  <2>1. /\ pc[r] = "documents" /\ plan[r] # <<>>
        /\ pending'[r] = left /\ pc'[r] = IF left = <<>> THEN "documents" ELSE "batch"
        /\ already' = already /\ vectors' = vectors
    BY <1>0, <1>4 DEF Advance, RunMaps, bundle
  <2>2. RowFits(row) /\ row.nodes \in Seq(Node) /\ IsInjective(row.nodes)
    BY <1>0, <2>1, RowsApart DEF WorkLeft
  <2>3. ASSUME Contextual(EmbedderOf[r]), left # <<>> PROVE Whole(ToSet(left))
    <3>1. ToSet(left) = ToSet(row.nodes) \ already[r] /\ left \in Seq(Node)
      BY <2>2, <2>3, WithoutIs
    <3>2. row.id \in Doc /\ row.nodes = Cut[row.id]
      BY <2>2, <2>3 DEF RowFits, Row
    <3>3. ByDocument(already[r])
      BY <1>0, <2>1, <2>3 DEF RunsWhole
    <3> HIDE DEF left, row
    <3>4. ToSet(left) # {}
      <4>1. 1 \in DOMAIN left
        BY <2>3, <3>1, HeadAndTail
      <4> QED BY <4>1 DEF ToSet
    <3>5. ToSet(Cut[row.id]) \cap already[r] = {}
      BY <3>1, <3>2, <3>3, <3>4 DEF ByDocument
    <3> QED BY <3>1, <3>2, <3>5 DEF Whole
  <2> HIDE DEF left, row
  <2>4. RunsWhole(r)'
    BY <1>0, <1>1, <2>1, <2>3 DEF RunsWhole, ByDocument, Whole, Contextual
  <2> QED BY <1>1, <1>2, <2>1, <2>4 DEF SInv, VectorsFit, Contextual
<1>5. CASE WriteBatch(r)
  <2> DEFINE left == SubSeq(pending[r], Chunk(r) + 1, Len(pending[r]))
  <2>1. /\ pc[r] = "write" /\ already' = already
        /\ pending'[r] = left /\ pc'[r] = IF left = <<>> THEN "documents" ELSE "batch"
        /\ vectors' = [n \in DOMAIN vectors \cup Called(r) |->
             IF n \in Called(r) THEN [model |-> EmbedderOf[r], with |-> Called(r)] ELSE vectors[n]]
    BY <1>0, <1>5 DEF WriteBatch, RunMaps
  <2>2. r \in deployed
    BY <1>0, <2>1 DEF WorkLeft
  <2>3. Contextual(EmbedderOf[r]) => left = <<>> /\ Called(r) = ToSet(pending[r]) /\ Whole(ToSet(pending[r]))
    <3> SUFFICES ASSUME Contextual(EmbedderOf[r])
                 PROVE  left = <<>> /\ Called(r) = ToSet(pending[r]) /\ Whole(ToSet(pending[r]))
      OBVIOUS
    <3>1. Chunk(r) = Len(pending[r]) /\ pending[r] \in Seq(Node) /\ Len(pending[r]) \in Nat
      BY <1>0, LenProperties DEF Chunk, Contextual, WorkLeft
    <3>2. SubSeq(pending[r], 1, Chunk(r)) = pending[r]
      BY <3>1, SubSeqFull
    <3>3. left = <<>>
      <4>1. Chunk(r) + 1 \in Int /\ Len(pending[r]) \in Int /\ Len(pending[r]) < Chunk(r) + 1
        BY <3>1
      <4> QED BY <4>1, SubSeqEmpty
    <3>4. Whole(ToSet(pending[r]))
      BY <1>0, <2>1 DEF RunsWhole
    <3> QED BY <3>2, <3>3, <3>4 DEF Called
  <2> HIDE DEF left
  <2>4. RunsWhole(r)'
    BY <1>0, <1>1, <2>1, <2>2, <2>3 DEF RunsWhole, ByDocument, Contextual
  <2>5. VectorsFit'
    <3> SUFFICES ASSUME NEW n \in DOMAIN vectors'
                 PROVE  /\ \E q \in deployed : vectors'[n].model = EmbedderOf[q]
                        /\ Contextual(vectors'[n].model) =>
                             /\ n \in vectors'[n].with /\ Whole(vectors'[n].with)
                             /\ vectors'[n].with \subseteq DOMAIN vectors'
      BY <1>1 DEF VectorsFit, Contextual, Whole
    <3>1. CASE n \in Called(r)
      <4>1. vectors'[n].model = EmbedderOf[r] /\ vectors'[n].with = Called(r)
        BY <2>1, <3>1
      <4> QED BY <2>1, <2>2, <2>3, <3>1, <4>1
    <3>2. CASE n \notin Called(r)
      <4>1. n \in DOMAIN vectors /\ vectors'[n] = vectors[n] /\ DOMAIN vectors \subseteq DOMAIN vectors'
        BY <2>1, <3>2
      <4> QED BY <4>1 DEF SInv, VectorsFit
    <3> QED BY <3>1, <3>2
  <2> QED BY <1>1, <1>2, <2>4, <2>5 DEF SInv
<1>6. CASE Finish(r) \/ Embed(r) \/ EmbedFails(r) \/ WriteNowhere(r) \/ Killed(r)
  <2>1. /\ already' = already /\ pending' = pending /\ vectors' = vectors
        /\ pc'[r] # "idle" => pc[r] # "idle"
        /\ pc'[r] \in {"batch", "write"} => pc[r] \in {"batch", "write"}
    BY <1>0, <1>6 DEF Finish, Embed, EmbedFails, WriteNowhere, Killed, RunMaps, bundle
  <2>2. RunsWhole(r)'
    BY <1>0, <1>1, <2>1 DEF RunsWhole, ByDocument, Whole, Contextual
  <2> QED BY <1>1, <1>2, <2>1, <2>2 DEF SInv, VectorsFit, Contextual
<1> QED BY <1>3, <1>4, <1>5, <1>6 DEF Run

LEMMA SInvNext == OneEmbedder /\ EInv /\ SInv /\ [Next]_vars => SInv'
<1> SUFFICES ASSUME OneEmbedder, EInv, SInv, [Next]_vars PROVE SInv'
  OBVIOUS
<1>1. ASSUME (IngestNext /\ UNCHANGED embed) \/ UNCHANGED vars PROVE SInv'
  <2>1. deployed' = deployed /\ already' = already /\ pending' = pending /\ pc' = pc
    BY <1>1 DEF embed, vars
  <2>2. vectors' = vectors \/ vectors' = NoVectors
    BY <1>1 DEF IngestNext, Begin, Proceed, Skip, Halt, Accept, Collect, ReadFails, Unlink,
                CreateSchema, WriteRows, IngestDies, bundle, vars
  <2>3. VectorsFit'
    BY <2>1, <2>2 DEF SInv, VectorsFit, NoVectors, Contextual
  <2> QED BY <2>1, <2>3 DEF SInv, RunsWhole, ByDocument, Whole, Contextual
<1> QED BY <1>1, RunKeepsWhole DEF Next

\* While one embedder is in use, a contextual embedder's vectors all come of
\* calls with the whole document, however often runs are cut short.
THEOREM VectorsAsFromScratch == OneEmbedder => (Spec => []SameAsFromScratch)
<1> SUFFICES ASSUME OneEmbedder PROVE Spec => []SameAsFromScratch
  OBVIOUS
<1>1. Init => SInv
  BY DEF Init, IInit, SInv, VectorsFit, NoVectors, RunsWhole
<1>2. EInv /\ SInv /\ [Next]_vars => SInv'
  BY SInvNext
<1>3. SInv => SameAsFromScratch
  BY DEF SInv, VectorsFit, SameAsFromScratch, Contextual, Whole
<1> QED BY <1>1, <1>2, <1>3, EInvHolds, PTL DEF Spec
=============================================================================
