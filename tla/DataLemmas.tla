----------------------------- MODULE DataLemmas -----------------------------
(***************************************************************************)
(* What the proofs of several components need about numbers, finite sets,  *)
(* sums and sequences.                                                     *)
(***************************************************************************)
EXTENDS Integers, SequencesExt, FiniteSetTheorems, SequenceTheorems,
        WellFoundedInduction, TLAPS

\* Every nonempty set of numbers has a least one.
LEMMA LeastNat ==
  ASSUME NEW T \in SUBSET Nat, T # {}
  PROVE  \E x \in T : \A y \in T : x <= y
<1> DEFINE R == {p \in Nat \X Nat : p[1] < p[2]}
<1>1. IsWellFoundedOn(R, Nat)
  BY NatLessThanWellFounded DEF OpToRel
<1>2. PICK x \in T : \A y \in T : <<y, x>> \notin R
  BY <1>1, WFMin
<1>3. ASSUME NEW y \in T PROVE x <= y
  <2>1. <<y, x>> \in Nat \X Nat /\ <<y, x>>[1] = y /\ <<y, x>>[2] = x
    OBVIOUS
  <2>2. ~(y < x)
    BY <1>2, <2>1
  <2>3. x \in Nat /\ y \in Nat
    OBVIOUS
  <2> QED BY <2>2, <2>3
<1> QED BY <1>3

\* Induction, stated of a set so that the provers can instantiate it.
LEMMA SetInduction ==
  ASSUME NEW S, 0 \in S, \A n \in Nat : n \in S => n + 1 \in S
  PROVE  Nat \subseteq S
<1>1. SUFFICES ASSUME Nat \ S # {} PROVE FALSE
  OBVIOUS
<1>2. PICK x \in Nat \ S : \A y \in Nat \ S : x <= y
  BY <1>1, LeastNat
<1>3. x # 0 /\ x - 1 \in Nat /\ x - 1 \notin Nat \ S
  BY <1>2
<1> QED BY <1>3

\* A bounded, nonempty set of numbers has a greatest one.
LEMMA GreatestNat ==
  ASSUME NEW T \in SUBSET Nat, T # {}, NEW b \in Nat, \A y \in T : y <= b
  PROVE  \E x \in T : \A y \in T : y <= x
<1> DEFINE D == {n \in Nat : \E y \in T : n = b - y}
<1>1. D # {}
  <2>1. PICK y \in T : TRUE
    OBVIOUS
  <2>2. b - y \in Nat
    OBVIOUS
  <2> QED BY <2>1, <2>2
<1>2. PICK d \in D : \A n \in D : d <= n
  BY <1>1, LeastNat
<1>3. PICK x \in T : d = b - x
  BY <1>2
<1>4. ASSUME NEW y \in T PROVE y <= x
  <2>1. b - y \in D
    OBVIOUS
  <2>2. b - x <= b - y
    BY <1>2, <1>3, <2>1
  <2> QED BY <2>2
<1> QED BY <1>4

LEMMA MaxIs ==
  ASSUME NEW T \in SUBSET Nat, T # {}, NEW b \in Nat, \A y \in T : y <= b
  PROVE  Max(T) \in T /\ \A y \in T : y <= Max(T)
<1>1. \E x \in T : \A y \in T : y <= x
  BY GreatestNat
<1>2. \E x \in T : \A y \in T : x >= y
  BY <1>1
<1> QED BY <1>2 DEF Max

LEMMA MinIs ==
  ASSUME NEW T \in SUBSET Nat, T # {}
  PROVE  Min(T) \in T /\ \A y \in T : Min(T) <= y
<1>1. \E x \in T : \A y \in T : x <= y
  BY LeastNat
<1> QED BY <1>1 DEF Min

\* c lists S in increasing order.
Increasing(c, S) ==
  /\ c \in [1..Cardinality(S) -> S]
  /\ \A i, j \in DOMAIN c : i < j => c[i] < c[j]

LEMMA ListExists ==
  ASSUME NEW b \in Nat, NEW S \in SUBSET (0..b)
  PROVE  \E c : Increasing(c, S)
<1> DEFINE N == {n \in Nat : \A T \in SUBSET (0..b) : Cardinality(T) = n => \E c : Increasing(c, T)}
<1>0. ASSUME NEW T \in SUBSET (0..b)
      PROVE  IsFiniteSet(T) /\ Cardinality(T) \in Nat /\ T \in SUBSET Nat
  <2>1. IsFiniteSet(0..b)
    BY FS_Interval
  <2>2. IsFiniteSet(T)
    BY <2>1, FS_Subset
  <2>3. T \in SUBSET Nat
    OBVIOUS
  <2> QED BY <2>2, <2>3, FS_CardinalityType
<1>1. 0 \in N
  <2>1. SUFFICES ASSUME NEW T \in SUBSET (0..b), Cardinality(T) = 0 PROVE \E c : Increasing(c, T)
    OBVIOUS
  <2> DEFINE c == [i \in {} |-> 0]
  <2>2. 1..Cardinality(T) = {}
    BY <2>1
  <2>3. c \in [1..Cardinality(T) -> T] /\ DOMAIN c = {}
    BY <2>2
  <2> HIDE DEF c
  <2>4. Increasing(c, T)
    BY <2>3 DEF Increasing
  <2> QED BY <2>4
<1>2. ASSUME NEW n \in Nat, n \in N PROVE n + 1 \in N
  <2>1. SUFFICES ASSUME NEW T \in SUBSET (0..b), Cardinality(T) = n + 1
                 PROVE  \E c : Increasing(c, T)
    OBVIOUS
  <2>2. T # {}
    BY <2>1, FS_EmptySet
  <2>3. PICK x \in T : \A y \in T : y <= x
    <3>1. T \in SUBSET Nat /\ \A y \in T : y <= b
      OBVIOUS
    <3> QED BY <2>2, <3>1, GreatestNat
  <2>4. /\ T \ {x} \in SUBSET (0..b) /\ Cardinality(T \ {x}) = n
    <3>1. IsFiniteSet(T)
      BY <1>0
    <3>2. Cardinality(T \ {x}) = Cardinality(T) - 1
      BY <3>1, FS_RemoveElement
    <3> QED BY <2>1, <3>2
  <2>5. PICK c : Increasing(c, T \ {x})
    BY <1>2, <2>4
  <2> DEFINE d == [i \in 1 .. n + 1 |-> IF i = n + 1 THEN x ELSE c[i]]
  <2>6. /\ c \in [1..n -> T \ {x}] /\ DOMAIN c = 1..n
        /\ \A i, j \in 1..n : i < j => c[i] < c[j]
    BY <2>4, <2>5 DEF Increasing
  <2>7. d \in [1 .. n + 1 -> T] /\ DOMAIN d = 1 .. n + 1
    <3>1. ASSUME NEW i \in 1 .. n + 1, i # n + 1 PROVE i \in 1..n
      BY <3>1
    <3> QED BY <2>6, <3>1
  <2>8. ASSUME NEW i \in 1 .. n + 1, NEW j \in 1 .. n + 1, i < j PROVE d[i] < d[j]
    <3>1. i \in 1..n /\ d[i] = c[i] /\ c[i] \in T \ {x}
      BY <2>6, <2>8
    <3>2. CASE j = n + 1
      <4>1. d[j] = x /\ c[i] <= x /\ c[i] # x /\ c[i] \in Nat /\ x \in Nat
        BY <1>0, <2>3, <3>1, <3>2
      <4> QED BY <3>1, <4>1
    <3>3. CASE j # n + 1
      <4>1. j \in 1..n /\ d[j] = c[j]
        BY <3>3
      <4> QED BY <2>6, <2>8, <3>1, <4>1
    <3> QED BY <3>2, <3>3
  <2> HIDE DEF d
  <2>9. Increasing(d, T)
    BY <2>1, <2>7, <2>8 DEF Increasing
  <2> QED BY <2>9
<1>3. Cardinality(S) \in N
  BY <1>0, <1>1, <1>2, SetInduction
<1> QED BY <1>3

LEMMA ListsAll ==
  ASSUME NEW b \in Nat, NEW S \in SUBSET (0..b), NEW c, Increasing(c, S)
  PROVE  /\ Cardinality(S) \in Nat /\ DOMAIN c = 1..Cardinality(S)
         /\ \A i \in 1..Cardinality(S) : c[i] \in S
         /\ \A x \in S : \E i \in 1..Cardinality(S) : c[i] = x
<1> DEFINE n == Cardinality(S)
<1>1. IsFiniteSet(S) /\ n \in Nat /\ S \in SUBSET Nat
  <2>1. IsFiniteSet(0..b)
    BY FS_Interval
  <2>2. IsFiniteSet(S)
    BY <2>1, FS_Subset
  <2>3. S \in SUBSET Nat
    OBVIOUS
  <2> QED BY <2>2, <2>3, FS_CardinalityType
<1>2. IsFiniteSet(1..n) /\ Cardinality(1..n) = n
  BY <1>1, FS_Interval
<1>3. c \in [1..n -> S] /\ DOMAIN c = 1..n
  BY DEF Increasing
<1>4. ASSUME NEW i \in 1..n, NEW j \in 1..n, c[i] = c[j] PROVE i = j
  <2>1. c[i] \in Nat /\ ~(i < j) /\ ~(j < i)
    <3>1. c[i] \in Nat /\ c[j] \in Nat
      BY <1>1, <1>3
    <3> QED BY <1>3, <1>4, <3>1 DEF Increasing
  <2> QED BY <1>1, <2>1
<1>5. c \in Injection(1..n, S)
  BY <1>3, <1>4 DEF Injection, IsInjective
<1>6. c \in Surjection(1..n, S)
  <2> HIDE DEF n
  <2>1. n = Cardinality(S)
    BY DEF n
  <2> QED BY <1>1, <1>2, <1>5, <2>1, FS_Injection
<1>7. \A x \in S : \E i \in 1..n : c[i] = x
  BY <1>6 DEF Surjection
<1> QED BY <1>1, <1>3, <1>7

-----------------------------------------------------------------------------
(* Sums over a finite set *)

\* What w makes of S.
SumOf(w, S) == MapThenSumSet(LAMBDA n : w[n], S)

Pick(s) == CHOOSE x \in s : TRUE

\* f adds w up over every subset of S, an element at a time.
Adds(f, w, S) ==
  f = [s \in SUBSET S |-> IF s = {} THEN 0 ELSE w[Pick(s)] + f[s \ {Pick(s)}]]

LEMMA SumUnfolds ==
  ASSUME NEW w, NEW S
  PROVE  SumOf(w, S) = (CHOOSE f : Adds(f, w, S))[S]
BY DEF SumOf, MapThenSumSet, MapThenFoldSet, Adds, Pick

\* Such an f exists, and its values are numbers.
LEMMA AddsExists ==
  ASSUME NEW S, IsFiniteSet(S), NEW w, \A n \in S : w[n] \in Nat
  PROVE  \E f \in [SUBSET S -> Nat] : Adds(f, w, S)
<1> DEFINE Sub(n) == {s \in SUBSET S : Cardinality(s) <= n}
           Good(f, n) == \A s \in Sub(n) :
                           f[s] = IF s = {} THEN 0 ELSE w[Pick(s)] + f[s \ {Pick(s)}]
           N == {n \in Nat : \E f \in [Sub(n) -> Nat] : Good(f, n)}
<1>1. \A s \in SUBSET S : IsFiniteSet(s) /\ Cardinality(s) \in Nat
  BY FS_Subset, FS_CardinalityType
<1>2. \A s \in SUBSET S : s # {} =>
        /\ Pick(s) \in s /\ Cardinality(s \ {Pick(s)}) = Cardinality(s) - 1
        /\ Cardinality(s) # 0
  BY <1>1, FS_RemoveElement, FS_EmptySet DEF Pick
<1>3. Cardinality({}) = 0
  BY FS_EmptySet
<1>4. 0 \in N
  <2>1. ASSUME NEW s \in SUBSET S, Cardinality(s) <= 0 PROVE s = {}
    <3>1. Cardinality(s) = 0
      BY <1>1, <2>1
    <3> QED BY <1>2, <3>1
  <2>2. Good([s \in Sub(0) |-> 0], 0)
    BY <2>1
  <2> QED BY <2>2
<1>5. ASSUME NEW n \in Nat, n \in N PROVE n + 1 \in N
  <2>1. PICK f \in [Sub(n) -> Nat] : Good(f, n)
    BY <1>5
  <2> DEFINE g == [s \in Sub(n + 1) |->
                     IF s = {} THEN 0 ELSE w[Pick(s)] + f[s \ {Pick(s)}]]
  <2>2. \A s \in Sub(n + 1) : s # {} => s \ {Pick(s)} \in Sub(n) /\ Pick(s) \in S
    BY <1>1, <1>2
  <2>3. \A s \in Sub(n) : s \in Sub(n + 1)
    BY <1>1
  <2>4. g \in [Sub(n + 1) -> Nat]
    BY <2>2
  <2>5. \A s \in Sub(n) : g[s] = f[s]
    BY <2>1, <2>3
  <2>6. Good(g, n + 1)
    BY <2>2, <2>5
  <2>7. \E h \in [Sub(n + 1) -> Nat] : Good(h, n + 1)
    <3> HIDE DEF g, Good
    <3> QED BY <2>4, <2>6
  <2> HIDE DEF Sub, Good
  <2> QED BY <2>7
<1>6. Cardinality(S) \in N
  BY <1>1, <1>4, <1>5, SetInduction
<1>7. PICK f \in [Sub(Cardinality(S)) -> Nat] : Good(f, Cardinality(S))
  BY <1>6
<1>8. Sub(Cardinality(S)) = SUBSET S
  BY FS_Subset
<1> QED BY <1>7, <1>8 DEF Adds

\* ... in whatever order the elements are taken.
InAnyOrder(f, w, S) == \A s \in SUBSET S : \A x \in s : f[s] = w[x] + f[s \ {x}]

LEMMA AddsAny ==
  ASSUME NEW S, IsFiniteSet(S), NEW w, \A n \in S : w[n] \in Nat,
         NEW f \in [SUBSET S -> Nat], Adds(f, w, S)
  PROVE  InAnyOrder(f, w, S)
<1> DEFINE N == {n \in Nat : \A s \in SUBSET S : Cardinality(s) = n =>
                               \A x \in s : f[s] = w[x] + f[s \ {x}]}
<1>1. \A s \in SUBSET S : IsFiniteSet(s) /\ Cardinality(s) \in Nat
  BY FS_Subset, FS_CardinalityType
<1>2. \A s \in SUBSET S : \A x \in s :
        s \ {x} \in SUBSET S /\ Cardinality(s \ {x}) = Cardinality(s) - 1
  BY <1>1, FS_RemoveElement
<1>3. \A s \in SUBSET S : s # {} => Pick(s) \in s /\ f[s] = w[Pick(s)] + f[s \ {Pick(s)}]
  <2>1. \A s \in SUBSET S : s # {} => f[s] = w[Pick(s)] + f[s \ {Pick(s)}]
    BY DEF Adds
  <2>2. \A s : s # {} => Pick(s) \in s
    BY DEF Pick
  <2> QED BY <2>1, <2>2
<1>4. 0 \in N
  BY <1>1, FS_EmptySet
<1>5. ASSUME NEW n \in Nat, n \in N PROVE n + 1 \in N
  <2>1. SUFFICES ASSUME NEW s \in SUBSET S, Cardinality(s) = n + 1, NEW x \in s
                 PROVE  f[s] = w[x] + f[s \ {x}]
    OBVIOUS
  <2>2. PICK c \in s : c = Pick(s) /\ f[s] = w[c] + f[s \ {c}]
    BY <1>3
  <2>3. CASE x = c
    BY <2>2, <2>3
  <2>4. CASE x # c
    <3>1. /\ s \ {c} \in SUBSET S /\ Cardinality(s \ {c}) = n /\ x \in s \ {c}
          /\ s \ {x} \in SUBSET S /\ Cardinality(s \ {x}) = n /\ c \in s \ {x}
      BY <1>2, <2>1, <2>4
    <3>2. f[s \ {c}] = w[x] + f[(s \ {c}) \ {x}] /\ f[s \ {x}] = w[c] + f[(s \ {x}) \ {c}]
      BY <1>5, <3>1
    <3>3. (s \ {c}) \ {x} = (s \ {x}) \ {c} /\ (s \ {c}) \ {x} \in SUBSET S
      BY <3>1
    <3>4. PICK r \in Nat : r = f[(s \ {c}) \ {x}]
      BY <2>1, <3>3
    <3>5. PICK a \in Nat, b \in Nat : a = w[x] /\ b = w[c]
      BY <2>1
    <3>6. f[s] = b + (a + r) /\ f[s \ {x}] = b + r
      BY <2>2, <3>2, <3>3, <3>4, <3>5
    <3>7. f[s] = a + f[s \ {x}]
      BY <3>6
    <3> QED BY <3>5, <3>7
  <2> QED BY <2>3, <2>4
<1>6. Nat \subseteq N
  BY <1>4, <1>5, SetInduction
<1> QED BY <1>1, <1>6 DEF InAnyOrder

\* Two such functions agree where both are defined.
LEMMA AddsSame ==
  ASSUME NEW S, NEW T, IsFiniteSet(S), IsFiniteSet(T), S \subseteq T,
         NEW w, \A n \in T : w[n] \in Nat, NEW f, NEW g,
         Adds(f, w, S), Adds(g, w, T)
  PROVE  \A s \in SUBSET S : f[s] = g[s]
<1> DEFINE N == {n \in Nat : \A s \in SUBSET S : Cardinality(s) = n => f[s] = g[s]}
<1>1. \A s \in SUBSET S : IsFiniteSet(s) /\ Cardinality(s) \in Nat
  BY FS_Subset, FS_CardinalityType
<1>2. \A s \in SUBSET S : s # {} =>
        /\ Pick(s) \in s /\ s \ {Pick(s)} \in SUBSET S
        /\ Cardinality(s \ {Pick(s)}) = Cardinality(s) - 1
  BY <1>1, FS_RemoveElement DEF Pick
<1>3. \A s \in SUBSET S :
        /\ f[s] = IF s = {} THEN 0 ELSE w[Pick(s)] + f[s \ {Pick(s)}]
        /\ g[s] = IF s = {} THEN 0 ELSE w[Pick(s)] + g[s \ {Pick(s)}]
  BY DEF Adds
<1>4. 0 \in N
  BY <1>1, <1>3, FS_EmptySet
<1>5. ASSUME NEW n \in Nat, n \in N PROVE n + 1 \in N
  <2>1. SUFFICES ASSUME NEW s \in SUBSET S, Cardinality(s) = n + 1
                 PROVE  f[s] = g[s]
    OBVIOUS
  <2>2. s # {}
    BY <2>1, FS_EmptySet
  <2>3. f[s \ {Pick(s)}] = g[s \ {Pick(s)}]
    BY <1>2, <1>5, <2>1, <2>2
  <2> QED BY <1>3, <2>2, <2>3
<1>6. Nat \subseteq N
  BY <1>4, <1>5, SetInduction
<1> QED BY <1>1, <1>6

\* A sum depends on the weights of what is summed only.
LEMMA SumAgrees ==
  ASSUME NEW S, NEW v, NEW w, \A n \in S : v[n] = w[n]
  PROVE  SumOf(v, S) = SumOf(w, S)
<1>1. ASSUME NEW f PROVE Adds(f, v, S) <=> Adds(f, w, S)
  <2>1. \A s \in SUBSET S : s # {} => v[Pick(s)] = w[Pick(s)]
    <3>1. \A s \in SUBSET S : s # {} => Pick(s) \in S
      BY DEF Pick
    <3> QED BY <3>1
  <2>2. [s \in SUBSET S |-> IF s = {} THEN 0 ELSE v[Pick(s)] + f[s \ {Pick(s)}]]
        = [s \in SUBSET S |-> IF s = {} THEN 0 ELSE w[Pick(s)] + f[s \ {Pick(s)}]]
    BY <2>1
  <2> QED BY <2>2 DEF Adds
<1>2. (CHOOSE f : Adds(f, v, S)) = (CHOOSE f : Adds(f, w, S))
  BY <1>1
<1> QED BY <1>2, SumUnfolds

\* A sum is a number, nothing adds up to nothing, and an element more adds its
\* weight.
LEMMA SumAdds ==
  ASSUME NEW S, IsFiniteSet(S), NEW x, x \notin S, NEW w, \A n \in S \cup {x} : w[n] \in Nat
  PROVE  SumOf(w, S \cup {x}) = SumOf(w, S) + w[x]
<1> DEFINE T == S \cup {x}
<1>1. IsFiniteSet(T)
  BY FS_AddElement
<1>2. PICK f \in [SUBSET S -> Nat] : Adds(f, w, S)
  BY AddsExists
<1>3. PICK g \in [SUBSET T -> Nat] : Adds(g, w, T)
  BY <1>1, AddsExists
<1>4. SumOf(w, S) = (CHOOSE h : Adds(h, w, S))[S] /\ Adds(CHOOSE h : Adds(h, w, S), w, S)
  BY <1>2, SumUnfolds
<1>5. SumOf(w, T) = (CHOOSE h : Adds(h, w, T))[T] /\ Adds(CHOOSE h : Adds(h, w, T), w, T)
  BY <1>3, SumUnfolds
<1>6. SumOf(w, S) = g[S]
  BY <1>1, <1>3, <1>4, AddsSame
<1>7. SumOf(w, T) = g[T]
  BY <1>1, <1>3, <1>5, AddsSame
<1>8. /\ T \ {x} = S /\ x \in T /\ T \in SUBSET T
      /\ \A n \in T : w[n] \in Nat
      /\ w[x] \in Nat /\ g[S] \in Nat
  OBVIOUS
<1> HIDE DEF T
<1>9. g[T] = w[x] + g[S]
  <2>0. g \in [SUBSET T -> Nat] /\ Adds(g, w, T)
    BY <1>3
  <2>1. InAnyOrder(g, w, T)
    BY <1>1, <1>8, <2>0, AddsAny
  <2> QED BY <1>8, <2>1 DEF InAnyOrder
<1>10. SumOf(w, T) = SumOf(w, S) + w[x]
  BY <1>6, <1>7, <1>8, <1>9
<1> QED BY <1>10 DEF T

LEMMA SumType ==
  ASSUME NEW S, IsFiniteSet(S), NEW w, \A n \in S : w[n] \in Nat
  PROVE  SumOf(w, S) \in Nat
<1>1. PICK f \in [SUBSET S -> Nat] : Adds(f, w, S)
  BY AddsExists
<1>2. SumOf(w, S) = (CHOOSE h : Adds(h, w, S))[S] /\ Adds(CHOOSE h : Adds(h, w, S), w, S)
  BY <1>1, SumUnfolds
<1>3. SumOf(w, S) = f[S]
  BY <1>1, <1>2, AddsSame
<1> QED BY <1>3

-----------------------------------------------------------------------------
(* Sequences, flattened *)

\* A sequence and one more.
LEMMA OneMore ==
  ASSUME NEW S, NEW s \in Seq(S), NEW x
  PROVE  /\ Len(s) \in Nat /\ DOMAIN s = 1..Len(s)
         /\ Append(s, x) \in Seq(S \cup {x})
         /\ Len(Append(s, x)) = Len(s) + 1
         /\ DOMAIN Append(s, x) = 1 .. Len(s) + 1
         /\ \A i \in 1..Len(s) : Append(s, x)[i] = s[i]
         /\ Append(s, x)[Len(s) + 1] = x
<1>1. s \in Seq(S \cup {x}) /\ x \in S \cup {x}
  BY SeqMonotonic
<1>2. Append(s, x) \in Seq(S \cup {x})
  BY <1>1, AppendProperties
<1> QED BY <1>1, <1>2, LenProperties, AppendProperties

\* The last chunk is taken away and another put in its place.
LEMMA FrontLast ==
  ASSUME NEW E, NEW cs \in Seq(E), Len(cs) >= 1, NEW y \in E
  PROVE  /\ Front(cs) \in Seq(E) /\ Len(Front(cs)) = Len(cs) - 1 /\ Len(cs) \in Nat
         /\ Last(cs) = cs[Len(cs)] /\ Last(cs) \in E
         /\ \A i \in 1 .. Len(cs) - 1 : Front(cs)[i] = cs[i] /\ Append(Front(cs), y)[i] = cs[i]
         /\ Append(Front(cs), y)[Len(cs)] = y /\ Len(Append(Front(cs), y)) = Len(cs)
         /\ Append(Front(cs), y) \in Seq(E)
<1>1. Len(cs) \in Nat /\ Len(cs) - 1 \in Nat /\ DOMAIN cs = 1..Len(cs)
  BY LenProperties
<1>2. /\ Front(cs) \in Seq(E) /\ Len(Front(cs)) = Len(cs) - 1
      /\ \A i \in 1 .. Len(cs) - 1 : Front(cs)[i] = cs[i]
  <2>1. PICK k \in Nat : k = Len(cs) - 1
    BY <1>1
  <2>2. SubSeq(cs, 1, k) \in Seq(E) /\ Len(SubSeq(cs, 1, k)) = k
        /\ \A i \in 1..k : SubSeq(cs, 1, k)[i] = cs[i]
    BY <1>1, <2>1, SubSeqProperties
  <2> QED BY <2>1, <2>2 DEF Front
<1>3. Last(cs) = cs[Len(cs)] /\ Last(cs) \in E
  BY <1>1, ElementOfSeq DEF Last
<1>4. /\ Len(Append(Front(cs), y)) = Len(Front(cs)) + 1
      /\ \A i \in 1..Len(Front(cs)) : Append(Front(cs), y)[i] = Front(cs)[i]
      /\ Append(Front(cs), y)[Len(Front(cs)) + 1] = y
  BY <1>2, OneMore
<1>5. Append(Front(cs), y) \in Seq(E)
  BY <1>2, AppendProperties
<1>6. Len(Front(cs)) + 1 = Len(cs)
  BY <1>1, <1>2
<1> QED BY <1>1, <1>2, <1>3, <1>4, <1>5, <1>6

\* A sequence of n sequences.
LEMMA Sequences ==
  ASSUME NEW E, NEW n \in Nat, NEW ss \in [1..n -> E]
  PROVE  ss \in Seq(E) /\ Len(ss) = n /\ DOMAIN ss = 1..n
<1>1. ss \in Seq(E)
  BY SeqDef
<1>2. DOMAIN ss = 1..n /\ DOMAIN ss = 1..Len(ss) /\ Len(ss) \in Nat
  BY <1>1, LenProperties
<1> QED BY <1>1, <1>2

Flat(f, ss) ==
  f = [i \in 1..Len(ss) |-> IF i = 1 THEN ss[i] ELSE f[i - 1] \o ss[i]]

LEMMA FlattenUnfolds ==
  ASSUME NEW ss, Len(ss) # 0
  PROVE  FlattenSeq(ss) = (CHOOSE f : Flat(f, ss))[Len(ss)]
BY DEF FlattenSeq, Flat

LEMMA FlatExists ==
  ASSUME NEW E, NEW n \in Nat, NEW ss \in [1..n -> Seq(E)]
  PROVE  \E f \in [1..n -> Seq(E)] : Flat(f, ss)
<1> DEFINE Fits(f, k) == \A i \in 1..k : f[i] = IF i = 1 THEN ss[i] ELSE f[i - 1] \o ss[i]
           N == {k \in Nat : k <= n => \E f \in [1..k -> Seq(E)] : Fits(f, k)}
<1>1. 0 \in N
  <2> DEFINE f == [i \in 1..0 |-> <<>>]
  <2>0. 1..0 = {}
    OBVIOUS
  <2>1. Fits(f, 0) /\ f \in [1..0 -> Seq(E)]
    BY <2>0
  <2> QED BY <2>1
<1>2. ASSUME NEW k \in Nat, k \in N PROVE k + 1 \in N
  <2> HIDE DEF Fits
  <2>1. SUFFICES ASSUME k + 1 <= n PROVE \E f \in [1 .. k + 1 -> Seq(E)] : Fits(f, k + 1)
    OBVIOUS
  <2>2. PICK f \in [1..k -> Seq(E)] : Fits(f, k)
    BY <1>2, <2>1
  <2> USE DEF Fits
  <2> DEFINE last == IF k = 0 THEN ss[k + 1] ELSE f[k] \o ss[k + 1]
             g == [i \in 1 .. k + 1 |-> IF i = k + 1 THEN last ELSE f[i]]
  <2>3. last \in Seq(E)
    <3>1. k + 1 \in 1..n /\ ss[k + 1] \in Seq(E)
      BY <2>1
    <3>2. k # 0 => f[k] \in Seq(E)
      OBVIOUS
    <3> QED BY <3>1, <3>2, ConcatProperties
  <2> HIDE DEF last
  <2>4. g \in [1 .. k + 1 -> Seq(E)]
    BY <2>3
  <2>5. \A i \in 1..k : g[i] = f[i] /\ (i # 1 => i - 1 \in 1..k /\ g[i - 1] = f[i - 1])
    OBVIOUS
  <2>6. g[k + 1] = last /\ (k # 0 => g[k] = f[k])
    OBVIOUS
  <2>7. last = IF k + 1 = 1 THEN ss[k + 1] ELSE f[k] \o ss[k + 1]
    BY DEF last
  <2> HIDE DEF g
  <2>8. ASSUME NEW i \in 1 .. k + 1 PROVE g[i] = IF i = 1 THEN ss[i] ELSE g[i - 1] \o ss[i]
    <3>1. CASE i = k + 1
      BY <2>6, <2>7, <3>1
    <3>2. CASE i # k + 1
      <4>1. i \in 1..k
        BY <3>2
      <4> QED BY <2>2, <2>5, <4>1
    <3> QED BY <3>1, <3>2
  <2> QED BY <2>4, <2>8
<1>3. n \in N
  BY <1>1, <1>2, SetInduction
<1>4. PICK f \in [1..n -> Seq(E)] : Fits(f, n)
  BY <1>3
<1>5. f = [i \in 1..n |-> IF i = 1 THEN ss[i] ELSE f[i - 1] \o ss[i]]
  BY <1>4
<1>6. Len(ss) = n
  BY Sequences
<1> QED BY <1>5, <1>6 DEF Flat

LEMMA FlattenNone == \A ss : Len(ss) = 0 => FlattenSeq(ss) = ss
BY DEF FlattenSeq

LEMMA FlattenType ==
  ASSUME NEW E, NEW n \in Nat, NEW ss \in [1..n -> Seq(E)]
  PROVE  FlattenSeq(ss) \in Seq(E)
<1>0. Len(ss) = n
  BY Sequences
<1>1. CASE n = 0
  <2>1. FlattenSeq(ss) = ss /\ ss = <<>>
    BY <1>0, <1>1, FlattenNone
  <2> QED BY <2>1
<1>2. CASE n # 0
  <2>1. PICK f \in [1..n -> Seq(E)] : Flat(f, ss)
    BY FlatExists
  <2> DEFINE g == CHOOSE h : Flat(h, ss)
             N == {k \in Nat : k \in 1..n => g[k] \in Seq(E)}
  <2>2. Flat(g, ss)
    BY <2>1
  <2>3. \A i \in 1..n : g[i] = IF i = 1 THEN ss[i] ELSE g[i - 1] \o ss[i]
    <3> HIDE DEF g
    <3> QED BY <1>0, <2>2 DEF Flat
  <2> HIDE DEF g
  <2>4. ASSUME NEW k \in Nat, k \in N PROVE k + 1 \in N
    <3>1. SUFFICES ASSUME k + 1 \in 1..n PROVE g[k + 1] \in Seq(E)
      OBVIOUS
    <3>2. ss[k + 1] \in Seq(E)
      BY <3>1
    <3>3. CASE k = 0
      BY <2>3, <3>1, <3>2, <3>3
    <3>4. CASE k # 0
      <4>0. k \in 1..n /\ k + 1 # 1 /\ (k + 1) - 1 = k
        BY <3>1, <3>4
      <4>1. g[k] \in Seq(E) /\ g[k + 1] = g[k] \o ss[k + 1]
        BY <2>3, <2>4, <3>1, <4>0
      <4> QED BY <3>2, <4>1, ConcatProperties
    <3> QED BY <3>3, <3>4
  <2>5. n \in N
    <3>1. 0 \in N
      OBVIOUS
    <3> QED BY <2>4, <3>1, SetInduction
  <2>6. FlattenSeq(ss) = g[n]
    BY <1>0, <1>2, FlattenUnfolds DEF g
  <2> QED BY <1>2, <2>5, <2>6
<1> QED BY <1>1, <1>2

LEMMA FlattenOne ==
  ASSUME NEW E, NEW s \in Seq(E)
  PROVE  FlattenSeq(<<s>>) = s
<1>0. PICK one \in Nat : one = 1
  OBVIOUS
<1>1. PICK ss : ss = <<s>>
  OBVIOUS
<1>2. ss \in Seq(Seq(E)) /\ Len(ss) = one /\ ss[1] = s /\ one # 0
  BY <1>0, <1>1
<1>3. ss \in [1..one -> Seq(E)]
  BY <1>2, LenProperties
<1>4. PICK f \in [1..one -> Seq(E)] : Flat(f, ss)
  BY <1>3, FlatExists
<1>5. PICK g : g = (CHOOSE h : Flat(h, ss))
  OBVIOUS
<1>6. Flat(g, ss)
  BY <1>4, <1>5
<1>7. g[1] = ss[1]
  BY <1>0, <1>2, <1>6 DEF Flat
<1>8. FlattenSeq(ss) = g[one]
  BY <1>2, <1>5, FlattenUnfolds
<1> QED BY <1>0, <1>1, <1>2, <1>7, <1>8

\* One sequence more is appended.
LEMMA FlattenGrows ==
  ASSUME NEW E, NEW n \in Nat, NEW tt \in [1..n -> Seq(E)], NEW ss \in [1 .. n + 1 -> Seq(E)],
         \A i \in 1..n : ss[i] = tt[i]
  PROVE  FlattenSeq(ss) = FlattenSeq(tt) \o ss[n + 1]
<1>0. Len(ss) = n + 1 /\ Len(tt) = n /\ n + 1 # 0
  BY Sequences
<1> DEFINE g == CHOOSE h : Flat(h, ss)
           f == CHOOSE h : Flat(h, tt)
<1>1. Flat(g, ss) /\ Flat(f, tt)
  BY FlatExists
<1>2. \A i \in 1 .. n + 1 : g[i] = IF i = 1 THEN ss[i] ELSE g[i - 1] \o ss[i]
  <2> HIDE DEF g
  <2> QED BY <1>0, <1>1 DEF Flat
<1>3. \A i \in 1..n : f[i] = IF i = 1 THEN tt[i] ELSE f[i - 1] \o tt[i]
  <2> HIDE DEF f
  <2> QED BY <1>0, <1>1 DEF Flat
<1>4. FlattenSeq(ss) = g[n + 1]
  BY <1>0, FlattenUnfolds
<1>5. n # 0 => FlattenSeq(tt) = f[n]
  BY <1>0, FlattenUnfolds
<1> HIDE DEF f, g
<1> DEFINE N == {k \in Nat : k \in 1..n => g[k] = f[k]}
<1>6. ASSUME NEW k \in Nat, k \in N PROVE k + 1 \in N
  <2>1. SUFFICES ASSUME k + 1 \in 1..n PROVE g[k + 1] = f[k + 1]
    OBVIOUS
  <2>2. CASE k = 0
    BY <1>2, <1>3, <2>1, <2>2
  <2>3. CASE k # 0
    <3>1. /\ k \in 1..n /\ g[k] = f[k] /\ k + 1 \in 1 .. n + 1 /\ k + 1 # 1
          /\ (k + 1) - 1 = k /\ ss[k + 1] = tt[k + 1]
      <4>1. k \in 1..n /\ k + 1 \in 1 .. n + 1 /\ k + 1 # 1 /\ (k + 1) - 1 = k
        BY <2>1, <2>3
      <4> QED BY <1>6, <2>1, <4>1
    <3>2. g[k + 1] = g[k] \o ss[k + 1] /\ f[k + 1] = f[k] \o tt[k + 1]
      <4> HIDE DEF N
      <4> QED BY <1>2, <1>3, <2>1, <3>1
    <3> QED BY <3>1, <3>2
  <2> QED BY <2>2, <2>3
<1>7. n \in N
  <2>1. 0 \in N
    OBVIOUS
  <2> QED BY <1>6, <2>1, SetInduction
<1>8. CASE n = 0
  <2>1. g[n + 1] = ss[n + 1] /\ ss[n + 1] \in Seq(E)
    BY <1>2, <1>8
  <2>2. FlattenSeq(tt) = <<>>
    <3>1. tt = <<>>
      BY <1>8
    <3> QED BY <1>0, <1>8, <3>1, FlattenNone
  <2> QED BY <1>4, <2>1, <2>2, ConcatEmptySeq
<1>9. CASE n # 0
  <2>1. n + 1 # 1 /\ (n + 1) - 1 = n /\ n + 1 \in 1 .. n + 1 /\ n \in 1..n
    BY <1>9
  <2>2. g[n + 1] = g[n] \o ss[n + 1]
    BY <1>2, <2>1
  <2>3. g[n] = f[n]
    BY <1>7, <2>1
  <2> QED BY <1>4, <1>5, <1>9, <2>2, <2>3
<1> QED BY <1>8, <1>9

LEMMA Regroup ==
  ASSUME NEW E, NEW s \in Seq(E), NEW t \in Seq(E), NEW u \in Seq(E),
         NEW x, x = s \o t, NEW y, y = t \o u
  PROVE  x \o u = s \o y
<1>1. (s \o t) \o u = s \o (t \o u)
  BY ConcatAssociative
<1> QED BY <1>1

\* c is a, n sequences over E, and then b, m more of them.
Joins(E, c, a, n, b, m) ==
  /\ n \in Nat /\ m \in Nat
  /\ a \in [1..n -> Seq(E)] /\ b \in [1..m -> Seq(E)] /\ c \in [1 .. n + m -> Seq(E)]
  /\ \A i \in 1..n : c[i] = a[i]
  /\ \A i \in 1..m : c[n + i] = b[i]

\* Flattening goes through concatenation.
LEMMA FlattenConcat ==
  ASSUME NEW E, NEW n, NEW m, NEW a, NEW b, NEW c, Joins(E, c, a, n, b, m)
  PROVE  FlattenSeq(c) = FlattenSeq(a) \o FlattenSeq(b)
<1>0. /\ n \in Nat /\ m \in Nat
      /\ a \in [1..n -> Seq(E)] /\ b \in [1..m -> Seq(E)] /\ c \in [1 .. n + m -> Seq(E)]
      /\ \A i \in 1..n : c[i] = a[i]
      /\ \A i \in 1..m : c[n + i] = b[i]
  BY DEF Joins
<1> DEFINE cc(k) == [i \in 1 .. n + k |-> c[i]]
           bb(k) == [i \in 1..k |-> b[i]]
           N == {k \in Nat : k <= m => FlattenSeq(cc(k)) = FlattenSeq(a) \o FlattenSeq(bb(k))}
<1>1. ASSUME NEW k \in Nat, k <= m
      PROVE  cc(k) \in [1 .. n + k -> Seq(E)] /\ bb(k) \in [1..k -> Seq(E)]
  <2>1. \A i \in 1 .. n + k : i \in 1 .. n + m
    BY <1>0, <1>1
  <2>2. \A i \in 1..k : i \in 1..m
    BY <1>0, <1>1
  <2> QED BY <1>0, <2>1, <2>2
<1>2. 0 \in N
  <2>1. cc(0) = a
    <3>1. n + 0 = n /\ \A i \in 1..n : c[i] = a[i]
      BY <1>0
    <3> QED BY <1>0, <3>1
  <2>2. bb(0) = <<>>
    OBVIOUS
  <2>3. FlattenSeq(bb(0)) = <<>>
    <3> HIDE DEF bb
    <3> QED BY <2>2, FlattenNone
  <2>4. FlattenSeq(a) \in Seq(E)
    BY <1>0, FlattenType
  <2> HIDE DEF bb, cc
  <2> QED BY <2>1, <2>3, <2>4, ConcatEmptySeq
<1>3. ASSUME NEW k \in Nat, k \in N PROVE k + 1 \in N
  <2> HIDE DEF bb, cc
  <2>1. SUFFICES ASSUME k + 1 <= m
                 PROVE  FlattenSeq(cc(k + 1)) = FlattenSeq(a) \o FlattenSeq(bb(k + 1))
    OBVIOUS
  <2>2. k <= m /\ FlattenSeq(cc(k)) = FlattenSeq(a) \o FlattenSeq(bb(k))
    BY <1>0, <1>3, <2>1
  <2>3. /\ cc(k) \in [1 .. n + k -> Seq(E)] /\ bb(k) \in [1..k -> Seq(E)]
        /\ cc(k + 1) \in [1 .. (n + k) + 1 -> Seq(E)] /\ bb(k + 1) \in [1 .. k + 1 -> Seq(E)]
    <3>1. n + (k + 1) = (n + k) + 1
      BY <1>0
    <3>2. cc(k + 1) \in [1 .. n + (k + 1) -> Seq(E)] /\ bb(k + 1) \in [1 .. k + 1 -> Seq(E)]
      <4>1. k + 1 \in Nat
        OBVIOUS
      <4> QED BY <1>1, <2>1, <4>1
    <3>3. cc(k) \in [1 .. n + k -> Seq(E)] /\ bb(k) \in [1..k -> Seq(E)]
      BY <1>1, <2>2
    <3> QED BY <3>1, <3>2, <3>3
  <2>4. /\ \A i \in 1 .. n + k : cc(k + 1)[i] = cc(k)[i]
        /\ cc(k + 1)[(n + k) + 1] = b[k + 1]
    <3>1. (n + k) + 1 = n + (k + 1) /\ k + 1 \in 1..m /\ (n + k) + 1 \in 1 .. n + (k + 1)
      BY <1>0, <2>1
    <3>2. \A i \in 1 .. n + k : i \in 1 .. n + (k + 1)
      BY <1>0
    <3> QED BY <1>0, <3>1, <3>2 DEF cc
  <2>5. (\A i \in 1..k : bb(k + 1)[i] = bb(k)[i]) /\ bb(k + 1)[k + 1] = b[k + 1]
    BY DEF bb
  <2>6. FlattenSeq(cc(k + 1)) = FlattenSeq(cc(k)) \o b[k + 1]
    <3>1. n + k \in Nat
      BY <1>0
    <3>2. FlattenSeq(cc(k + 1)) = FlattenSeq(cc(k)) \o cc(k + 1)[(n + k) + 1]
      BY <2>3, <2>4, <3>1, FlattenGrows
    <3> QED BY <2>4, <3>2
  <2>7. FlattenSeq(bb(k + 1)) = FlattenSeq(bb(k)) \o b[k + 1]
    <3>2. FlattenSeq(bb(k + 1)) = FlattenSeq(bb(k)) \o bb(k + 1)[k + 1]
      BY <2>3, <2>5, FlattenGrows
    <3> QED BY <2>5, <3>2
  <2>8. /\ FlattenSeq(a) \in Seq(E) /\ FlattenSeq(bb(k)) \in Seq(E) /\ b[k + 1] \in Seq(E)
    <3>1. k + 1 \in 1..m
      BY <1>0, <2>1
    <3> QED BY <1>0, <2>3, <3>1, FlattenType
  <2>9. FlattenSeq(cc(k)) \o b[k + 1] = FlattenSeq(a) \o FlattenSeq(bb(k + 1))
    <3>1. PICK x, y, s, t, u :
            /\ x = FlattenSeq(cc(k)) /\ y = FlattenSeq(bb(k + 1)) /\ s = FlattenSeq(a)
            /\ t = FlattenSeq(bb(k)) /\ u = b[k + 1]
      OBVIOUS
    <3>2. s \in Seq(E) /\ t \in Seq(E) /\ u \in Seq(E)
      BY <2>8, <3>1
    <3>3. x = s \o t /\ y = t \o u
      BY <2>2, <2>7, <3>1
    <3>4. x \o u = s \o y
      BY <3>2, <3>3, Regroup
    <3> QED BY <3>1, <3>4
  <2> QED BY <2>6, <2>9
<1>4. m \in N
  BY <1>0, <1>2, <1>3, SetInduction
<1>5. cc(m) = c /\ bb(m) = b
  BY <1>0
<1> HIDE DEF cc, bb
<1> QED BY <1>0, <1>4, <1>5

\* f has everything of the first m sequences, in their order.
Orderly(f, ss, m) ==
  /\ \A p \in 1..m : \A q \in 1..Len(ss[p]) : \E a \in 1..Len(f) : f[a] = ss[p][q]
  /\ \A p, r \in 1..m : \A q \in 1..Len(ss[p]), t \in 1..Len(ss[r]) :
       p < r \/ (p = r /\ q < t) =>
         \E a, b \in 1..Len(f) : a < b /\ f[a] = ss[p][q] /\ f[b] = ss[r][t]

\* Flattening keeps what stands in each of the sequences, and the order.
LEMMA FlattenOrder ==
  ASSUME NEW E, NEW n \in Nat, NEW ss \in [1..n -> Seq(E)]
  PROVE  Orderly(FlattenSeq(ss), ss, n)
<1> DEFINE first(m) == [p \in 1..m |-> ss[p]]
           N == {m \in Nat : m <= n => Orderly(FlattenSeq(first(m)), ss, m)}
<1>1. ASSUME NEW m \in Nat, m <= n PROVE first(m) \in [1..m -> Seq(E)]
  <2>1. \A p \in 1..m : p \in 1..n
    BY <1>1
  <2> QED BY <2>1
<1>2. 0 \in N
  <2>1. 1..0 = {}
    OBVIOUS
  <2>2. Orderly(FlattenSeq(first(0)), ss, 0)
    BY <2>1 DEF Orderly
  <2> QED BY <2>2
<1>3. ASSUME NEW m \in Nat, m \in N PROVE m + 1 \in N
  <2>1. SUFFICES ASSUME m + 1 <= n PROVE Orderly(FlattenSeq(first(m + 1)), ss, m + 1)
    OBVIOUS
  <2>2. PICK f : f = FlattenSeq(first(m))
    OBVIOUS
  <2>3. PICK g : g = FlattenSeq(first(m + 1))
    OBVIOUS
  <2>4. PICK s : s = ss[m + 1]
    OBVIOUS
  <2>5. m <= n /\ m + 1 \in 1..n /\ s \in Seq(E)
    BY <2>1, <2>4
  <2>6. f \in Seq(E)
    BY <1>1, <2>2, <2>5, FlattenType
  <2>7. g = f \o s
    <3>1. first(m) \in [1..m -> Seq(E)] /\ first(m + 1) \in [1 .. m + 1 -> Seq(E)]
      BY <1>1, <2>1, <2>5
    <3>2. \A p \in 1..m : first(m + 1)[p] = first(m)[p]
      OBVIOUS
    <3>3. first(m + 1)[m + 1] = s
      BY <2>4
    <3> HIDE DEF first
    <3>4. FlattenSeq(first(m + 1)) = FlattenSeq(first(m)) \o first(m + 1)[m + 1]
      BY <3>1, <3>2, FlattenGrows
    <3> QED BY <2>2, <2>3, <3>3, <3>4
  <2>8. PICK c, d \in Nat : c = Len(f) /\ d = Len(s)
    BY <2>5, <2>6, LenProperties
  <2>9. /\ Len(g) = c + d
        /\ \A a \in 1..c : g[a] = f[a]
        /\ \A a \in 1..d : g[c + a] = s[a]
    <3>1. /\ Len(g) = Len(f) + Len(s)
          /\ \A a \in 1 .. Len(f) + Len(s) :
               g[a] = IF a <= Len(f) THEN f[a] ELSE s[a - Len(f)]
      BY <2>5, <2>6, <2>7, ConcatProperties
    <3>2. \A a \in 1..c : a \in 1 .. c + d /\ a <= c
      OBVIOUS
    <3>3. \A a \in 1..d : c + a \in 1 .. c + d /\ ~(c + a <= c) /\ (c + a) - c = a
      OBVIOUS
    <3>4. /\ Len(g) = c + d
          /\ \A a \in 1 .. c + d : g[a] = IF a <= c THEN f[a] ELSE s[a - c]
      BY <2>8, <3>1
    <3>5. ASSUME NEW a \in 1..d PROVE g[c + a] = s[a]
      <4>1. PICK e : e = c + a
        OBVIOUS
      <4>2. e \in 1 .. c + d /\ ~(e <= c) /\ e - c = a
        BY <3>3, <4>1
      <4> QED BY <3>4, <4>1, <4>2
    <3> QED BY <3>2, <3>4, <3>5
  <2>10. Orderly(f, ss, m)
    BY <1>3, <2>2, <2>5
  <2>11. \A p \in 1 .. m + 1 : p \in 1..m \/ p = m + 1
    OBVIOUS
  <2>19. \A a \in 1..Len(f) : a \in 1..c /\ a \in 1..Len(g) /\ g[a] = f[a]
    BY <2>8, <2>9
  <2>12. ASSUME NEW p \in 1..m, NEW q \in 1..Len(ss[p])
         PROVE  \E a \in 1..c : g[a] = ss[p][q]
    <3>1. PICK a \in 1..Len(f) : f[a] = ss[p][q]
      BY <2>10 DEF Orderly
    <3> QED BY <2>19, <3>1
  <2>13. ASSUME NEW q \in 1..d PROVE c + q \in 1..Len(g) /\ g[c + q] = ss[m + 1][q]
    BY <2>4, <2>9
  <2>14. ASSUME NEW p \in 1 .. m + 1, NEW q \in 1..Len(ss[p]) PROVE \E a \in 1..Len(g) : g[a] = ss[p][q]
    <3>1. CASE p \in 1..m
      <4>1. PICK a \in 1..c : g[a] = ss[p][q]
        BY <2>12, <3>1
      <4>2. a \in 1..Len(g)
        BY <2>9
      <4> QED BY <4>1, <4>2
    <3>2. CASE p = m + 1
      <4>1. q \in 1..d
        BY <2>4, <2>8, <3>2
      <4> QED BY <2>13, <3>2, <4>1
    <3> QED BY <2>11, <3>1, <3>2
  <2>15. ASSUME NEW p \in 1 .. m + 1, NEW r \in 1 .. m + 1,
                NEW q \in 1..Len(ss[p]), NEW t \in 1..Len(ss[r]),
                p < r \/ (p = r /\ q < t)
         PROVE  \E a, b \in 1..Len(g) : a < b /\ g[a] = ss[p][q] /\ g[b] = ss[r][t]
    <3>1. CASE r \in 1..m
      <4>1. p \in 1..m
        BY <2>15, <3>1
      <4>2. PICK a, b \in 1..Len(f) : a < b /\ f[a] = ss[p][q] /\ f[b] = ss[r][t]
        BY <2>10, <2>15, <3>1, <4>1 DEF Orderly
      <4>3. a \in 1..Len(g) /\ b \in 1..Len(g) /\ g[a] = f[a] /\ g[b] = f[b]
        BY <2>19
      <4> QED BY <4>2, <4>3
    <3>2. CASE r = m + 1 /\ p \in 1..m
      <4>1. PICK a \in 1..c : g[a] = ss[p][q]
        BY <2>12, <3>2
      <4>2. t \in 1..d
        BY <2>4, <2>8, <3>2
      <4>3. a \in 1..Len(g) /\ a < c + t
        BY <2>9, <4>2
      <4>4. c + t \in 1..Len(g) /\ g[c + t] = ss[r][t]
        BY <2>13, <3>2, <4>2
      <4> QED BY <4>1, <4>3, <4>4
    <3>3. CASE r = m + 1 /\ p = m + 1
      <4>1. t \in 1..d /\ q \in 1..d /\ q < t
        BY <2>4, <2>8, <2>15, <3>3
      <4>2. /\ c + t \in 1..Len(g) /\ g[c + t] = ss[r][t]
            /\ c + q \in 1..Len(g) /\ g[c + q] = ss[p][q]
        BY <2>13, <3>3, <4>1
      <4>3. c + q < c + t
        BY <4>1
      <4> QED BY <4>2, <4>3
    <3> QED BY <2>11, <3>1, <3>2, <3>3
  <2>16. Orderly(g, ss, m + 1)
    BY <2>14, <2>15 DEF Orderly
  <2> QED BY <2>3, <2>16
<1>4. n \in N
  <2> HIDE DEF N
  <2> QED BY <1>2, <1>3, SetInduction
<1>5. first(n) = ss
  OBVIOUS
<1>6. Orderly(FlattenSeq(ss), ss, n)
  BY <1>4, <1>5
<1> QED BY <1>6

-----------------------------------------------------------------------------
(* Lists in order *)

\* c lists the n members of S in increasing order.
Lists(c, n, S) ==
  /\ n \in Nat /\ c \in [1..n -> S]
  /\ \A i, j \in 1..n : i < j => c[i] < c[j]
  /\ \A x \in S : \E i \in 1..n : c[i] = x

LEMMA ListsAgree ==
  ASSUME NEW S \in SUBSET Nat, NEW c, NEW d, NEW n, NEW m, Lists(c, n, S), Lists(d, m, S)
  PROVE  n <= m /\ \A k \in 1..n : c[k] = d[k]
<1>1. /\ n \in Nat /\ m \in Nat
      /\ \A i \in 1..n : c[i] \in S /\ c[i] \in Nat
      /\ \A i \in 1..m : d[i] \in S /\ d[i] \in Nat
      /\ \A i, j \in 1..n : i < j => c[i] < c[j]
      /\ \A i, j \in 1..m : i < j => d[i] < d[j]
      /\ \A x \in S : \E i \in 1..n : c[i] = x
      /\ \A x \in S : \E i \in 1..m : d[i] = x
  BY DEF Lists
<1> DEFINE T == {k \in Nat : k \in 1..n /\ ~(k \in 1..m /\ c[k] = d[k])}
<1>2. T = {}
  <2>1. SUFFICES ASSUME T # {} PROVE FALSE
    OBVIOUS
  <2>2. PICK k \in T : \A y \in T : k <= y
    BY <2>1, LeastNat
  <2>3. \A i \in 1 .. k - 1 : i \in 1..n /\ i \in 1..m /\ c[i] = d[i]
    <3>1. SUFFICES ASSUME NEW i \in 1 .. k - 1 PROVE i \in 1..n /\ i \in 1..m /\ c[i] = d[i]
      OBVIOUS
    <3>2. i \in Nat /\ i < k /\ i \in 1..n /\ i \notin T
      BY <1>1, <2>2
    <3> QED BY <3>2
  <2>4. PICK j \in 1..m : d[j] = c[k]
    BY <1>1, <2>2
  <2>5. j >= k
    <3>1. SUFFICES ASSUME j < k PROVE FALSE
      BY <1>1, <2>2
    <3>2. j \in 1 .. k - 1
      BY <1>1, <3>1
    <3>3. c[j] = c[k] /\ j \in 1..n /\ k \in 1..n
      BY <2>2, <2>3, <2>4, <3>2
    <3> QED BY <1>1, <3>1, <3>3
  <2>6. k \in 1..m /\ j > k
    <3>1. k \in 1..m
      BY <1>1, <2>2, <2>5
    <3> QED BY <1>1, <2>2, <2>4, <2>5, <3>1
  <2>7. d[k] < c[k]
    BY <1>1, <2>4, <2>6
  <2>8. PICK i \in 1..n : c[i] = d[k]
    BY <1>1, <2>6
  <2>9. i < k
    BY <1>1, <2>2, <2>7, <2>8
  <2>10. i \in 1 .. k - 1
    BY <1>1, <2>2, <2>9
  <2>11. d[i] = d[k] /\ i \in 1..m
    BY <2>3, <2>8, <2>10
  <2> QED BY <1>1, <2>6, <2>9, <2>11
<1>3. \A k \in 1..n : k \in 1..m /\ c[k] = d[k]
  BY <1>1, <1>2
<1>4. n <= m
  <2>1. CASE n = 0
    BY <1>1, <2>1
  <2>2. CASE n # 0
    <3>1. n \in 1..n
      BY <1>1, <2>2
    <3>2. n \in 1..m
      BY <1>3, <3>1
    <3> QED BY <1>1, <3>2
  <2> QED BY <2>1, <2>2
<1> QED BY <1>3, <1>4

\* There is one such list.
LEMMA ListIsUnique ==
  ASSUME NEW S \in SUBSET Nat, NEW c, NEW d, NEW n, NEW m, Lists(c, n, S), Lists(d, m, S)
  PROVE  n = m /\ c = d
<1>1. n <= m /\ m <= n /\ \A k \in 1..n : c[k] = d[k]
  BY ListsAgree
<1>2. n = m
  BY <1>1 DEF Lists
<1> QED BY <1>1, <1>2 DEF Lists

\* A greater number comes last.
LEMMA ListGrows ==
  ASSUME NEW S \in SUBSET Nat, NEW c \in Seq(Nat), Lists(c, Len(c), S),
         NEW x \in Nat, \A y \in S : y < x
  PROVE  /\ Append(c, x) \in Seq(Nat) /\ Len(Append(c, x)) = Len(c) + 1
         /\ Lists(Append(c, x), Len(c) + 1, S \cup {x})
<1>1. PICK d : d = Append(c, x)
  OBVIOUS
<1>2. PICK n \in Nat : n = Len(c)
  OBVIOUS
<1>3. /\ d \in Seq(Nat) /\ Len(d) = n + 1 /\ DOMAIN d = 1 .. n + 1
      /\ \A i \in 1..n : d[i] = c[i] /\ d[n + 1] = x
  BY <1>1, <1>2, OneMore, AppendProperties
<1>4. /\ \A i \in 1..n : c[i] \in S
      /\ \A i, j \in 1..n : i < j => c[i] < c[j]
      /\ \A y \in S : \E i \in 1..n : c[i] = y
  BY <1>2 DEF Lists
<1>5. d[n + 1] = x
  BY <1>1, <1>2, AppendProperties
<1>6. \A i \in 1 .. n + 1 : i = n + 1 \/ i \in 1..n
  OBVIOUS
<1>7. d \in [1 .. n + 1 -> S \cup {x}]
  <2>1. \A i \in 1 .. n + 1 : d[i] \in S \cup {x}
    BY <1>3, <1>4, <1>5, <1>6
  <2>2. d = [i \in 1 .. n + 1 |-> d[i]]
    BY <1>3
  <2> QED BY <2>1, <2>2
<1>8. ASSUME NEW i \in 1 .. n + 1, NEW j \in 1 .. n + 1, i < j PROVE d[i] < d[j]
  <2>1. i \in 1..n /\ d[i] = c[i] /\ c[i] \in S
    BY <1>3, <1>4, <1>8
  <2>2. CASE j = n + 1
    BY <1>5, <2>1, <2>2
  <2>3. CASE j # n + 1
    <3>1. j \in 1..n
      BY <2>3
    <3> QED BY <1>3, <1>4, <1>8, <2>1, <3>1
  <2> QED BY <2>2, <2>3
<1>9. ASSUME NEW y \in S \cup {x} PROVE \E i \in 1 .. n + 1 : d[i] = y
  <2>1. CASE y = x
    <3>1. n + 1 \in 1 .. n + 1
      OBVIOUS
    <3> QED BY <1>5, <2>1, <3>1
  <2>2. CASE y \in S
    <3>1. PICK i \in 1..n : c[i] = y
      BY <1>4, <2>2
    <3>2. i \in 1 .. n + 1 /\ d[i] = y
      BY <1>3, <3>1
    <3> QED BY <3>2
  <2> QED BY <2>1, <2>2
<1>10. Lists(d, n + 1, S \cup {x})
  BY <1>7, <1>8, <1>9 DEF Lists
<1> QED BY <1>1, <1>2, <1>3, <1>10

\* What a list of S says of its neighbours: nothing of S lies between them.
LEMMA ListGaps ==
  ASSUME NEW S \in SUBSET Nat, NEW c, NEW n, Lists(c, n, S)
  PROVE  /\ \A k \in 1 .. n - 1 : \A y \in S : ~(c[k] < y /\ y < c[k + 1])
         /\ \A y \in S : n >= 1 /\ c[1] <= y /\ y <= c[n]
         /\ \A i, j \in 1..n : c[i] < c[j] => i < j
<1>1. /\ n \in Nat
      /\ \A i \in 1..n : c[i] \in S /\ c[i] \in Nat
      /\ \A i, j \in 1..n : i < j => c[i] < c[j]
      /\ \A x \in S : \E i \in 1..n : c[i] = x
  BY DEF Lists
<1>2. \A i, j \in 1..n : c[i] < c[j] => i < j
  <2>1. SUFFICES ASSUME NEW i \in 1..n, NEW j \in 1..n, c[i] < c[j], ~(i < j) PROVE FALSE
    OBVIOUS
  <2>2. i = j \/ j < i
    BY <2>1
  <2> QED BY <1>1, <2>1, <2>2
<1>3. ASSUME NEW k \in 1 .. n - 1, NEW y \in S, c[k] < y, y < c[k + 1] PROVE FALSE
  <2>1. PICK i \in 1..n : c[i] = y
    BY <1>1
  <2>2. k \in 1..n /\ k + 1 \in 1..n
    BY <1>1
  <2>3. k < i /\ i < k + 1
    BY <1>2, <1>3, <2>1, <2>2
  <2> QED BY <1>1, <2>3
<1>4. ASSUME NEW y \in S PROVE n >= 1 /\ c[1] <= y /\ y <= c[n]
  <2>1. PICK i \in 1..n : c[i] = y
    BY <1>1
  <2>2. n >= 1 /\ 1 \in 1..n /\ n \in 1..n /\ (i = 1 \/ 1 < i) /\ (i = n \/ i < n)
    BY <1>1
  <2> QED BY <1>1, <2>1, <2>2
<1> QED BY <1>2, <1>3, <1>4

\* A list that is moved.
LEMMA ListMoves ==
  ASSUME NEW S \in SUBSET Nat, NEW c, NEW n, Lists(c, n, S), NEW T \in SUBSET Nat, NEW d \in Int,
         \A x \in S : x - d \in T, \A y \in T : y + d \in S
  PROVE  Lists([k \in 1..n |-> c[k] - d], n, T)
<1>1. /\ n \in Nat /\ \A i \in 1..n : c[i] \in S /\ c[i] \in Nat
      /\ \A i, j \in 1..n : i < j => c[i] < c[j]
      /\ \A x \in S : \E i \in 1..n : c[i] = x
  BY DEF Lists
<1> DEFINE u == [k \in 1..n |-> c[k] - d]
<1>2. u \in [1..n -> T]
  BY <1>1
<1>3. \A i, j \in 1..n : i < j => u[i] < u[j]
  BY <1>1
<1>4. ASSUME NEW y \in T PROVE \E i \in 1..n : u[i] = y
  <2>1. PICK i \in 1..n : c[i] = y + d
    BY <1>1
  <2>2. u[i] = (y + d) - d /\ y \in Nat
    BY <2>1
  <2>3. u[i] = y
    BY <2>2
  <2> QED BY <2>3
<1> HIDE DEF u
<1>5. Lists(u, n, T)
  BY <1>1, <1>2, <1>3, <1>4 DEF Lists
<1> QED BY <1>5 DEF u

-----------------------------------------------------------------------------
(* A fold from the left *)

FoldOf(f, g, b, n) ==
  f = [s \in SUBSET (1..n) |-> IF s = {} THEN b ELSE g[<<f[s \ {Max(s)}], Max(s)>>]]

LEMMA FoldExists ==
  ASSUME NEW Q, NEW b \in Q, NEW n \in Nat, NEW g \in [Q \X (1..n) -> Q]
  PROVE  \E f \in [SUBSET (1..n) -> Q] : FoldOf(f, g, b, n)
<1> DEFINE S == 1..n
           Sub(k) == {s \in SUBSET S : Cardinality(s) <= k}
           Good(f, k) == \A s \in Sub(k) :
                           f[s] = IF s = {} THEN b ELSE g[<<f[s \ {Max(s)}], Max(s)>>]
           N == {k \in Nat : \E f \in [Sub(k) -> Q] : Good(f, k)}
<1>1. IsFiniteSet(S) /\ S \in SUBSET Nat
  BY FS_Interval
<1>2. \A s \in SUBSET S : IsFiniteSet(s) /\ Cardinality(s) \in Nat
  BY <1>1, FS_Subset, FS_CardinalityType
<1>3. ASSUME NEW s \in SUBSET S, s # {}
      PROVE  /\ s \ {Max(s)} \in SUBSET S /\ Cardinality(s \ {Max(s)}) = Cardinality(s) - 1
             /\ Cardinality(s) # 0 /\ Max(s) \in S
  <2>1. s \in SUBSET Nat /\ \A y \in s : y <= n
    OBVIOUS
  <2>2. Max(s) \in s
    BY <1>3, <2>1, MaxIs
  <2> QED BY <1>2, <1>3, <2>2, FS_RemoveElement, FS_EmptySet
<1> HIDE DEF S
<1>4. 0 \in N
  <2>1. ASSUME NEW s \in Sub(0) PROVE s = {}
    <3>1. Cardinality(s) = 0
      BY <1>2
    <3> QED BY <1>3, <3>1
  <2>2. Good([s \in Sub(0) |-> b], 0)
    BY <2>1
  <2>3. [s \in Sub(0) |-> b] \in [Sub(0) -> Q]
    OBVIOUS
  <2> HIDE DEF Good, Sub
  <2> QED BY <2>2, <2>3
<1>5. ASSUME NEW k \in Nat, k \in N PROVE k + 1 \in N
  <2>1. PICK f \in [Sub(k) -> Q] : Good(f, k)
    BY <1>5
  <2> DEFINE h == [s \in Sub(k + 1) |->
                     IF s = {} THEN b ELSE g[<<f[s \ {Max(s)}], Max(s)>>]]
  <2>2. \A s \in Sub(k + 1) : s # {} => s \ {Max(s)} \in Sub(k) /\ Max(s) \in S
    BY <1>2, <1>3
  <2>3. \A s \in Sub(k) : s \in Sub(k + 1)
    BY <1>2
  <2>4. ASSUME NEW s \in Sub(k + 1) PROVE h[s] \in Q
    <3>1. CASE s = {}
      BY <3>1
    <3>2. CASE s # {}
      <4>1. f[s \ {Max(s)}] \in Q /\ Max(s) \in S
        BY <2>1, <2>2, <3>2
      <4>2. <<f[s \ {Max(s)}], Max(s)>> \in Q \X (1..n)
        BY <4>1 DEF S
      <4> QED BY <3>2, <4>2
    <3> QED BY <3>1, <3>2
  <2>5. h \in [Sub(k + 1) -> Q]
    <3>1. h = [s \in Sub(k + 1) |-> h[s]]
      OBVIOUS
    <3> HIDE DEF h, Sub
    <3> QED BY <2>4, <3>1
  <2>6. \A s \in Sub(k) : h[s] = f[s]
    BY <2>1, <2>3
  <2>7. Good(h, k + 1)
    <3>1. SUFFICES ASSUME NEW s \in Sub(k + 1)
                   PROVE  h[s] = IF s = {} THEN b ELSE g[<<h[s \ {Max(s)}], Max(s)>>]
      OBVIOUS
    <3>2. h[s] = IF s = {} THEN b ELSE g[<<f[s \ {Max(s)}], Max(s)>>]
      OBVIOUS
    <3>3. s # {} => h[s \ {Max(s)}] = f[s \ {Max(s)}]
      <4> HIDE DEF h, Sub
      <4> QED BY <2>2, <2>6
    <3> HIDE DEF h, Sub
    <3> QED BY <3>2, <3>3
  <2> HIDE DEF h, Good, Sub
  <2> QED BY <2>5, <2>7
<1>6. Cardinality(S) \in N
  <2> HIDE DEF N
  <2> QED BY <1>1, <1>2, <1>4, <1>5, SetInduction
<1>7. PICK f \in [Sub(Cardinality(S)) -> Q] : Good(f, Cardinality(S))
  BY <1>6
<1>8. Sub(Cardinality(S)) = SUBSET S
  BY <1>1, FS_Subset
<1>9. f \in [SUBSET S -> Q]
      /\ \A s \in SUBSET S : f[s] = IF s = {} THEN b ELSE g[<<f[s \ {Max(s)}], Max(s)>>]
  <2> HIDE DEF Sub
  <2> QED BY <1>7, <1>8
<1> QED BY <1>9 DEF FoldOf, S

LEMMA PrefixMax ==
  ASSUME NEW n \in Nat, NEW k \in 1..n
  PROVE  /\ 1..k \in SUBSET (1..n) /\ 1..k # {}
         /\ Max(1..k) = k /\ (1..k) \ {k} = 1 .. k - 1
<1>1. /\ k \in 1..k /\ k \in Nat /\ 1..k \in SUBSET Nat /\ \A y \in 1..k : y <= k
  OBVIOUS
<1>2. PICK m : m = Max(1..k)
  OBVIOUS
<1>3. m \in 1..k /\ k <= m
  BY <1>1, <1>2, MaxIs
<1> QED BY <1>2, <1>3
=============================================================================
