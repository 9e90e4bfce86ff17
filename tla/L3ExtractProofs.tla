--------------------------- MODULE L3ExtractProofs ---------------------------
(***************************************************************************)
(* Proofs about extraction: any number of processes, of overlapping runs   *)
(* and of sections, any ingest and any answers, calls that fail and runs   *)
(* that die.                                                               *)
(*                                                                         *)
(* Everything rests on what one run holds in its hands (Holds): what it    *)
(* read of the bundle, the sections it heard, and what it makes of their   *)
(* answers.  That the sections are disjoint is what lets one answer decide *)
(* a relation; that an edge has evidence rests on the evidence check,      *)
(* which is proved against its reference for every span and window.        *)
(***************************************************************************)
EXTENDS ProbedExtract, DataLemmas

-----------------------------------------------------------------------------
(* What a run makes of one answer *)

\* The greatest of a bounded set of numbers is one of them, and no less than any.
LEMMA MaxIsGreatest ==
  ASSUME NEW T \in SUBSET Nat, T # {}, NEW b \in Nat, \A y \in T : y <= b
  PROVE  Max(T) \in T /\ \A y \in T : Max(T) >= y
<1>1. PICK x \in T : \A y \in T : y <= x
  BY GreatestNat
<1>2. \A y \in T : x >= y
  BY <1>1
<1> QED BY <1>2 DEF Max

LEMMA ClampInRange ==
  ASSUME NEW c \in Int
  PROVE  Clamp(c) \in 0..Strong
BY DEF Clamp, Strong

LEMMA AnswersAreClaims ==
  ASSUME NEW answer \in Responses
  PROVE  /\ DOMAIN answer \subseteq Nat
         /\ \E n \in Nat : \A j \in DOMAIN answer : j <= n
         /\ \A j \in DOMAIN answer : answer[j].confidence \in Int
<1>1. answer \in Seq(Claims)
  BY ResponsesAssumption
<1>2. Len(answer) \in Nat /\ DOMAIN answer = 1..Len(answer)
  BY <1>1
<1>3. \A j \in DOMAIN answer : answer[j] \in Claims
  BY <1>1
<1>4. \A j \in DOMAIN answer : answer[j].confidence \in Int
  BY <1>3 DEF Claims
<1>5. \A j \in DOMAIN answer : j <= Len(answer)
  BY <1>2
<1> QED BY <1>2, <1>4, <1>5

\* The entry of the claim j of an answer about the window w.
EntryOf(answer, j, w) ==
  [provenance |-> "model", confidence |-> Clamp(answer[j].confidence),
   span |-> Check(answer[j], w).span]

\* The claim that stays written is one of the valid claims of its relation.
LEMMA LastIsAClaim ==
  ASSUME NEW answer \in Responses, NEW w, NEW k \in DOMAIN LastClaims(answer, w)
  PROVE  \E j \in ValidClaims(answer, w) :
           KeyOf(answer[j]) = k /\ LastClaims(answer, w)[k] = EntryOf(answer, j, w)
<1> DEFINE T == {i \in ValidClaims(answer, w) : KeyOf(answer[i]) = k}
<1>1. T # {} /\ T \subseteq DOMAIN answer
  BY DEF LastClaims, ValidClaims
<1>2. Max(T) \in T
  <2>1. PICK n \in Nat : \A j \in DOMAIN answer : j <= n
    BY AnswersAreClaims
  <2>2. T \in SUBSET Nat /\ \A j \in T : j <= n
    BY <1>1, <2>1, AnswersAreClaims
  <2> QED BY <1>1, <2>1, <2>2, MaxIsGreatest
<1>3. LastClaims(answer, w)[k] = EntryOf(answer, Max(T), w)
  BY DEF LastClaims, EntryOf
<1> QED BY <1>2, <1>3

\* The value reconciliation goes by is a confidence, and no claim's is higher.
LEMMA HighestIsABound ==
  ASSUME NEW answer \in Responses, NEW w, NEW k \in DOMAIN HighestClaims(answer, w)
  PROVE  /\ HighestClaims(answer, w)[k] \in 0..Strong
         /\ \A j \in ValidClaims(answer, w) :
              KeyOf(answer[j]) = k
                => HighestClaims(answer, w)[k] >= Clamp(answer[j].confidence)
<1> DEFINE J == {j \in ValidClaims(answer, w) : KeyOf(answer[j]) = k}
           T == {Clamp(answer[i].confidence) : i \in J}
<1>1. J # {} /\ J \subseteq DOMAIN answer
  BY DEF HighestClaims, ValidClaims
<1>2. \A j \in J : Clamp(answer[j].confidence) \in 0..Strong
  BY <1>1, AnswersAreClaims, ClampInRange
<1>3. T # {} /\ T \subseteq 0..Strong
  BY <1>1, <1>2
<1>4. Max(T) \in T /\ \A y \in T : Max(T) >= y
  <2> HIDE DEF T
  <2>1. Strong \in Nat
    BY DEF Strong
  <2>2. T \in SUBSET Nat /\ \A y \in T : y <= Strong
    BY <1>3, <2>1
  <2> QED BY <1>3, <2>1, <2>2, MaxIsGreatest
<1>5. HighestClaims(answer, w)[k] = Max(T)
  BY DEF HighestClaims
<1> QED BY <1>2, <1>4, <1>5

LEMMA SameRelations ==
  ASSUME NEW answer, NEW w
  PROVE  /\ DOMAIN LastClaims(answer, w) = {KeyOf(answer[i]) : i \in ValidClaims(answer, w)}
         /\ DOMAIN HighestClaims(answer, w) = {KeyOf(answer[i]) : i \in ValidClaims(answer, w)}
BY DEF LastClaims, HighestClaims

\* No two sections can speak of one relation.
LEMMA OneSectionDecides ==
  ASSUME NEW k, NEW i \in DOMAIN Windows, NEW j \in DOMAIN Windows,
         Ends(k) \subseteq Windows[i], Ends(k) \subseteq Windows[j]
  PROVE  i = j
BY SectionsAreDisjoint DEF Ends

LEMMA UpdateApplies ==
  ASSUME NEW f, NEW g
  PROVE  /\ DOMAIN Update(f, g) = DOMAIN f \cup DOMAIN g
         /\ \A x \in DOMAIN g : Update(f, g)[x] = g[x]
         /\ \A x \in DOMAIN f \ DOMAIN g : Update(f, g)[x] = f[x]
BY DEF Update

-----------------------------------------------------------------------------
(* Reconciliation *)

\* A reconciled edge is the edge that was read, or that edge judged: MEDIUM,
\* asked about, and confirmed or made less certain by what was said.
LEMMA Judgement ==
  ASSUME NEW id, NEW e \in Entry, e.provenance = "pattern", NEW said, NEW seen,
         \A k \in DOMAIN said : said[k] \in 0..Strong
  PROVE  LET r == Reconciled(id, e, said, seen) IN
         /\ r \in Entry
         /\ r # e =>
              /\ Medium(e) /\ Asked(id.key, seen)
              /\ id.key \in DOMAIN said
                   => /\ r.provenance = "verified"
                      /\ r.confidence >= e.confidence /\ r.confidence >= said[id.key]
              /\ id.key \notin DOMAIN said
                   => r.provenance = "pattern" /\ r.confidence < e.confidence
<1> DEFINE r == Reconciled(id, e, said, seen)
           c == e.confidence
<1>1. /\ c \in Nat /\ c <= Strong /\ Strong \in Nat
      /\ e = [provenance |-> "pattern", confidence |-> c, span |-> e.span]
      /\ e.span \in Seq(Char)
  <2>1. PICK v \in {"pattern", "verified", "model"}, x \in 0..Strong, t \in Seq(Char) :
          e = [provenance |-> v, confidence |-> x, span |-> t]
    BY DEF Entry
  <2>2. Strong \in Nat
    BY DEF Strong
  <2> QED BY <2>1, <2>2
<1>2. CASE ~Medium(e) \/ ~Asked(id.key, seen)
  BY <1>2 DEF Reconciled
<1>3. CASE Medium(e) /\ Asked(id.key, seen) /\ id.key \in DOMAIN said
  <2> DEFINE T == {c, said[id.key]}
  <2>1. said[id.key] \in Nat /\ said[id.key] <= Strong
    BY <1>1, <1>3
  <2>2. Max(T) \in T /\ \A y \in T : Max(T) >= y
    <3>1. T # {} /\ T \in SUBSET Nat /\ \A y \in T : y <= Strong
      BY <1>1, <2>1
    <3> HIDE DEF T
    <3> QED BY <1>1, <3>1, MaxIsGreatest
  <2>3. r = [provenance |-> "verified", confidence |-> Max(T), span |-> e.span]
    BY <1>1, <1>3 DEF Reconciled, Confirmed
  <2>4. Max(T) >= c /\ Max(T) >= said[id.key] /\ Max(T) \in 0..Strong
    BY <1>1, <2>1, <2>2
  <2>5. r \in Entry
    BY <1>1, <2>3, <2>4 DEF Entry
  <2> QED BY <1>3, <2>3, <2>4, <2>5
<1>4. CASE Medium(e) /\ Asked(id.key, seen) /\ id.key \notin DOMAIN said
  <2>1. r = [provenance |-> "pattern", confidence |-> (c + 1) \div 2, span |-> e.span]
    BY <1>1, <1>4 DEF Reconciled, Unconfirmed
  <2>2. (c + 1) \div 2 \in 0..Strong /\ ((c + 1) \div 2 # c => (c + 1) \div 2 < c)
    BY <1>1
  <2>3. r \in Entry
    BY <1>1, <2>1, <2>2 DEF Entry
  <2>4. r # e => (c + 1) \div 2 # c
    BY <1>1, <2>1
  <2> QED BY <1>4, <2>1, <2>2, <2>3, <2>4
<1> QED BY <1>2, <1>3, <1>4

LEMMA WritesApply ==
  ASSUME NEW p \in Proc
  PROVE  /\ DOMAIN PatternWrites(p) \subseteq DOMAIN existing[p]
         /\ \A id \in DOMAIN PatternWrites(p) :
              /\ PatternWrites(p)[id]
                   = Reconciled(id, existing[p][id], proposed[p], examined[p])
              /\ PatternWrites(p)[id] # existing[p][id]
         /\ \A id \in DOMAIN ModelWrites(p) :
              /\ id = [by |-> "model", key |-> id.key]
              /\ id.key \in DOMAIN claimed[p] \ PatternRelations(p)
              /\ ModelWrites(p)[id] = claimed[p][id.key]
BY DEF PatternWrites, ModelWrites

-----------------------------------------------------------------------------
(* What every run has in its hands *)

\* Entry e for relation k rests on an accepted claim: two nodes of one section,
\* a passage that the evidence check found in that section's text.
Backed(k, e) ==
  \E i \in DOMAIN Windows : \E answer \in Responses : \E j \in ValidClaims(answer, i) :
    KeyOf(answer[j]) = k /\ e = EntryOf(answer, j, i)

\* Where every entry of the table comes from.
Filed ==
  \A id \in DOMAIN bundle :
    /\ id = [by |-> id.by, key |-> id.key]
    /\ \/ id.by = "pattern" /\ bundle[id] \in Entry
       \/ id.by = "model" /\ Backed(id.key, bundle[id])

Read(p) ==
  \A id \in DOMAIN existing[p] :
    /\ id \in DOMAIN bundle /\ id.by = "pattern"
    /\ existing[p][id] \in Entry /\ existing[p][id].provenance = "pattern"

\* What it holds of the answers is what the sections it heard really said.
Holds(p) ==
  /\ oracle[p] \in [DOMAIN Windows -> Responses]
  /\ section[p] \in Nat
  /\ examined[p] = heard[p]
  /\ \A i \in heard[p] : i \in DOMAIN Windows /\ i < section[p]
  /\ \A k \in DOMAIN claimed[p] : Backed(k, claimed[p][k])
  /\ \A k : k \in DOMAIN proposed[p] <=> \E i \in heard[p] : Confirms(p, i, k)
  /\ \A k \in DOMAIN proposed[p] : proposed[p][k] \in 0..Strong
  /\ \A i \in heard[p] : \A j \in ValidClaims(oracle[p][i], i) :
       proposed[p][KeyOf(oracle[p][i][j])] >= Clamp(oracle[p][i][j].confidence)

Maps ==
  /\ DOMAIN pc = Proc /\ DOMAIN existing = Proc /\ DOMAIN section = Proc
  /\ DOMAIN claimed = Proc /\ DOMAIN proposed = Proc /\ DOMAIN examined = Proc
  /\ DOMAIN oracle = Proc /\ DOMAIN heard = Proc

LInv ==
  /\ Maps
  /\ ingested \in Ingests
  /\ Filed
  /\ \A p \in Proc : Read(p) /\ Holds(p)

LEMMA IngestIsFiled ==
  ASSUME NEW table \in Ingests, NEW id \in DOMAIN table
  PROVE  /\ id = [by |-> "pattern", key |-> id.key] /\ id.by = "pattern"
         /\ table[id] \in Entry /\ table[id].provenance = "pattern"
<1>1. id \in [by : {"pattern"}, key : Relation]
  BY IngestsAssumption
<1> QED BY <1>1, IngestsAssumption

\* A run that holds nothing yet.
LEMMA FreshHolds ==
  ASSUME NEW p \in Proc, oracle[p] \in Oracles, section[p] = 1,
         examined[p] = {}, heard[p] = {}, claimed[p] = Nothing, proposed[p] = Nothing
  PROVE  Holds(p)
BY DEF Holds, Nothing, Oracles

LEMMA HoldsInit == Init => LInv
<1> SUFFICES ASSUME Init PROVE LInv
  OBVIOUS
<1>1. Maps /\ ingested \in Ingests
  BY DEF Init, Maps
<1>2. Filed
  BY IngestIsFiled DEF Init, Filed
<1>3. ASSUME NEW p \in Proc PROVE Read(p) /\ Holds(p)
  <2>1. Holds(p)
    BY FreshHolds DEF Init
  <2>2. Read(p)
    BY DEF Init, Read, Nothing
  <2> QED BY <2>1, <2>2
<1> QED BY <1>1, <1>2, <1>3 DEF LInv

LEMMA StartHolds ==
  ASSUME LInv, NEW p \in Proc, Start(p)
  PROVE  LInv'
<1>1. Maps' /\ ingested' \in Ingests
  BY DEF LInv, Maps, Start
<1>2. Filed' /\ bundle' = bundle
  BY DEF LInv, Filed, Start
<1>3. Read(p)'
  <2>1. existing'[p] = [id \in {i \in DOMAIN bundle : bundle[i].provenance = "pattern"} |-> bundle[id]]
    BY DEF LInv, Maps, Start
  <2>2. ASSUME NEW id \in DOMAIN bundle, bundle[id].provenance = "pattern"
        PROVE  id.by = "pattern" /\ bundle[id] \in Entry
    <3>1. ~Backed(id.key, bundle[id])
      BY <2>2 DEF Backed, EntryOf
    <3> QED BY <3>1 DEF LInv, Filed
  <2> QED BY <1>2, <2>1, <2>2 DEF Read
<1>4. Holds(p)'
  <2>1. oracle'[p] \in Oracles
    <3>1. oracle[p] \in Oracles
      BY DEF LInv, Holds, Oracles
    <3> QED BY <3>1 DEF Start, LInv, Maps
  <2>2. /\ section'[p] = 1 /\ examined'[p] = {} /\ heard'[p] = {}
        /\ claimed'[p] = Nothing /\ proposed'[p] = Nothing
    BY DEF LInv, Maps, Start
  <2> QED BY <2>1, <2>2 DEF Holds, Nothing, Oracles
<1>5. ASSUME NEW q \in Proc, q # p PROVE Read(q)' /\ Holds(q)'
  <2>1. /\ existing'[q] = existing[q] /\ section'[q] = section[q] /\ oracle'[q] = oracle[q]
        /\ examined'[q] = examined[q] /\ heard'[q] = heard[q]
        /\ claimed'[q] = claimed[q] /\ proposed'[q] = proposed[q]
    BY <1>5 DEF LInv, Maps, Start
  <2>2. Read(q) /\ Holds(q)
    BY DEF LInv
  <2>3. Read(q)'
    BY <1>2, <2>1, <2>2 DEF Read
  <2>4. Holds(q)'
    BY <2>1, <2>2 DEF Holds, Confirms
  <2> QED BY <2>3, <2>4
<1> QED BY <1>1, <1>2, <1>3, <1>4, <1>5 DEF LInv

\* What is heard of a section adds to what was heard of the others, and takes
\* nothing of it back: no relation is spoken of in two sections.
LEMMA HearHolds ==
  ASSUME LInv, NEW p \in Proc, section[p] \in DOMAIN Windows, Hear(p),
         oracle' = oracle
  PROVE  Holds(p)'
<1> DEFINE w == section[p]
           answer == oracle[p][w]
           last == LastClaims(answer, w)
           said == HighestClaims(answer, w)
<1>1. /\ Holds(p) /\ w \in Nat /\ answer \in Responses
      /\ \A i \in heard[p] : i \in DOMAIN Windows /\ i < w
  BY DEF LInv, Holds
<1>2. /\ section'[p] = w + 1
      /\ examined'[p] = examined[p] \cup {w} /\ heard'[p] = heard[p] \cup {w}
      /\ claimed'[p] = Update(claimed[p], last)
      /\ proposed'[p] = Update(proposed[p], said)
      /\ oracle'[p] = oracle[p]
  BY DEF Hear, LInv, Maps
<1>3. \A k \in DOMAIN last : Backed(k, last[k])
  BY <1>1, LastIsAClaim DEF Backed
<1>4. \A k : k \in DOMAIN said <=> \E j \in ValidClaims(answer, w) : KeyOf(answer[j]) = k
  <2>1. DOMAIN said = {KeyOf(answer[i]) : i \in ValidClaims(answer, w)}
    BY DEF HighestClaims
  <2> HIDE DEF said
  <2> QED BY <2>1
<1>5. \A k \in DOMAIN said :
        /\ said[k] \in 0..Strong
        /\ \A j \in ValidClaims(answer, w) :
             KeyOf(answer[j]) = k => said[k] >= Clamp(answer[j].confidence)
  BY <1>1, HighestIsABound
<1>6. \A i, j, k : i \in DOMAIN Windows /\ j \in ValidClaims(oracle[p][i], i)
                     /\ KeyOf(oracle[p][i][j]) = k => Ends(k) \subseteq Windows[i]
  BY DEF ValidClaims, Valid, KeyOf, Ends
<1> HIDE DEF last, said
<1>7. /\ DOMAIN Update(claimed[p], last) = DOMAIN claimed[p] \cup DOMAIN last
      /\ \A k \in DOMAIN last : Update(claimed[p], last)[k] = last[k]
      /\ \A k \in DOMAIN claimed[p] \ DOMAIN last :
           Update(claimed[p], last)[k] = claimed[p][k]
  BY UpdateApplies
<1>8. /\ DOMAIN Update(proposed[p], said) = DOMAIN proposed[p] \cup DOMAIN said
      /\ \A k \in DOMAIN said : Update(proposed[p], said)[k] = said[k]
      /\ \A k \in DOMAIN proposed[p] \ DOMAIN said :
           Update(proposed[p], said)[k] = proposed[p][k]
  BY UpdateApplies
<1>9. \A k \in DOMAIN claimed'[p] : Backed(k, claimed'[p][k])
  BY <1>1, <1>2, <1>3, <1>7 DEF Holds
<1>10. \A k : k \in DOMAIN proposed'[p] <=> \E i \in heard'[p] : Confirms(p, i, k)
  <2>1. \A k : k \in DOMAIN said <=> Confirms(p, w, k)
    BY <1>4 DEF Confirms
  <2>2. \A k : k \in DOMAIN proposed[p] <=> \E i \in heard[p] : Confirms(p, i, k)
    BY <1>1 DEF Holds
  <2> QED BY <1>2, <1>8, <2>1, <2>2
<1>11. \A k \in DOMAIN proposed'[p] : proposed'[p][k] \in 0..Strong
  BY <1>1, <1>2, <1>5, <1>8 DEF Holds
<1>12. ASSUME NEW i \in heard'[p], NEW j \in ValidClaims(oracle[p][i], i)
       PROVE  proposed'[p][KeyOf(oracle[p][i][j])] >= Clamp(oracle[p][i][j].confidence)
  <2> DEFINE k == KeyOf(oracle[p][i][j])
  <2>1. CASE i = w
    <3>1. k \in DOMAIN said /\ said[k] >= Clamp(oracle[p][i][j].confidence)
      BY <1>4, <1>5, <2>1
    <3> QED BY <1>2, <1>8, <3>1
  <2>2. CASE i \in heard[p]
    <3>1. i \in DOMAIN Windows /\ i # w /\ Ends(k) \subseteq Windows[i]
      BY <1>1, <1>6, <2>2
    <3>2. k \notin DOMAIN said
      <4>1. ASSUME k \in DOMAIN said PROVE Ends(k) \subseteq Windows[w]
        BY <1>4, <1>6, <4>1
      <4> QED BY <3>1, <4>1, OneSectionDecides
    <3>3. k \in DOMAIN proposed[p] /\ proposed[p][k] >= Clamp(oracle[p][i][j].confidence)
      BY <1>1, <2>2 DEF Holds, Confirms
    <3> HIDE DEF k
    <3>4. proposed'[p][k] = proposed[p][k]
      BY <1>2, <1>8, <3>2, <3>3
    <3> QED BY <3>3, <3>4 DEF k
  <2> QED BY <1>2, <2>1, <2>2
<1>13. /\ examined'[p] = heard'[p] /\ section'[p] \in Nat
       /\ \A i \in heard'[p] : i \in DOMAIN Windows /\ i < section'[p]
  <2>1. examined[p] = heard[p]
    BY <1>1 DEF Holds
  <2>2. examined'[p] = heard'[p] /\ section'[p] \in Nat
    BY <1>1, <1>2, <2>1
  <2>3. ASSUME NEW i \in heard'[p] PROVE i \in DOMAIN Windows /\ i < section'[p]
    <3>1. CASE i = w
      BY <1>1, <1>2, <3>1
    <3>2. CASE i \in heard[p]
      BY <1>1, <1>2, <3>2, WindowsAssumption
    <3> QED BY <1>2, <3>1, <3>2
  <2> QED BY <2>2, <2>3
<1>14. \A k, i : Confirms(p, i, k)' <=> Confirms(p, i, k)
  BY <1>2 DEF Confirms
<1>15. oracle'[p] \in [DOMAIN Windows -> Responses]
  BY <1>1, <1>2 DEF Holds
<1> HIDE DEF w, answer
<1> QED BY <1>2, <1>9, <1>10, <1>11, <1>12, <1>13, <1>14, <1>15 DEF Holds

\* A step of p leaves what the other runs hold alone.
LEMMA OthersHold ==
  ASSUME NEW q \in Proc, Holds(q),
         section'[q] = section[q], oracle'[q] = oracle[q], examined'[q] = examined[q],
         heard'[q] = heard[q], claimed'[q] = claimed[q], proposed'[q] = proposed[q]
  PROVE  Holds(q)'
BY DEF Holds, Confirms

LEMMA CallHolds ==
  ASSUME LInv, NEW p \in Proc, Call(p)
  PROVE  LInv'
<1>1. Maps' /\ ingested' \in Ingests
  BY DEF LInv, Maps, Call, Hear, Fail
<1>2. Filed' /\ \A q \in Proc : Read(q)'
  BY DEF LInv, Filed, Read, Call
<1>3. ASSUME NEW q \in Proc PROVE Holds(q)'
  <2>1. CASE q # p
    <3>1. /\ section'[q] = section[q] /\ oracle'[q] = oracle[q]
          /\ examined'[q] = examined[q] /\ heard'[q] = heard[q]
          /\ claimed'[q] = claimed[q] /\ proposed'[q] = proposed[q]
      BY <2>1 DEF LInv, Maps, Call, Hear, Fail
    <3> QED BY <3>1, OthersHold DEF LInv
  <2>2. CASE q = p /\ Hear(p)
    BY <2>2, HearHolds DEF Call
  <2>3. CASE q = p /\ Fail(p)
    <3>1. /\ Holds(p) /\ section[p] \in Nat /\ section'[p] = section[p] + 1
          /\ oracle' = oracle /\ examined' = examined /\ heard' = heard
          /\ claimed' = claimed /\ proposed' = proposed
      BY <2>3 DEF LInv, Maps, Call, Fail, Holds
    <3>2. \A i \in heard[p] : i \in DOMAIN Windows /\ i < section'[p]
      <4>1. \A i \in heard[p] : i \in DOMAIN Windows /\ i < section[p]
        BY <3>1 DEF Holds
      <4>2. DOMAIN Windows \subseteq Nat
        BY WindowsAssumption
      <4> QED BY <3>1, <4>1, <4>2
    <3> QED BY <2>3, <3>1, <3>2 DEF Holds, Confirms
  <2> QED BY <2>1, <2>2, <2>3 DEF Call
<1> QED BY <1>1, <1>2, <1>3 DEF LInv

\* What one transaction makes of an entry: it judges a pattern edge that the
\* run had read, adds a model edge, or leaves it as it is.
LEMMA OneTransaction ==
  ASSUME LInv, NEW p \in Proc, Write(p)
  PROVE  /\ DOMAIN bundle' = DOMAIN bundle \cup DOMAIN ModelWrites(p)
         /\ \A id \in DOMAIN bundle' :
              \/ /\ id \in DOMAIN existing[p] /\ id.by = "pattern"
                 /\ bundle'[id] = Reconciled(id, existing[p][id], proposed[p], examined[p])
                 /\ bundle'[id] # existing[p][id]
              \/ /\ id = [by |-> "model", key |-> id.key]
                 /\ id.key \in DOMAIN claimed[p] \ PatternRelations(p)
                 /\ bundle'[id] = claimed[p][id.key]
              \/ /\ id \in DOMAIN bundle /\ bundle'[id] = bundle[id]
<1> DEFINE mine == ModelWrites(p)
           theirs == PatternWrites(p)
           all == Update(mine, theirs)
<1>1. bundle' = Update(bundle, all)
  BY DEF Write
<1>2. /\ DOMAIN theirs \subseteq DOMAIN existing[p]
      /\ \A id \in DOMAIN theirs :
           /\ theirs[id] = Reconciled(id, existing[p][id], proposed[p], examined[p])
           /\ theirs[id] # existing[p][id]
      /\ \A id \in DOMAIN mine :
           /\ id = [by |-> "model", key |-> id.key]
           /\ id.key \in DOMAIN claimed[p] \ PatternRelations(p)
           /\ mine[id] = claimed[p][id.key]
  BY WritesApply
<1>3. \A id \in DOMAIN existing[p] : id \in DOMAIN bundle /\ id.by = "pattern"
  BY DEF LInv, Read
<1> HIDE DEF mine, theirs
<1>4. /\ DOMAIN all = DOMAIN mine \cup DOMAIN theirs
      /\ \A id \in DOMAIN theirs : all[id] = theirs[id]
      /\ \A id \in DOMAIN mine \ DOMAIN theirs : all[id] = mine[id]
  BY UpdateApplies
<1> HIDE DEF all
<1>5. /\ DOMAIN Update(bundle, all) = DOMAIN bundle \cup DOMAIN all
      /\ \A id \in DOMAIN all : Update(bundle, all)[id] = all[id]
      /\ \A id \in DOMAIN bundle \ DOMAIN all : Update(bundle, all)[id] = bundle[id]
  BY UpdateApplies
<1>6. DOMAIN bundle' = DOMAIN bundle \cup DOMAIN mine
  BY <1>1, <1>2, <1>3, <1>4, <1>5
<1>7. ASSUME NEW id \in DOMAIN bundle'
      PROVE  \/ /\ id \in DOMAIN existing[p] /\ id.by = "pattern"
                /\ bundle'[id] = Reconciled(id, existing[p][id], proposed[p], examined[p])
                /\ bundle'[id] # existing[p][id]
             \/ /\ id = [by |-> "model", key |-> id.key]
                /\ id.key \in DOMAIN claimed[p] \ PatternRelations(p)
                /\ bundle'[id] = claimed[p][id.key]
             \/ /\ id \in DOMAIN bundle /\ bundle'[id] = bundle[id]
  <2>1. CASE id \in DOMAIN theirs
    <3>1. bundle'[id] = theirs[id]
      BY <1>1, <1>4, <1>5, <2>1
    <3> QED BY <1>2, <1>3, <2>1, <3>1
  <2>2. CASE id \in DOMAIN mine \ DOMAIN theirs
    <3>1. bundle'[id] = mine[id]
      BY <1>1, <1>4, <1>5, <2>2
    <3> QED BY <1>2, <2>2, <3>1
  <2>3. CASE id \notin DOMAIN mine \cup DOMAIN theirs
    BY <1>1, <1>4, <1>5, <1>6, <2>3
  <2> QED BY <2>1, <2>2, <2>3
<1> QED BY <1>6, <1>7 DEF mine

LEMMA WriteHolds ==
  ASSUME LInv, NEW p \in Proc, Write(p)
  PROVE  LInv'
<1>1. Maps' /\ ingested' \in Ingests
  BY DEF LInv, Maps, Write
<1>2. Filed'
  <2> SUFFICES ASSUME NEW id \in DOMAIN bundle'
      PROVE  /\ id = [by |-> id.by, key |-> id.key]
             /\ \/ id.by = "pattern" /\ bundle'[id] \in Entry
                \/ id.by = "model" /\ Backed(id.key, bundle'[id])
    BY DEF Filed, Backed
  <2>1. CASE /\ id \in DOMAIN existing[p] /\ id.by = "pattern"
             /\ bundle'[id] = Reconciled(id, existing[p][id], proposed[p], examined[p])
    <3>1. /\ id \in DOMAIN bundle
          /\ existing[p][id] \in Entry /\ existing[p][id].provenance = "pattern"
          /\ \A k \in DOMAIN proposed[p] : proposed[p][k] \in 0..Strong
      BY <2>1 DEF LInv, Read, Holds
    <3>2. bundle'[id] \in Entry
      BY <2>1, <3>1, Judgement
    <3> QED BY <2>1, <3>1, <3>2 DEF LInv, Filed
  <2>2. CASE /\ id = [by |-> "model", key |-> id.key]
             /\ id.key \in DOMAIN claimed[p] /\ bundle'[id] = claimed[p][id.key]
    <3>1. id.by = "model"
      BY <2>2
    <3>2. Backed(id.key, claimed[p][id.key])
      BY <2>2 DEF LInv, Holds
    <3> QED BY <2>2, <3>1, <3>2
  <2>3. CASE id \in DOMAIN bundle /\ bundle'[id] = bundle[id]
    BY <2>3 DEF LInv, Filed
  <2> QED BY <2>1, <2>2, <2>3, OneTransaction
<1>3. ASSUME NEW q \in Proc PROVE Read(q)' /\ Holds(q)'
  <2>1. Read(q)'
    <3>1. existing' = existing /\ DOMAIN bundle \subseteq DOMAIN bundle'
      BY OneTransaction DEF Write
    <3> QED BY <3>1 DEF LInv, Read
  <2>2. Holds(q)'
    BY OthersHold DEF LInv, Write
  <2> QED BY <2>1, <2>2
<1> QED BY <1>1, <1>2, <1>3 DEF LInv

LEMMA HoldsNext == LInv /\ [Next]_vars => LInv'
<1> SUFFICES ASSUME LInv, [Next]_vars PROVE LInv'
  OBVIOUS
<1>1. ASSUME NEW p \in Proc, Crash(p) PROVE LInv'
  <2>1. Maps' /\ ingested' \in Ingests /\ Filed'
    BY <1>1 DEF LInv, Maps, Filed, Crash
  <2>2. ASSUME NEW q \in Proc PROVE Read(q)' /\ Holds(q)'
    BY <1>1, OthersHold DEF LInv, Read, Crash
  <2> QED BY <2>1, <2>2 DEF LInv
<1>2. CASE UNCHANGED vars
  <2>1. Maps' /\ ingested' \in Ingests /\ Filed'
    BY <1>2 DEF LInv, Maps, Filed, vars, run
  <2>2. ASSUME NEW q \in Proc PROVE Read(q)' /\ Holds(q)'
    BY <1>2, OthersHold DEF LInv, Read, vars, run
  <2> QED BY <2>1, <2>2 DEF LInv
<1> QED BY <1>1, <1>2, StartHolds, CallHolds, WriteHolds DEF Next

\* A run holds what the bundle and the answers really said, at every moment of
\* every history.
THEOREM RunsHoldTruth == Spec => []LInv
BY HoldsInit, HoldsNext, PTL DEF Spec

-----------------------------------------------------------------------------
(* STRONG edges *)

\* A STRONG edge is in the bundle as ingest left it, and so has every run read it.
Untouched ==
  \A id \in DOMAIN ingested : ingested[id].confidence = Strong =>
    /\ id \in DOMAIN bundle /\ bundle[id] = ingested[id]
    /\ \A p \in Proc : id \in DOMAIN existing[p] => existing[p][id] = ingested[id]

LEMMA UntouchedNext == LInv /\ Untouched /\ [Next]_vars => Untouched'
<1> SUFFICES ASSUME LInv, Untouched, [Next]_vars PROVE Untouched'
  OBVIOUS
<1>1. ASSUME NEW p \in Proc, Start(p) PROVE Untouched'
  <2>1. bundle' = bundle /\ ingested' = ingested
    BY <1>1 DEF Start
  <2>2. existing'[p] = [id \in {i \in DOMAIN bundle : bundle[i].provenance = "pattern"} |-> bundle[id]]
    BY <1>1 DEF Start, LInv, Maps
  <2>3. \A q \in Proc \ {p} : existing'[q] = existing[q]
    BY <1>1 DEF Start, LInv, Maps
  <2> QED BY <2>1, <2>2, <2>3 DEF Untouched
<1>2. ASSUME NEW p \in Proc, Write(p) PROVE Untouched'
  <2> SUFFICES ASSUME NEW id \in DOMAIN ingested, ingested[id].confidence = Strong
      PROVE  /\ id \in DOMAIN bundle' /\ bundle'[id] = ingested[id]
             /\ \A q \in Proc : id \in DOMAIN existing'[q] => existing'[q][id] = ingested[id]
    BY <1>2 DEF Write, Untouched
  <2>1. /\ id \in DOMAIN bundle' /\ bundle[id] = ingested[id]
        /\ \A q \in Proc : id \in DOMAIN existing[q] => existing[q][id] = ingested[id]
    BY <1>2, OneTransaction DEF Untouched
  <2>2. id.by = "pattern"
    BY IngestIsFiled DEF LInv
  <2>3. id \in DOMAIN existing[p]
          => Reconciled(id, existing[p][id], proposed[p], examined[p]) = existing[p][id]
    BY <2>1 DEF Reconciled, Medium, Strong
  <2>4. id # [by |-> "model", key |-> id.key]
    BY <2>2
  <2>5. bundle'[id] = bundle[id]
    BY <1>2, <2>1, <2>3, <2>4, OneTransaction
  <2> QED BY <1>2, <2>1, <2>5 DEF Write
<1>3. ASSUME NEW p \in Proc, Call(p) \/ Crash(p) PROVE Untouched'
  BY <1>3 DEF Call, Crash, Untouched
<1>4. CASE UNCHANGED vars
  BY <1>4 DEF vars, run, Untouched
<1> QED BY <1>1, <1>2, <1>3, <1>4 DEF Next

\* A STRONG drafting marker is never put to the model's vote, however many runs
\* overlap and die.
THEOREM StrongStays == Spec => []StrongIsFinal
<1>1. Init => Untouched
  BY DEF Init, Untouched, Nothing
<1>2. Untouched => StrongIsFinal
  BY DEF Untouched, StrongIsFinal
<1> QED BY <1>1, <1>2, UntouchedNext, RunsHoldTruth, PTL DEF Spec

-----------------------------------------------------------------------------
(* Judgements *)

\* Which sections a run has examined decides what it asks of a relation.
LEMMA AskedInOne ==
  ASSUME LInv, NEW p \in Proc, NEW k, Asked(k, examined[p])
  PROVE  \E i \in heard[p] :
           /\ Ends(k) \subseteq Windows[i]
           /\ k \in DOMAIN proposed[p] <=> Confirms(p, i, k)
<1>1. PICK i \in heard[p] : i \in DOMAIN Windows /\ Ends(k) \subseteq Windows[i]
  BY DEF LInv, Holds, Asked
<1>2. \A n \in heard[p] : n \in DOMAIN Windows /\ (Confirms(p, n, k) => Ends(k) \subseteq Windows[n])
  BY DEF LInv, Holds, Confirms, ValidClaims, Valid, KeyOf, Ends
<1>3. k \in DOMAIN proposed[p] <=> \E n \in heard[p] : Confirms(p, n, k)
  BY DEF LInv, Holds
<1>4. \A n \in heard[p] : Confirms(p, n, k) => n = i
  BY <1>1, <1>2, OneSectionDecides
<1> QED BY <1>1, <1>3, <1>4

\* Nothing but a transaction changes the bundle.
LEMMA OnlyWritesChange ==
  ASSUME [Next]_vars, bundle' # bundle
  PROVE  \E p \in Proc : Write(p)
BY DEF Next, Start, Call, Crash, vars, run

\* What a transaction does to a pattern edge.
LEMMA PatternEdgeJudged ==
  ASSUME LInv, NEW p \in Proc, Write(p), NEW id \in DOMAIN bundle,
         id.by = "pattern", bundle'[id] # bundle[id]
  PROVE  /\ pc[p] = "calling" /\ pc'[p] = "idle"
         /\ id \in DOMAIN existing[p]
         /\ existing[p][id] \in Entry /\ existing[p][id].provenance = "pattern"
         /\ bundle'[id] = Reconciled(id, existing[p][id], proposed[p], examined[p])
         /\ bundle'[id] # existing[p][id]
         /\ \A k \in DOMAIN proposed[p] : proposed[p][k] \in 0..Strong
<1>1. pc[p] = "calling" /\ pc'[p] = "idle"
  BY DEF Write, LInv, Maps
<1>2. id # [by |-> "model", key |-> id.key]
  OBVIOUS
<1>3. id \in DOMAIN bundle'
  BY OneTransaction
<1>4. /\ id \in DOMAIN existing[p]
      /\ bundle'[id] = Reconciled(id, existing[p][id], proposed[p], examined[p])
      /\ bundle'[id] # existing[p][id]
  BY <1>2, <1>3, OneTransaction
<1> QED BY <1>1, <1>4 DEF LInv, Read, Holds

\* A pattern edge changes only by what the model said, in the run that writes
\* it, of the one section that holds both its ends.
THEOREM JudgedBySection == Spec => JudgedByItsSection
<1> DEFINE J == \A id \in DOMAIN bundle :
        id.by = "pattern" /\ bundle'[id] # bundle[id] =>
          \E p \in Proc :
            /\ pc[p] = "calling" /\ pc'[p] = "idle"
            /\ Medium(existing[p][id])
            /\ \E i \in heard[p] :
                 /\ Ends(id.key) \subseteq Windows[i]
                 /\ bundle'[id].provenance = "verified" <=> Confirms(p, i, id.key)
                 /\ bundle'[id].provenance = "pattern"
                      => bundle'[id].confidence < existing[p][id].confidence
<1>1. LInv /\ [Next]_vars => [J]_vars
  <2> SUFFICES ASSUME LInv, [Next]_vars, NEW id \in DOMAIN bundle,
                      id.by = "pattern", bundle'[id] # bundle[id]
               PROVE  \E p \in Proc :
                        /\ pc[p] = "calling" /\ pc'[p] = "idle"
                        /\ Medium(existing[p][id])
                        /\ \E i \in heard[p] :
                             /\ Ends(id.key) \subseteq Windows[i]
                             /\ bundle'[id].provenance = "verified" <=> Confirms(p, i, id.key)
                             /\ bundle'[id].provenance = "pattern"
                                  => bundle'[id].confidence < existing[p][id].confidence
    OBVIOUS
  <2>1. PICK p \in Proc : Write(p)
    BY OnlyWritesChange
  <2>2. /\ pc[p] = "calling" /\ pc'[p] = "idle"
        /\ existing[p][id] \in Entry /\ existing[p][id].provenance = "pattern"
        /\ bundle'[id] = Reconciled(id, existing[p][id], proposed[p], examined[p])
        /\ bundle'[id] # existing[p][id]
        /\ \A k \in DOMAIN proposed[p] : proposed[p][k] \in 0..Strong
    BY <2>1, PatternEdgeJudged
  <2>3. /\ Medium(existing[p][id]) /\ Asked(id.key, examined[p])
        /\ id.key \in DOMAIN proposed[p] => bundle'[id].provenance = "verified"
        /\ id.key \notin DOMAIN proposed[p]
             => /\ bundle'[id].provenance = "pattern"
                /\ bundle'[id].confidence < existing[p][id].confidence
    BY <2>2, Judgement
  <2>4. PICK i \in heard[p] :
          /\ Ends(id.key) \subseteq Windows[i]
          /\ id.key \in DOMAIN proposed[p] <=> Confirms(p, i, id.key)
    BY <2>3, AskedInOne
  <2>5. bundle'[id].provenance = "verified" <=> Confirms(p, i, id.key)
    BY <2>3, <2>4
  <2>6. bundle'[id].provenance = "pattern"
          => bundle'[id].confidence < existing[p][id].confidence
    BY <2>3
  <2> QED BY <2>2, <2>3, <2>4, <2>5, <2>6
<1> QED BY <1>1, RunsHoldTruth, PTL DEF Spec, JudgedByItsSection

\* A confirmation never puts an edge below what the run had read of it, nor below
\* the best of the claims that confirm it.
THEOREM ConfirmationsAreFloors == Spec => ConfirmationNeverWeakens
<1> DEFINE C == \A id \in DOMAIN bundle :
        bundle'[id].provenance = "verified" /\ bundle[id].provenance = "pattern" =>
          \E p \in Proc :
            /\ pc[p] = "calling" /\ pc'[p] = "idle"
            /\ id \in DOMAIN existing[p]
            /\ bundle'[id].confidence >= existing[p][id].confidence
            /\ \A i \in heard[p] : \A j \in ValidClaims(oracle[p][i], i) :
                 KeyOf(oracle[p][i][j]) = id.key
                   => bundle'[id].confidence >= Clamp(oracle[p][i][j].confidence)
<1>1. LInv /\ [Next]_vars => [C]_vars
  <2> SUFFICES ASSUME LInv, [Next]_vars, NEW id \in DOMAIN bundle,
                      bundle'[id].provenance = "verified", bundle[id].provenance = "pattern"
               PROVE  \E p \in Proc :
                        /\ pc[p] = "calling" /\ pc'[p] = "idle"
                        /\ id \in DOMAIN existing[p]
                        /\ bundle'[id].confidence >= existing[p][id].confidence
                        /\ \A i \in heard[p] : \A j \in ValidClaims(oracle[p][i], i) :
                             KeyOf(oracle[p][i][j]) = id.key
                               => bundle'[id].confidence >= Clamp(oracle[p][i][j].confidence)
    OBVIOUS
  <2>1. bundle'[id] # bundle[id]
    OBVIOUS
  <2>2. PICK p \in Proc : Write(p)
    BY <2>1, OnlyWritesChange
  <2>3. id.by = "pattern"
    <3>1. ~Backed(id.key, bundle[id])
      BY DEF Backed, EntryOf
    <3> QED BY <3>1 DEF LInv, Filed
  <2>4. /\ pc[p] = "calling" /\ pc'[p] = "idle" /\ id \in DOMAIN existing[p]
        /\ existing[p][id] \in Entry /\ existing[p][id].provenance = "pattern"
        /\ bundle'[id] = Reconciled(id, existing[p][id], proposed[p], examined[p])
        /\ bundle'[id] # existing[p][id]
        /\ \A k \in DOMAIN proposed[p] : proposed[p][k] \in 0..Strong
    BY <2>1, <2>2, <2>3, PatternEdgeJudged
  <2>5. /\ id.key \in DOMAIN proposed[p]
        /\ bundle'[id].confidence >= existing[p][id].confidence
        /\ bundle'[id].confidence >= proposed[p][id.key]
    <3>1. id.key \in DOMAIN proposed[p]
      BY <2>4, Judgement
    <3> QED BY <2>4, <3>1, Judgement
  <2>6. ASSUME NEW i \in heard[p], NEW j \in ValidClaims(oracle[p][i], i),
               KeyOf(oracle[p][i][j]) = id.key
        PROVE  bundle'[id].confidence >= Clamp(oracle[p][i][j].confidence)
    <3>1. proposed[p][id.key] >= Clamp(oracle[p][i][j].confidence)
      BY <2>6 DEF LInv, Holds
    <3>2. Clamp(oracle[p][i][j].confidence) \in Nat
      <4>1. oracle[p][i] \in Responses /\ j \in DOMAIN oracle[p][i]
        BY <2>6 DEF LInv, Holds, ValidClaims
      <4> QED BY <4>1, AnswersAreClaims, ClampInRange
    <3>3. proposed[p][id.key] \in Nat /\ bundle'[id].confidence \in Nat
      <4>1. bundle'[id] \in Entry
        BY <2>4, Judgement
      <4> QED BY <2>4, <2>5, <4>1 DEF Entry
    <3> QED BY <2>5, <3>1, <3>2, <3>3
  <2> QED BY <2>4, <2>5, <2>6
<1> QED BY <1>1, RunsHoldTruth, PTL DEF Spec, ConfirmationNeverWeakens

-----------------------------------------------------------------------------
(* The first run *)

Idle(p) == pc[p] = "idle"
Single == \A a, b \in DOMAIN bundle : a.key = b.key => a = b

\* Until the first run has written, the bundle is what ingest left and the run
\* that is under way has read all of it.
FirstRun ==
  /\ runs \in Nat
  /\ runs = 0 => bundle = ingested /\ \A p \in Proc : Idle(p)
  /\ runs = 1 =>
       \/ Single /\ \A p \in Proc : Idle(p)
       \/ /\ bundle = ingested
          /\ \E p \in Proc : /\ \A q \in Proc \ {p} : Idle(q)
                             /\ DOMAIN existing[p] = DOMAIN bundle

LEMMA IngestIsSingle == LInv /\ bundle = ingested => Single
<1> SUFFICES ASSUME LInv, bundle = ingested, NEW a \in DOMAIN bundle, NEW b \in DOMAIN bundle,
                    a.key = b.key
             PROVE  a = b
  BY DEF Single
<1> QED BY IngestIsFiled DEF LInv

\* The run leaves out every model edge whose relation it has a pattern edge for.
LEMMA FirstWrite ==
  ASSUME LInv, bundle = ingested, NEW p \in Proc, Write(p),
         DOMAIN existing[p] = DOMAIN bundle
  PROVE  Single'
<1> SUFFICES ASSUME NEW a \in DOMAIN bundle', NEW b \in DOMAIN bundle', a.key = b.key
             PROVE  a = b
  BY DEF Single
<1>1. \A id \in DOMAIN bundle' :
        \/ id \in DOMAIN bundle
        \/ /\ id = [by |-> "model", key |-> id.key]
           /\ \A other \in DOMAIN bundle : other.key # id.key
  <2>1. \A id \in DOMAIN bundle : id.key \in PatternRelations(p)
    BY DEF PatternRelations
  <2> QED BY <2>1, OneTransaction
<1>2. CASE a \in DOMAIN bundle /\ b \in DOMAIN bundle
  BY <1>2, IngestIsSingle DEF Single
<1>3. CASE a \notin DOMAIN bundle \/ b \notin DOMAIN bundle
  <2>1. a = [by |-> "model", key |-> a.key] /\ b = [by |-> "model", key |-> b.key]
    BY <1>1, <1>3
  <2> QED BY <2>1
<1> QED BY <1>2, <1>3

LEMMA FirstRunNext == LInv /\ FirstRun /\ [Next]_vars => FirstRun'
<1> SUFFICES ASSUME LInv, FirstRun, [Next]_vars PROVE FirstRun'
  OBVIOUS
<1>1. ASSUME NEW p \in Proc, Start(p) PROVE FirstRun'
  <2>1. runs' = runs + 1 /\ runs \in Nat /\ bundle' = bundle /\ ingested' = ingested
    BY <1>1 DEF Start, FirstRun
  <2>2. /\ \A q \in Proc \ {p} : pc'[q] = pc[q]
        /\ existing'[p] = [id \in {i \in DOMAIN bundle : bundle[i].provenance = "pattern"} |-> bundle[id]]
    BY <1>1 DEF Start, LInv, Maps
  <2>3. CASE runs = 0
    <3>1. bundle = ingested /\ \A q \in Proc : Idle(q)
      BY <2>3 DEF FirstRun
    <3>2. DOMAIN existing'[p] = DOMAIN bundle
      BY <2>2, <3>1, IngestIsFiled DEF LInv
    <3>3. \A q \in Proc \ {p} : Idle(q)'
      BY <2>2, <3>1 DEF Idle
    <3> QED BY <2>1, <2>3, <3>1, <3>2, <3>3 DEF FirstRun
  <2>4. CASE runs # 0
    BY <2>1, <2>4 DEF FirstRun
  <2> QED BY <2>3, <2>4
<1>2. ASSUME NEW p \in Proc, Write(p) PROVE FirstRun'
  <2>1. runs' = runs /\ runs \in Nat /\ ~Idle(p) /\ ingested' = ingested
    BY <1>2 DEF Write, FirstRun, Idle
  <2>2. CASE runs = 1
    <3>1. /\ bundle = ingested /\ DOMAIN existing[p] = DOMAIN bundle
          /\ \A q \in Proc \ {p} : Idle(q)
      BY <2>1, <2>2 DEF FirstRun
    <3>2. \A q \in Proc : Idle(q)'
      BY <1>2, <3>1 DEF Write, Idle, LInv, Maps
    <3>3. Single'
      BY <1>2, <3>1, FirstWrite
    <3> QED BY <2>1, <2>2, <3>2, <3>3 DEF FirstRun
  <2>3. CASE runs # 1
    BY <2>1, <2>3 DEF FirstRun
  <2> QED BY <2>2, <2>3
<1>3. ASSUME NEW p \in Proc, Call(p) PROVE FirstRun'
  BY <1>3 DEF Call, FirstRun, Single, Idle
<1>4. ASSUME NEW p \in Proc, Crash(p) PROVE FirstRun'
  <2>1. /\ runs' = runs /\ bundle' = bundle /\ ingested' = ingested /\ existing' = existing
        /\ \A q \in Proc : Idle(q) => Idle(q)'
    BY <1>4 DEF Crash, Idle, LInv, Maps
  <2>2. CASE runs = 0
    BY <2>1, <2>2 DEF FirstRun
  <2>3. CASE runs = 1
    <3>1. CASE Single /\ \A q \in Proc : Idle(q)
      BY <2>1, <2>3, <3>1 DEF FirstRun, Single
    <3>2. CASE /\ bundle = ingested
               /\ \E q \in Proc : /\ \A r \in Proc \ {q} : Idle(r)
                                  /\ DOMAIN existing[q] = DOMAIN bundle
      BY <2>1, <2>3, <3>2 DEF FirstRun
    <3> QED BY <2>3, <3>1, <3>2 DEF FirstRun
  <2>4. CASE runs \notin {0, 1}
    BY <2>1, <2>4 DEF FirstRun
  <2> QED BY <2>2, <2>3, <2>4
<1>5. CASE UNCHANGED vars
  BY <1>5 DEF vars, run, FirstRun, Single, Idle
<1> QED BY <1>1, <1>2, <1>3, <1>4, <1>5 DEF Next

\* The first run files no relation twice, whether it ends or dies.
THEOREM FirstRunFilesOnce == Spec => []NoDuplicateRelation
<1>1. Init => FirstRun
  BY DEF Init, FirstRun, Idle
<1>2. LInv /\ FirstRun => NoDuplicateRelation
  BY IngestIsSingle DEF FirstRun, Single, NoDuplicateRelation
<1> QED BY <1>1, <1>2, FirstRunNext, RunsHoldTruth, PTL DEF Spec

-----------------------------------------------------------------------------
(* Texts *)

\* What stands in t, and what of it is left when it is collapsed.
Seen(t) == {i \in DOMAIN t : t[i] \notin Space}

Follows(t, i) == i > 1 /\ t[i - 1] \notin Space
Kept(t) == {i \in DOMAIN t : t[i] \notin Space \/ (Follows(t, i) /\ \E j \in Seen(t) : j > i)}

LEMMA Texts ==
  ASSUME NEW t \in Seq(Char)
  PROVE  /\ Len(t) \in Nat /\ DOMAIN t = 1..Len(t) /\ \A i \in 1..Len(t) : t[i] \in Char
         /\ DOMAIN Indices(t) = 1..Len(t) /\ \A i \in 1..Len(t) : Indices(t)[i] = i
         /\ Seen(t) \in SUBSET Nat /\ Kept(t) \in SUBSET Nat
<1>1. Len(t) \in Nat /\ DOMAIN t = 1..Len(t) /\ \A i \in 1..Len(t) : t[i] \in Char
  BY LenProperties
<1> QED BY <1>1 DEF Indices, Seen, Kept

SeeStep(t, seen, i) == IF t[i] \in Space THEN seen ELSE Append(seen, i)

SeeFold(f, t) ==
  f = [s \in SUBSET (DOMAIN Indices(t)) |->
         IF s = {} THEN <<>> ELSE SeeStep(t, f[s \ {Max(s)}], Indices(t)[Max(s)])]

LEMMA VisibleUnfolds ==
  ASSUME NEW t
  PROVE  Visible(t) = (CHOOSE f : SeeFold(f, t))[DOMAIN Indices(t)]
BY DEF Visible, FoldLeft, MapThenFoldSet, SeeFold, SeeStep

MapStep(t, done, i) ==
  IF t[i] \in Space
  THEN IF done.map = <<>> \/ done.pending # 0 THEN done
       ELSE [done EXCEPT !.pending = i]
  ELSE [map |-> IF done.pending = 0 THEN Append(done.map, i)
                ELSE done.map \o <<done.pending, i>>,
        pending |-> 0]

Start0 == [map |-> <<>>, pending |-> 0]

MapFold(f, t) ==
  f = [s \in SUBSET (DOMAIN Indices(t)) |->
         IF s = {} THEN Start0 ELSE MapStep(t, f[s \ {Max(s)}], Indices(t)[Max(s)])]

LEMMA IndexMapUnfolds ==
  ASSUME NEW t
  PROVE  IndexMap(t) = (CHOOSE f : MapFold(f, t))[DOMAIN Indices(t)].map
BY DEF IndexMap, FoldLeft, MapThenFoldSet, MapFold, MapStep, Start0

LEMMA VisibleSteps ==
  ASSUME NEW t \in Seq(Char)
  PROVE  \E f : /\ f[0] = <<>> /\ f[Len(t)] = Visible(t)
                /\ \A k \in 1..Len(t) : f[k] = SeeStep(t, f[k - 1], k)
<1>0. PICK n \in Nat : n = Len(t)
  BY Texts
<1>1. PICK Q : Q = Seq(Nat)
  OBVIOUS
<1>2. PICK g : g = [p \in Q \X (1..n) |-> SeeStep(t, p[1], p[2])]
  OBVIOUS
<1>3. g \in [Q \X (1..n) -> Q]
  <2>1. ASSUME NEW p \in Q \X (1..n) PROVE SeeStep(t, p[1], p[2]) \in Q
    <3>1. p[1] \in Seq(Nat) /\ p[2] \in Nat
      BY <1>1
    <3>2. Append(p[1], p[2]) \in Seq(Nat)
      BY <3>1, AppendProperties
    <3> QED BY <1>1, <3>1, <3>2 DEF SeeStep
  <2> QED BY <1>2, <2>1
<1>4. <<>> \in Q
  BY <1>1
<1>5. PICK f \in [SUBSET (1..n) -> Q] : FoldOf(f, g, <<>>, n)
  BY <1>3, <1>4, FoldExists
<1>6. ASSUME NEW e \in [SUBSET (1..n) -> Q]
      PROVE  \A s \in SUBSET (1..n) : s # {} =>
               g[<<e[s \ {Max(s)}], Max(s)>>] = SeeStep(t, e[s \ {Max(s)}], Indices(t)[Max(s)])
  <2>1. SUFFICES ASSUME NEW s \in SUBSET (1..n), s # {}
                 PROVE  g[<<e[s \ {Max(s)}], Max(s)>>]
                          = SeeStep(t, e[s \ {Max(s)}], Indices(t)[Max(s)])
    OBVIOUS
  <2>2. s \in SUBSET Nat /\ \A y \in s : y <= n
    OBVIOUS
  <2>3. PICK m \in s : m = Max(s)
    BY <2>1, <2>2, MaxIs
  <2>4. m \in 1..n /\ s \ {m} \in SUBSET (1..n) /\ Indices(t)[m] = m
    BY <1>0, <2>3, Texts
  <2>5. PICK q \in Q : q = e[s \ {m}]
    BY <2>4
  <2>6. <<q, m>> \in Q \X (1..n)
    BY <2>4
  <2>7. g[<<q, m>>] = SeeStep(t, q, m)
    BY <1>2, <2>6
  <2> QED BY <2>3, <2>4, <2>5, <2>7
<1>7. SeeFold(f, t)
  <2>1. \A s \in SUBSET (1..n) : s # {} =>
          f[s] = SeeStep(t, f[s \ {Max(s)}], Indices(t)[Max(s)])
    BY <1>5, <1>6 DEF FoldOf
  <2>2. f[{}] = <<>>
    BY <1>5 DEF FoldOf
  <2>3. f = [s \in SUBSET (1..n) |->
               IF s = {} THEN <<>> ELSE SeeStep(t, f[s \ {Max(s)}], Indices(t)[Max(s)])]
    BY <2>1, <2>2
  <2>4. DOMAIN Indices(t) = 1..n
    BY <1>0, Texts
  <2> QED BY <2>3, <2>4 DEF SeeFold
<1>8. PICK v : v = (CHOOSE e : SeeFold(e, t))
  OBVIOUS
<1>9. SeeFold(v, t) /\ Visible(t) = v[1..n]
  BY <1>0, <1>7, <1>8, VisibleUnfolds, Texts
<1>10. /\ \A s \in SUBSET (1..n) :
            v[s] = IF s = {} THEN <<>> ELSE SeeStep(t, v[s \ {Max(s)}], Indices(t)[Max(s)])
  <2>1. DOMAIN Indices(t) = 1..n
    BY <1>0, Texts
  <2> QED BY <1>9, <2>1 DEF SeeFold
<1> DEFINE w == [k \in 0..n |-> v[1..k]]
<1>11. w[n] = Visible(t) /\ w[0] = <<>>
  <2>1. 1..0 = {} /\ n \in 0..n /\ 0 \in 0..n
    OBVIOUS
  <2> QED BY <1>9, <1>10, <2>1
<1>12. ASSUME NEW k \in 1..n PROVE w[k] = SeeStep(t, w[k - 1], k)
  <2>1. v[1..k] = SeeStep(t, v[(1..k) \ {Max(1..k)}], Indices(t)[Max(1..k)])
    BY <1>10, PrefixMax
  <2>2. Indices(t)[k] = k /\ k \in 0..n /\ k - 1 \in 0..n
    BY <1>0, Texts
  <2> QED BY <2>1, <2>2, PrefixMax
<1> HIDE DEF w
<1> QED BY <1>0, <1>11, <1>12

LEMMA IndexMapSteps ==
  ASSUME NEW t \in Seq(Char)
  PROVE  \E f : /\ f[0] = Start0 /\ f[Len(t)].map = IndexMap(t)
                /\ \A k \in 1..Len(t) : f[k] = MapStep(t, f[k - 1], k)
<1>0. PICK n \in Nat : n = Len(t)
  BY Texts
<1>1. PICK Q : Q = [map : Seq(Nat), pending : Nat]
  OBVIOUS
<1>2. PICK g : g = [p \in Q \X (1..n) |-> MapStep(t, p[1], p[2])]
  OBVIOUS
<1>3. g \in [Q \X (1..n) -> Q]
  <2>1. ASSUME NEW p \in Q \X (1..n) PROVE MapStep(t, p[1], p[2]) \in Q
    <3>1. PICK m \in Seq(Nat), x \in Nat, i \in Nat :
            p[1] = [map |-> m, pending |-> x] /\ p[2] = i
      BY <1>1
    <3>2. Append(m, i) \in Seq(Nat) /\ <<x, i>> \in Seq(Nat)
      BY AppendProperties
    <3>3. m \o <<x, i>> \in Seq(Nat)
      BY <3>2, ConcatProperties
    <3>4. [map |-> m, pending |-> i] \in Q /\ [map |-> m, pending |-> x] \in Q
          /\ [map |-> Append(m, i), pending |-> 0] \in Q
          /\ [map |-> m \o <<x, i>>, pending |-> 0] \in Q
      BY <1>1, <3>2, <3>3
    <3>5. PICK d : d = p[1]
      OBVIOUS
    <3>6. /\ d \in Q /\ d.map = m /\ d.pending = x
          /\ [d EXCEPT !.pending = i] = [map |-> m, pending |-> i]
      BY <3>1, <3>4, <3>5
    <3>7. MapStep(t, d, i) \in Q
      BY <3>4, <3>6 DEF MapStep
    <3> QED BY <3>1, <3>5, <3>7
  <2> QED BY <1>2, <2>1
<1>4. Start0 \in Q
  BY <1>1 DEF Start0
<1>5. PICK f \in [SUBSET (1..n) -> Q] : FoldOf(f, g, Start0, n)
  BY <1>3, <1>4, FoldExists
<1>6. ASSUME NEW e \in [SUBSET (1..n) -> Q]
      PROVE  \A s \in SUBSET (1..n) : s # {} =>
               g[<<e[s \ {Max(s)}], Max(s)>>] = MapStep(t, e[s \ {Max(s)}], Indices(t)[Max(s)])
  <2>1. SUFFICES ASSUME NEW s \in SUBSET (1..n), s # {}
                 PROVE  g[<<e[s \ {Max(s)}], Max(s)>>]
                          = MapStep(t, e[s \ {Max(s)}], Indices(t)[Max(s)])
    OBVIOUS
  <2>2. s \in SUBSET Nat /\ \A y \in s : y <= n
    OBVIOUS
  <2>3. PICK m \in s : m = Max(s)
    BY <2>1, <2>2, MaxIs
  <2>4. m \in 1..n /\ s \ {m} \in SUBSET (1..n) /\ Indices(t)[m] = m
    BY <1>0, <2>3, Texts
  <2>5. PICK q \in Q : q = e[s \ {m}]
    BY <2>4
  <2>6. <<q, m>> \in Q \X (1..n)
    BY <2>4
  <2>7. g[<<q, m>>] = MapStep(t, q, m)
    BY <1>2, <2>6
  <2> QED BY <2>3, <2>4, <2>5, <2>7
<1>7. MapFold(f, t)
  <2>1. \A s \in SUBSET (1..n) : s # {} =>
          f[s] = MapStep(t, f[s \ {Max(s)}], Indices(t)[Max(s)])
    BY <1>5, <1>6 DEF FoldOf
  <2>2. f[{}] = Start0
    BY <1>5 DEF FoldOf
  <2>3. f = [s \in SUBSET (1..n) |->
               IF s = {} THEN Start0 ELSE MapStep(t, f[s \ {Max(s)}], Indices(t)[Max(s)])]
    BY <2>1, <2>2
  <2>4. DOMAIN Indices(t) = 1..n
    BY <1>0, Texts
  <2> QED BY <2>3, <2>4 DEF MapFold
<1>8. PICK v : v = (CHOOSE e : MapFold(e, t))
  OBVIOUS
<1>9. MapFold(v, t) /\ IndexMap(t) = v[1..n].map
  BY <1>0, <1>7, <1>8, IndexMapUnfolds, Texts
<1>10. /\ \A s \in SUBSET (1..n) :
            v[s] = IF s = {} THEN Start0 ELSE MapStep(t, v[s \ {Max(s)}], Indices(t)[Max(s)])
  <2>1. DOMAIN Indices(t) = 1..n
    BY <1>0, Texts
  <2> QED BY <1>9, <2>1 DEF MapFold
<1> DEFINE w == [k \in 0..n |-> v[1..k]]
<1>11. w[n].map = IndexMap(t) /\ w[0] = Start0
  <2>1. 1..0 = {} /\ n \in 0..n /\ 0 \in 0..n
    OBVIOUS
  <2> QED BY <1>9, <1>10, <2>1
<1>12. ASSUME NEW k \in 1..n PROVE w[k] = MapStep(t, w[k - 1], k)
  <2>1. v[1..k] = MapStep(t, v[(1..k) \ {Max(1..k)}], Indices(t)[Max(1..k)])
    BY <1>10, PrefixMax
  <2>2. Indices(t)[k] = k /\ k \in 0..n /\ k - 1 \in 0..n
    BY <1>0, Texts
  <2> QED BY <2>1, <2>2, PrefixMax
<1> HIDE DEF w
<1> QED BY <1>0, <1>11, <1>12

LEMMA EmptyList ==
  <<>> \in Seq(Nat) /\ Len(<<>>) = 0 /\ Lists(<<>>, 0, {})
<1>1. <<>> \in [1..0 -> {}]
  OBVIOUS
<1>2. <<>> \in Seq(Nat) /\ Len(<<>>) = 0
  OBVIOUS
<1> QED BY <1>1, <1>2 DEF Lists

\* What is visible is listed in order.
LEMMA VisibleLists ==
  ASSUME NEW t \in Seq(Char)
  PROVE  Visible(t) \in Seq(Nat) /\ Lists(Visible(t), Len(Visible(t)), Seen(t))
<1>0. PICK n \in Nat : n = Len(t)
  BY Texts
<1>1. PICK f : /\ f[0] = <<>> /\ f[n] = Visible(t)
               /\ \A k \in 1..n : f[k] = SeeStep(t, f[k - 1], k)
  BY <1>0, VisibleSteps
<1> DEFINE S(k) == {i \in 1..k : t[i] \notin Space}
           N == {k \in Nat : k <= n => f[k] \in Seq(Nat) /\ Lists(f[k], Len(f[k]), S(k))}
<1>2. 0 \in N
  <2>1. S(0) = {}
    OBVIOUS
  <2> QED BY <1>1, <2>1, EmptyList
<1>3. ASSUME NEW k \in Nat, k \in N PROVE k + 1 \in N
  <2>1. SUFFICES ASSUME k + 1 <= n
                 PROVE  f[k + 1] \in Seq(Nat) /\ Lists(f[k + 1], Len(f[k + 1]), S(k + 1))
    OBVIOUS
  <2>2. f[k] \in Seq(Nat) /\ Lists(f[k], Len(f[k]), S(k))
    BY <1>3, <2>1
  <2>3. f[k + 1] = IF t[k + 1] \in Space THEN f[k] ELSE Append(f[k], k + 1)
    <3>1. k + 1 \in 1..n /\ (k + 1) - 1 = k
      BY <2>1
    <3> QED BY <1>1, <3>1 DEF SeeStep
  <2>4. S(k) \in SUBSET Nat /\ \A y \in S(k) : y < k + 1
    OBVIOUS
  <2>5. CASE t[k + 1] \in Space
    <3>1. S(k + 1) = S(k)
      BY <2>5
    <3> QED BY <2>2, <2>3, <2>5, <3>1
  <2>6. CASE t[k + 1] \notin Space
    <3>1. S(k + 1) = S(k) \cup {k + 1}
      BY <2>6
    <3>2. f[k + 1] = Append(f[k], k + 1)
      BY <2>3, <2>6
    <3> HIDE DEF S
    <3>3. /\ Append(f[k], k + 1) \in Seq(Nat) /\ Len(Append(f[k], k + 1)) = Len(f[k]) + 1
          /\ Lists(Append(f[k], k + 1), Len(f[k]) + 1, S(k) \cup {k + 1})
      BY <2>2, <2>4, ListGrows
    <3> QED BY <3>1, <3>2, <3>3
  <2> QED BY <2>5, <2>6
<1>4. n \in N
  <2> HIDE DEF N
  <2> QED BY <1>2, <1>3, SetInduction
<1>5. S(n) = Seen(t)
  BY <1>0, Texts DEF Seen
<1> HIDE DEF S
<1> QED BY <1>1, <1>4, <1>5

-----------------------------------------------------------------------------
\* What is kept of the first k characters, and the space that is pending there.
KeptTo(t, k) ==
  {i \in 1..k : \/ t[i] \notin Space
                \/ Follows(t, i) /\ \E j \in 1..k : j > i /\ t[j] \notin Space}

Trailing(t, k, x) == x \in 2..k /\ Follows(t, x) /\ \A j \in x..k : t[j] \in Space

Upright(t, k, map) ==
  \/ k >= 1 /\ t[k] \notin Space
  \/ map = <<>> /\ \A j \in 1..k : t[j] \in Space

Mapped(t, k, d) ==
  /\ d \in [map : Seq(Nat), pending : Nat]
  /\ Lists(d.map, Len(d.map), KeptTo(t, k))
  /\ d.pending # 0 => Trailing(t, k, d.pending)
  /\ d.pending = 0 => Upright(t, k, d.map)

LEMMA KeptToBounds ==
  ASSUME NEW t, NEW k \in Nat
  PROVE  KeptTo(t, k) \in SUBSET Nat /\ \A y \in KeptTo(t, k) : y < k + 1
BY DEF KeptTo

LEMMA MappedSpace ==
  ASSUME NEW t, NEW k \in Nat, NEW d, Mapped(t, k, d), t[k + 1] \in Space
  PROVE  Mapped(t, k + 1, MapStep(t, d, k + 1))
<1>1. KeptTo(t, k + 1) = KeptTo(t, k)
  <2>1. ASSUME NEW i \in 1 .. k + 1, t[i] \notin Space PROVE i \in 1..k
    BY <2>1
  <2>2. ASSUME NEW i \in 1 .. k + 1, NEW j \in 1 .. k + 1, j > i, t[j] \notin Space
        PROVE  i \in 1..k /\ j \in 1..k
    BY <2>2
  <2>3. \A i \in 1..k : i \in 1 .. k + 1
    OBVIOUS
  <2> QED BY <2>1, <2>2, <2>3 DEF KeptTo
<1>2. /\ d \in [map : Seq(Nat), pending : Nat]
      /\ Lists(d.map, Len(d.map), KeptTo(t, k + 1))
  BY <1>1 DEF Mapped
<1>3. CASE d.pending # 0
  <2>1. Trailing(t, k + 1, d.pending)
    <3>1. Trailing(t, k, d.pending)
      BY <1>3 DEF Mapped
    <3> QED BY <3>1 DEF Trailing
  <2>2. MapStep(t, d, k + 1) = d
    BY <1>3 DEF MapStep
  <2> QED BY <1>2, <1>3, <2>1, <2>2 DEF Mapped
<1>4. CASE d.pending = 0 /\ d.map = <<>>
  <2>1. ASSUME NEW j \in 1..k PROVE t[j] \in Space
    <3>1. SUFFICES ASSUME t[j] \notin Space PROVE FALSE
      OBVIOUS
    <3>2. j \in KeptTo(t, k)
      BY <3>1 DEF KeptTo
    <3>3. Lists(<<>>, 0, KeptTo(t, k))
      BY <1>4, EmptyList DEF Mapped
    <3> QED BY <3>2, <3>3 DEF Lists
  <2>2. Upright(t, k + 1, d.map)
    BY <1>4, <2>1 DEF Upright
  <2>3. MapStep(t, d, k + 1) = d
    BY <1>4 DEF MapStep
  <2> QED BY <1>2, <1>4, <2>2, <2>3 DEF Mapped
<1>5. CASE d.pending = 0 /\ d.map # <<>>
  <2>1. k >= 1 /\ t[k] \notin Space
    BY <1>5 DEF Mapped, Upright
  <2>2. Trailing(t, k + 1, k + 1)
    <3>1. (k + 1) - 1 = k /\ k + 1 > 1 /\ k + 1 \in 2 .. k + 1
      BY <2>1
    <3>2. \A j \in (k + 1) .. (k + 1) : j = k + 1
      OBVIOUS
    <3> QED BY <2>1, <3>1, <3>2 DEF Trailing, Follows
  <2>3. PICK e : e = MapStep(t, d, k + 1)
    OBVIOUS
  <2>4. e = [d EXCEPT !.pending = k + 1]
    BY <1>5, <2>3 DEF MapStep
  <2>5. e \in [map : Seq(Nat), pending : Nat] /\ e.map = d.map /\ e.pending = k + 1
    BY <1>2, <2>4
  <2>6. Mapped(t, k + 1, e)
    BY <1>2, <2>2, <2>5 DEF Mapped
  <2> QED BY <2>3, <2>6
<1> QED BY <1>2, <1>3, <1>4, <1>5

LEMMA MappedVisible ==
  ASSUME NEW t, NEW k \in Nat, NEW d, Mapped(t, k, d), t[k + 1] \notin Space
  PROVE  Mapped(t, k + 1, MapStep(t, d, k + 1))
<1> DEFINE K == KeptTo(t, k)
<1>1. PICK m \in Seq(Nat), x \in Nat :
        /\ d.map = m /\ d.pending = x /\ Lists(m, Len(m), K)
        /\ x # 0 => Trailing(t, k, x)
        /\ x = 0 => Upright(t, k, m)
  BY DEF Mapped
<1>2. PICK e : e = MapStep(t, d, k + 1)
  OBVIOUS
<1>3. Upright(t, k + 1, e.map)
  BY DEF Upright
<1>4. KeptTo(t, k + 1) = K \cup {k + 1} \cup
        {i \in 1..k : t[i] \in Space /\ Follows(t, i) /\ \A j \in i..k : t[j] \in Space}
  <2>1. ASSUME NEW i \in KeptTo(t, k + 1), i \notin K, i # k + 1
        PROVE  i \in 1..k /\ t[i] \in Space /\ Follows(t, i) /\ \A j \in i..k : t[j] \in Space
    <3>1. i \in 1..k
      BY <2>1 DEF KeptTo
    <3>2. t[i] \in Space /\ Follows(t, i)
      BY <2>1, <3>1 DEF KeptTo
    <3>3. ASSUME NEW j \in i..k PROVE t[j] \in Space
      <4>1. j \in 1..k /\ (j = i \/ j > i)
        BY <3>1
      <4> QED BY <2>1, <3>1, <3>2, <4>1 DEF KeptTo
    <3> QED BY <3>1, <3>2, <3>3
  <2>2. K \subseteq KeptTo(t, k + 1)
    <3>1. \A i \in 1..k : i \in 1 .. k + 1
      OBVIOUS
    <3> QED BY <3>1 DEF KeptTo
  <2>3. k + 1 \in KeptTo(t, k + 1)
    BY DEF KeptTo
  <2>4. ASSUME NEW i \in 1..k, Follows(t, i) PROVE i \in KeptTo(t, k + 1)
    <3>1. i \in 1 .. k + 1 /\ k + 1 \in 1 .. k + 1 /\ k + 1 > i
      OBVIOUS
    <3> QED BY <2>4, <3>1 DEF KeptTo
  <2> HIDE DEF K
  <2> QED BY <2>1, <2>2, <2>3, <2>4
<1>5. K \in SUBSET Nat /\ \A y \in K : y < k + 1
  BY KeptToBounds
<1>6. CASE x = 0
  <2>1. KeptTo(t, k + 1) = K \cup {k + 1}
    <3>1. SUFFICES ASSUME NEW i \in 1..k, Follows(t, i), \A j \in i..k : t[j] \in Space
                   PROVE  FALSE
      BY <1>4
    <3>2. k \in i..k /\ i - 1 \in 1..k /\ k >= 1
      BY <3>1 DEF Follows
    <3> QED BY <1>1, <1>6, <3>1, <3>2 DEF Upright, Follows
  <2>2. e = [map |-> Append(m, k + 1), pending |-> 0]
    BY <1>1, <1>2, <1>6 DEF MapStep
  <2> HIDE DEF K
  <2>3. /\ Append(m, k + 1) \in Seq(Nat) /\ Len(Append(m, k + 1)) = Len(m) + 1
        /\ Lists(Append(m, k + 1), Len(m) + 1, K \cup {k + 1})
    BY <1>1, <1>5, ListGrows
  <2>4. e \in [map : Seq(Nat), pending : Nat] /\ e.pending = 0 /\ e.map = Append(m, k + 1)
    BY <2>2, <2>3
  <2>5. Mapped(t, k + 1, e)
    BY <1>3, <2>1, <2>3, <2>4 DEF Mapped
  <2> QED BY <1>2, <2>5
<1>7. CASE x # 0
  <2>1. Trailing(t, k, x)
    BY <1>1, <1>7
  <2>2. x \in 2..k /\ t[x - 1] \notin Space /\ \A j \in x..k : t[j] \in Space
    BY <2>1 DEF Trailing, Follows
  <2>3. \A y \in K : y < x
    <3>1. SUFFICES ASSUME NEW y \in K, y >= x PROVE FALSE
      BY <1>5, <2>2
    <3>2. y \in x..k
      BY <3>1, <2>2 DEF KeptTo
    <3>3. t[y] \in Space
      BY <2>2, <3>2
    <3>4. PICK j \in 1..k : j > y /\ t[j] \notin Space
      BY <3>3 DEF KeptTo
    <3>5. j \in x..k
      BY <2>2, <3>2, <3>4
    <3> QED BY <2>2, <3>4, <3>5
  <2>4. KeptTo(t, k + 1) = (K \cup {x}) \cup {k + 1}
    <3>1. ASSUME NEW i \in 1..k, Follows(t, i), \A j \in i..k : t[j] \in Space PROVE i = x
      <4>1. i >= x
        <5>1. SUFFICES ASSUME i < x PROVE FALSE
          BY <2>2
        <5>2. x - 1 \in i..k
          BY <2>2, <5>1
        <5> QED BY <2>2, <3>1, <5>2
      <4>2. ~(i > x)
        <5>1. SUFFICES ASSUME i > x PROVE FALSE
          OBVIOUS
        <5>2. i - 1 \in x..k
          BY <2>2, <5>1
        <5> QED BY <2>2, <3>1, <5>2 DEF Follows
      <4> QED BY <2>2, <4>1, <4>2
    <3>2. x \in 1..k /\ t[x] \in Space /\ Follows(t, x)
      <4>1. x \in 1..k /\ x \in x..k
        BY <2>2
      <4> QED BY <2>1, <2>2, <4>1 DEF Trailing
    <3> HIDE DEF K
    <3> QED BY <1>4, <2>2, <3>1, <3>2
  <2>5. e = [map |-> m \o <<x, k + 1>>, pending |-> 0]
    BY <1>1, <1>2, <1>7 DEF MapStep
  <2> HIDE DEF K
  <2>6. PICK c : c = Append(m, x)
    OBVIOUS
  <2>7. c \in Seq(Nat) /\ Len(c) = Len(m) + 1 /\ Lists(c, Len(c), K \cup {x})
    BY <1>1, <1>5, <2>3, <2>6, ListGrows
  <2>8. K \cup {x} \in SUBSET Nat /\ \A y \in K \cup {x} : y < k + 1
    BY <1>5, <2>2
  <2>9. /\ Append(c, k + 1) \in Seq(Nat) /\ Len(Append(c, k + 1)) = Len(c) + 1
        /\ Lists(Append(c, k + 1), Len(c) + 1, (K \cup {x}) \cup {k + 1})
    BY <2>7, <2>8, ListGrows
  <2>10. Append(c, k + 1) = m \o <<x, k + 1>>
    BY <2>6
  <2>11. e \in [map : Seq(Nat), pending : Nat] /\ e.pending = 0 /\ e.map = Append(c, k + 1)
    BY <2>5, <2>9, <2>10
  <2>12. Mapped(t, k + 1, e)
    BY <1>3, <2>4, <2>9, <2>11 DEF Mapped
  <2> QED BY <1>2, <2>12
<1> QED BY <1>6, <1>7

\* The index map lists what is kept in order.
LEMMA IndexMapLists ==
  ASSUME NEW t \in Seq(Char)
  PROVE  IndexMap(t) \in Seq(Nat) /\ Lists(IndexMap(t), Len(IndexMap(t)), Kept(t))
<1>0. PICK n \in Nat : n = Len(t)
  BY Texts
<1>1. PICK f : /\ f[0] = Start0 /\ f[n].map = IndexMap(t)
               /\ \A k \in 1..n : f[k] = MapStep(t, f[k - 1], k)
  BY <1>0, IndexMapSteps
<1> DEFINE N == {k \in Nat : k <= n => Mapped(t, k, f[k])}
<1>2. 0 \in N
  <2>1. KeptTo(t, 0) = {} /\ 1..0 = {}
    BY DEF KeptTo
  <2>2. /\ Start0 \in [map : Seq(Nat), pending : Nat]
        /\ Start0.map = <<>> /\ Start0.pending = 0
    BY DEF Start0
  <2>3. Mapped(t, 0, Start0)
    BY <2>1, <2>2, EmptyList DEF Mapped, Upright
  <2> QED BY <1>1, <2>3
<1>3. ASSUME NEW k \in Nat, k \in N PROVE k + 1 \in N
  <2>1. SUFFICES ASSUME k + 1 <= n PROVE Mapped(t, k + 1, f[k + 1])
    OBVIOUS
  <2>2. Mapped(t, k, f[k])
    BY <1>3, <2>1
  <2>3. f[k + 1] = MapStep(t, f[k], k + 1)
    <3>1. k + 1 \in 1..n /\ (k + 1) - 1 = k
      BY <2>1
    <3> QED BY <1>1, <3>1
  <2> QED BY <2>2, <2>3, MappedSpace, MappedVisible
<1>4. n \in N
  <2> HIDE DEF N
  <2> QED BY <1>2, <1>3, SetInduction
<1>5. KeptTo(t, n) = Kept(t)
  <2>1. DOMAIN t = 1..n
    BY <1>0, Texts
  <2> QED BY <2>1 DEF KeptTo, Kept, Seen
<1>6. Mapped(t, n, f[n])
  BY <1>4
<1> QED BY <1>1, <1>5, <1>6 DEF Mapped

-----------------------------------------------------------------------------
\* The same but for white space: an equivalence.
LEMMA SameIs ==
  ASSUME NEW a \in Seq(Char), NEW b \in Seq(Char)
  PROVE  LET n == Len(Visible(a))  x == Visible(a)  y == Visible(b) IN
         SameButForSpace(a, b) <=>
           /\ n = Len(y)
           /\ \A k \in 1..n : a[x[k]] = b[y[k]]
           /\ \A k \in 2..n : x[k] = x[k - 1] + 1 <=> y[k] = y[k - 1] + 1
<1>1. Visible(a) \in Seq(Nat) /\ DOMAIN Visible(a) = 1..Len(Visible(a))
  BY VisibleLists, LenProperties
<1> QED BY <1>1 DEF SameButForSpace

LEMMA SameTurns ==
  ASSUME NEW a \in Seq(Char), NEW b \in Seq(Char), SameButForSpace(a, b)
  PROVE  SameButForSpace(b, a)
BY SameIs

LEMMA SameGoesOn ==
  ASSUME NEW a \in Seq(Char), NEW b \in Seq(Char), NEW c \in Seq(Char),
         SameButForSpace(a, b), SameButForSpace(b, c)
  PROVE  SameButForSpace(a, c)
<1>1. PICK n \in Nat : n = Len(Visible(a))
  BY VisibleLists, LenProperties
<1>2. /\ n = Len(Visible(b))
      /\ \A k \in 1..n : a[Visible(a)[k]] = b[Visible(b)[k]]
      /\ \A k \in 2..n : Visible(a)[k] = Visible(a)[k - 1] + 1 <=> Visible(b)[k] = Visible(b)[k - 1] + 1
  BY <1>1, SameIs
<1>3. /\ n = Len(Visible(c))
      /\ \A k \in 1..n : b[Visible(b)[k]] = c[Visible(c)[k]]
      /\ \A k \in 2..n : Visible(b)[k] = Visible(b)[k - 1] + 1 <=> Visible(c)[k] = Visible(c)[k - 1] + 1
  BY <1>2, SameIs
<1> QED BY <1>1, <1>2, <1>3, SameIs

-----------------------------------------------------------------------------
\* White space is one blank, and between two visible characters.
Tidy(c) ==
  \A i \in DOMAIN c : c[i] \in Space =>
    /\ c[i] = Blank /\ i > 1 /\ i < Len(c)
    /\ c[i - 1] \notin Space /\ c[i + 1] \notin Space

\* Where the visible characters of a tidy text stand.
LEMMA TidySteps ==
  ASSUME NEW c \in Seq(Char), Tidy(c)
  PROVE  LET n == Len(Visible(c))  x == Visible(c) IN
         /\ n = 0 => c = <<>>
         /\ n # 0 => x[1] = 1 /\ x[n] = Len(c)
         /\ \A k \in 1 .. n - 1 : x[k] \in Nat /\ (x[k + 1] = x[k] + 1 \/ x[k + 1] = x[k] + 2)
<1>0. PICK m \in Nat : m = Len(c)
  BY Texts
<1>00. PICK x, n : x = Visible(c) /\ n = Len(x)
  OBVIOUS
<1>1. DOMAIN c = 1..m /\ Seen(c) \in SUBSET Nat
  BY <1>0, Texts
<1>2. Lists(x, n, Seen(c))
  BY <1>00, VisibleLists
<1>3. /\ n \in Nat /\ \A k \in 1..n : x[k] \in Seen(c)
      /\ \A i, j \in 1..n : i < j => x[i] < x[j]
  BY <1>2 DEF Lists
<1>4. /\ \A k \in 1 .. n - 1 : \A y \in Seen(c) : ~(x[k] < y /\ y < x[k + 1])
      /\ \A y \in Seen(c) : n >= 1 /\ x[1] <= y /\ y <= x[n]
  BY <1>1, <1>2, ListGaps
<1>5. \A i \in 1..m : i \in Seen(c) \/ (c[i] \in Space /\ i > 1 /\ i < m /\ i - 1 \in Seen(c) /\ i + 1 \in Seen(c))
  <2>1. SUFFICES ASSUME NEW i \in 1..m, i \notin Seen(c)
                 PROVE  c[i] \in Space /\ i > 1 /\ i < m /\ i - 1 \in Seen(c) /\ i + 1 \in Seen(c)
    OBVIOUS
  <2>2. c[i] \in Space
    BY <1>1, <2>1 DEF Seen
  <2>3. i > 1 /\ i < m /\ c[i - 1] \notin Space /\ c[i + 1] \notin Space
    BY <1>0, <1>1, <2>2 DEF Tidy
  <2>4. i - 1 \in 1..m /\ i + 1 \in 1..m
    BY <2>3
  <2> QED BY <1>1, <2>2, <2>3, <2>4 DEF Seen
<1>6. Seen(c) \subseteq 1..m
  BY <1>1 DEF Seen
<1>7. m # 0 => 1 \in Seen(c) /\ m \in Seen(c)
  <2>1. m # 0 => 1 \in 1..m /\ m \in 1..m
    OBVIOUS
  <2> QED BY <1>5, <2>1
<1>8. n = 0 => c = <<>>
  <2>1. n = 0 => m = 0
    BY <1>4, <1>7
  <2> QED BY <1>0, <2>1
<1>9. n # 0 => x[1] = 1 /\ x[n] = m
  <2>1. SUFFICES ASSUME n # 0 PROVE x[1] = 1 /\ x[n] = m
    OBVIOUS
  <2>2. x[1] \in 1..m /\ x[n] \in 1..m
    <3>1. 1 \in 1..n /\ n \in 1..n
      BY <1>3, <2>1
    <3> QED BY <1>3, <1>6, <3>1
  <2>3. 1 \in Seen(c) /\ m \in Seen(c)
    BY <1>7, <2>2
  <2> QED BY <1>4, <2>2, <2>3
<1>10. ASSUME NEW k \in 1 .. n - 1
       PROVE  x[k] \in Nat /\ (x[k + 1] = x[k] + 1 \/ x[k + 1] = x[k] + 2)
  <2>1. k \in 1..n /\ k + 1 \in 1..n /\ k < k + 1
    BY <1>3
  <2>2. x[k] \in 1..m /\ x[k + 1] \in 1..m /\ x[k] < x[k + 1]
    BY <1>3, <1>6, <2>1
  <2>3. PICK a \in 1..m, b \in 1..m : a = x[k] /\ b = x[k + 1]
    BY <2>2
  <2>4. a < b /\ \A y \in Seen(c) : ~(a < y /\ y < b)
    BY <1>4, <2>2, <2>3
  <2>5. a + 1 \in 1..m
    BY <2>4
  <2>6. CASE a + 1 \in Seen(c)
    <3>1. b = a + 1
      BY <2>4, <2>5, <2>6
    <3> QED BY <2>3, <3>1
  <2>7. CASE a + 1 \notin Seen(c)
    <3>1. (a + 1) + 1 \in Seen(c)
      BY <1>5, <2>5, <2>7
    <3>2. b # a + 1
      <4>1. x[k + 1] \in Seen(c)
        BY <1>3, <2>1
      <4> QED BY <2>3, <2>7, <4>1
    <3>3. b = a + 2
      <4>1. ~((a + 1) + 1 < b)
        BY <2>4, <3>1
      <4> QED BY <2>4, <3>2, <4>1
    <3> QED BY <2>3, <3>3
  <2> QED BY <2>6, <2>7
<1> QED BY <1>0, <1>00, <1>8, <1>9, <1>10

\* Tidy texts that are the same but for white space are the same.
LEMMA TidySame ==
  ASSUME NEW a \in Seq(Char), NEW b \in Seq(Char), Tidy(a), Tidy(b), SameButForSpace(a, b)
  PROVE  a = b
<1>0. PICK x, y, n : x = Visible(a) /\ y = Visible(b) /\ n = Len(x) /\ n \in Nat
  BY VisibleLists, LenProperties
<1>1. /\ n = Len(y)
      /\ \A k \in 1..n : a[x[k]] = b[y[k]]
      /\ \A k \in 2..n : x[k] = x[k - 1] + 1 <=> y[k] = y[k - 1] + 1
  BY <1>0, SameIs
<1>2. /\ n = 0 => a = <<>>
      /\ n # 0 => x[1] = 1 /\ x[n] = Len(a)
      /\ \A k \in 1 .. n - 1 : x[k] \in Nat /\ (x[k + 1] = x[k] + 1 \/ x[k + 1] = x[k] + 2)
  BY <1>0, TidySteps
<1>3. /\ n = 0 => b = <<>>
      /\ n # 0 => y[1] = 1 /\ y[n] = Len(b)
      /\ \A k \in 1 .. n - 1 : y[k] \in Nat /\ (y[k + 1] = y[k] + 1 \/ y[k + 1] = y[k] + 2)
  BY <1>0, <1>1, TidySteps
<1> DEFINE N == {k \in Nat : k \in 1..n => x[k] = y[k]}
<1>4. 0 \in N
  OBVIOUS
<1>5. ASSUME NEW k \in Nat, k \in N PROVE k + 1 \in N
  <2>1. SUFFICES ASSUME k + 1 \in 1..n PROVE x[k + 1] = y[k + 1]
    OBVIOUS
  <2>2. CASE k = 0
    BY <1>2, <1>3, <2>1, <2>2
  <2>3. CASE k # 0
    <3>1. k \in 1 .. n - 1 /\ k \in 1..n /\ k + 1 \in 2..n /\ (k + 1) - 1 = k
      BY <1>0, <2>1, <2>3
    <3>2. x[k] = y[k]
      BY <1>5, <3>1
    <3>3. x[k + 1] = x[k] + 1 <=> y[k + 1] = y[k] + 1
      BY <1>1, <3>1
    <3> HIDE DEF N
    <3> QED BY <1>2, <1>3, <3>1, <3>2, <3>3
  <2> QED BY <2>2, <2>3
<1>6. \A k \in 1..n : x[k] = y[k]
  <2>1. Nat \subseteq N
    <3> HIDE DEF N
    <3> QED BY <1>4, <1>5, SetInduction
  <2> QED BY <2>1
<1>7. CASE n = 0
  BY <1>2, <1>3, <1>7
<1>8. CASE n # 0
  <2>1. PICK m \in Nat : m = Len(a) /\ m = Len(b)
    <3>1. n \in 1..n
      BY <1>0, <1>8
    <3> QED BY <1>2, <1>3, <1>6, <1>8, <3>1, Texts
  <2>2. DOMAIN a = 1..m /\ DOMAIN b = 1..m
    BY <2>1, Texts
  <2>3. /\ \A i \in Seen(a) : \E k \in 1..n : x[k] = i
        /\ \A i \in Seen(b) : \E k \in 1..n : y[k] = i
        /\ \A k \in 1..n : x[k] \in Seen(a) /\ y[k] \in Seen(b)
    <3>1. Lists(x, n, Seen(a)) /\ Lists(y, n, Seen(b))
      BY <1>0, <1>1, VisibleLists
    <3> QED BY <3>1 DEF Lists
  <2>4. ASSUME NEW i \in 1..m PROVE a[i] = b[i]
    <3>1. CASE i \in Seen(a)
      <4>1. PICK k \in 1..n : x[k] = i
        BY <2>3, <3>1
      <4> QED BY <1>1, <1>6, <4>1
    <3>2. CASE i \notin Seen(a)
      <4>1. i \notin Seen(b)
        BY <1>6, <2>3, <3>2
      <4>2. a[i] \in Space /\ b[i] \in Space
        BY <2>2, <3>2, <4>1 DEF Seen
      <4>3. a[i] = Blank /\ b[i] = Blank
        BY <2>2, <4>2 DEF Tidy
      <4> QED BY <4>3
    <3> QED BY <3>1, <3>2
  <2>5. a \in [1..m -> Char] /\ b \in [1..m -> Char]
    BY <2>1, LenProperties
  <2> QED BY <2>4, <2>5
<1> QED BY <1>7, <1>8

-----------------------------------------------------------------------------
\* What the collapsed text holds, character by character.
LEMMA CollapsedIs ==
  ASSUME NEW t \in Seq(Char)
  PROVE  LET m == IndexMap(t)  n == Len(IndexMap(t)) IN
         /\ Lists(m, n, Kept(t)) /\ n \in Nat
         /\ Collapsed(t) \in [1..n -> Char] /\ Collapsed(t) \in Seq(Char)
         /\ Len(Collapsed(t)) = n
         /\ \A k \in 1..n :
              /\ m[k] \in DOMAIN t
              /\ t[m[k]] \in Space => Collapsed(t)[k] = Blank
              /\ t[m[k]] \notin Space => Collapsed(t)[k] = t[m[k]]
              /\ Collapsed(t)[k] \in Space <=> t[m[k]] \in Space
<1>1. PICK m, n : m = IndexMap(t) /\ n = Len(m)
  OBVIOUS
<1>2. Lists(m, n, Kept(t)) /\ n \in Nat /\ DOMAIN m = 1..n
  BY <1>1, IndexMapLists, LenProperties
<1>3. \A k \in 1..n : m[k] \in DOMAIN t /\ t[m[k]] \in Char
  <2>1. \A k \in 1..n : m[k] \in Kept(t)
    BY <1>2 DEF Lists
  <2> QED BY <2>1, Texts DEF Kept
<1>4. Collapsed(t) = [k \in 1..n |-> IF t[m[k]] \in Space THEN Blank ELSE t[m[k]]]
  BY <1>1, <1>2 DEF Collapsed
<1>5. Blank \in Space /\ Blank \in Char
  BY EvidenceAssumption
<1>6. Collapsed(t) \in [1..n -> Char]
  BY <1>3, <1>4, <1>5
<1>7. Collapsed(t) \in Seq(Char) /\ Len(Collapsed(t)) = n
  BY <1>2, <1>6
<1>8. \A k \in 1..n :
        /\ t[m[k]] \in Space => Collapsed(t)[k] = Blank
        /\ t[m[k]] \notin Space => Collapsed(t)[k] = t[m[k]]
  BY <1>4
<1> QED BY <1>1, <1>2, <1>3, <1>5, <1>6, <1>7, <1>8

\* Between two visible characters that are not adjacent, one space is kept, the
\* first; two kept places that follow one another are adjacent, or the first is
\* a space.
LEMMA KeptNeighbours ==
  ASSUME NEW t \in Seq(Char), NEW m, NEW n, Lists(m, n, Kept(t))
  PROVE  /\ n \in Nat /\ \A k \in 1..n : m[k] \in Nat /\ m[k] \in Kept(t)
         /\ \A k \in 1 .. n - 1 : t[m[k]] \notin Space => m[k + 1] = m[k] + 1
         /\ \A k \in 1..n : t[m[k]] \in Space =>
              /\ k > 1 /\ m[k - 1] = m[k] - 1 /\ t[m[k - 1]] \notin Space
              /\ k < n /\ t[m[k + 1]] \notin Space
<1>0. PICK l \in Nat : l = Len(t)
  BY Texts
<1>1. DOMAIN t = 1..l /\ Kept(t) \in SUBSET Nat
  BY <1>0, Texts
<1>2. n \in Nat /\ \A k \in 1..n : m[k] \in Nat /\ m[k] \in Kept(t)
  BY <1>1 DEF Lists
<1>3. /\ \A k \in 1 .. n - 1 : \A y \in Kept(t) : ~(m[k] < y /\ y < m[k + 1])
      /\ \A y \in Kept(t) : n >= 1 /\ m[1] <= y /\ y <= m[n]
      /\ \A i, j \in 1..n : m[i] < m[j] => i < j
  BY <1>1, ListGaps
<1>4. /\ \A i, j \in 1..n : i < j => m[i] < m[j]
      /\ \A y \in Kept(t) : \E i \in 1..n : m[i] = y
  BY DEF Lists
<1>5. Kept(t) \subseteq 1..l /\ \A i \in 1..l : t[i] \notin Space => i \in Kept(t)
  BY <1>1 DEF Kept
<1>6. \A i \in Kept(t) : t[i] \in Space =>
        /\ i > 1 /\ i - 1 \in 1..l /\ t[i - 1] \notin Space
        /\ \E j \in 1..l : j > i /\ t[j] \notin Space
  BY <1>1 DEF Kept, Follows, Seen
<1>7. ASSUME NEW k \in 1 .. n - 1, t[m[k]] \notin Space PROVE m[k + 1] = m[k] + 1
  <2>1. k \in 1..n /\ k + 1 \in 1..n /\ k < k + 1
    BY <1>2
  <2>2. PICK a \in 1..l, b \in 1..l : a = m[k] /\ b = m[k + 1] /\ a < b
    BY <1>2, <1>4, <1>5, <2>1
  <2>3. a + 1 \in 1..l
    BY <2>2
  <2>4. a + 1 \in Kept(t)
    <3>1. CASE t[a + 1] \notin Space
      BY <1>5, <2>3, <3>1
    <3>2. CASE t[a + 1] \in Space
      <4>1. b # a + 1 => t[b] \notin Space
        <5>1. SUFFICES ASSUME b # a + 1, t[b] \in Space PROVE FALSE
          OBVIOUS
        <5>2. b \in Kept(t)
          BY <1>2, <2>1, <2>2
        <5>3. b - 1 \in Kept(t)
          BY <1>5, <1>6, <5>1, <5>2
        <5>4. a < b - 1 /\ b - 1 < b
          BY <2>2, <5>1
        <5> QED BY <1>3, <2>2, <5>3, <5>4
      <4>2. CASE b = a + 1
        BY <1>2, <2>1, <2>2, <4>2
      <4>3. CASE b # a + 1
        <5>1. b > a + 1 /\ b \in Seen(t)
          BY <1>1, <2>2, <4>1, <4>3 DEF Seen
        <5>2. a + 1 > 1 /\ (a + 1) - 1 = a /\ t[a] \notin Space
          BY <1>7, <2>2
        <5> QED BY <1>1, <2>3, <5>1, <5>2 DEF Kept, Follows
      <4> QED BY <4>2, <4>3
    <3> QED BY <3>1, <3>2
  <2>5. ~(a < a + 1 /\ a + 1 < b)
    BY <1>3, <2>2, <2>4
  <2> QED BY <2>2, <2>5
<1>8. ASSUME NEW k \in 1..n, t[m[k]] \in Space
      PROVE  /\ k > 1 /\ m[k - 1] = m[k] - 1 /\ t[m[k - 1]] \notin Space
             /\ k < n /\ t[m[k + 1]] \notin Space
  <2>1. PICK a \in 1..l : a = m[k]
    BY <1>2, <1>5
  <2>2. a > 1 /\ a - 1 \in Kept(t) /\ t[a - 1] \notin Space
    BY <1>2, <1>5, <1>6, <1>8, <2>1
  <2>3. PICK j \in 1..n : m[j] = a - 1
    BY <1>4, <2>2
  <2>4. j < k
    <3>1. m[j] < m[k]
      BY <2>1, <2>3
    <3> QED BY <1>3, <3>1
  <2>5. j = k - 1
    <3>1. SUFFICES ASSUME j < k - 1 PROVE FALSE
      BY <1>2, <2>4
    <3>2. k - 1 \in 1..n /\ m[j] < m[k - 1] /\ m[k - 1] < m[k]
      <4>1. k - 1 \in 1..n /\ k - 1 < k
        BY <1>2, <3>1
      <4> QED BY <1>4, <3>1, <4>1
    <3>3. m[k - 1] \in Nat
      BY <1>2, <3>2
    <3> QED BY <2>1, <2>3, <3>2, <3>3
  <2>6. PICK v \in 1..l : v > a /\ t[v] \notin Space
    BY <1>2, <1>6, <1>8, <2>1
  <2>7. PICK i \in 1..n : m[i] = v
    BY <1>4, <1>5, <2>6
  <2>8. k < i
    BY <1>3, <2>1, <2>6, <2>7
  <2>9. k < n /\ k \in 1 .. n - 1 /\ k + 1 \in 1..n /\ k < k + 1
    BY <1>2, <2>8
  <2>10. t[m[k + 1]] \notin Space
    <3>1. SUFFICES ASSUME t[m[k + 1]] \in Space PROVE FALSE
      OBVIOUS
    <3>2. PICK b \in 1..l : b = m[k + 1] /\ a < b
      BY <1>2, <1>4, <1>5, <2>1, <2>9
    <3>3. b - 1 \in Kept(t) /\ t[b - 1] \notin Space
      BY <1>2, <1>5, <1>6, <2>9, <3>1, <3>2
    <3>4. a # b - 1
      BY <1>8, <2>1, <3>3
    <3>5. a < b - 1 /\ b - 1 < b
      BY <3>2, <3>4
    <3> QED BY <1>3, <2>1, <2>9, <3>2, <3>3, <3>5
  <2> QED BY <2>1, <2>2, <2>3, <2>4, <2>5, <2>9, <2>10
<1> QED BY <1>2, <1>7, <1>8

LEMMA CollapsedTidy ==
  ASSUME NEW t \in Seq(Char)
  PROVE  Tidy(Collapsed(t))
<1>1. PICK m, n, c : m = IndexMap(t) /\ n = Len(m) /\ c = Collapsed(t)
  OBVIOUS
<1>2. /\ Lists(m, n, Kept(t)) /\ n \in Nat /\ c \in [1..n -> Char] /\ Len(c) = n
      /\ \A k \in 1..n :
           /\ t[m[k]] \in Space => c[k] = Blank
           /\ c[k] \in Space <=> t[m[k]] \in Space
  BY <1>1, CollapsedIs
<1>3. \A k \in 1..n : t[m[k]] \in Space =>
        k > 1 /\ t[m[k - 1]] \notin Space /\ k < n /\ t[m[k + 1]] \notin Space
  BY <1>2, KeptNeighbours
<1>4. SUFFICES ASSUME NEW i \in 1..n, c[i] \in Space
               PROVE  /\ c[i] = Blank /\ i > 1 /\ i < n
                      /\ c[i - 1] \notin Space /\ c[i + 1] \notin Space
  BY <1>1, <1>2 DEF Tidy
<1>5. i > 1 /\ t[m[i - 1]] \notin Space /\ i < n /\ t[m[i + 1]] \notin Space /\ c[i] = Blank
  BY <1>2, <1>3, <1>4
<1>6. i - 1 \in 1..n /\ i + 1 \in 1..n
  BY <1>2, <1>5
<1> QED BY <1>2, <1>5, <1>6

\* Collapsing changes white space only.
LEMMA CollapsedSame ==
  ASSUME NEW t \in Seq(Char)
  PROVE  SameButForSpace(Collapsed(t), t)
<1>1. PICK m, n, c : m = IndexMap(t) /\ n = Len(m) /\ c = Collapsed(t)
  OBVIOUS
<1>2. /\ Lists(m, n, Kept(t)) /\ n \in Nat /\ c \in [1..n -> Char] /\ c \in Seq(Char) /\ Len(c) = n
      /\ DOMAIN c = 1..n
      /\ \A k \in 1..n :
           /\ m[k] \in DOMAIN t
           /\ t[m[k]] \notin Space => c[k] = t[m[k]]
           /\ c[k] \in Space <=> t[m[k]] \in Space
  BY <1>1, CollapsedIs
<1>3. PICK z, r : z = Visible(c) /\ r = Len(z)
  OBVIOUS
<1>4. PICK y, s : y = Visible(t) /\ s = Len(y)
  OBVIOUS
<1>5. Lists(z, r, Seen(c)) /\ Lists(y, s, Seen(t))
  BY <1>2, <1>3, <1>4, VisibleLists
<1>6. /\ r \in Nat /\ \A k \in 1..r : z[k] \in 1..n /\ c[z[k]] \notin Space
      /\ \A i, j \in 1..r : i < j => z[i] < z[j]
      /\ \A x \in 1..n : c[x] \notin Space => \E i \in 1..r : z[i] = x
  BY <1>2, <1>5 DEF Lists, Seen
<1>7. /\ \A k \in 1..n : m[k] \in Nat /\ m[k] \in Kept(t)
      /\ \A i, j \in 1..n : i < j => m[i] < m[j]
      /\ \A x \in Kept(t) : \E i \in 1..n : m[i] = x
  BY <1>2, KeptNeighbours DEF Lists
<1> DEFINE u == [k \in 1..r |-> m[z[k]]]
<1>8. Lists(u, r, Seen(t))
  <2>1. \A k \in 1..r : u[k] \in Seen(t)
    BY <1>2, <1>6 DEF Seen
  <2>2. \A i, j \in 1..r : i < j => u[i] < u[j]
    BY <1>6, <1>7
  <2>3. \A x \in Seen(t) : \E i \in 1..r : u[i] = x
    <3>1. SUFFICES ASSUME NEW x \in Seen(t) PROVE \E i \in 1..r : u[i] = x
      OBVIOUS
    <3>2. x \in Kept(t) /\ t[x] \notin Space
      BY DEF Seen, Kept
    <3>3. PICK q \in 1..n : m[q] = x
      BY <1>7, <3>2
    <3>4. PICK i \in 1..r : z[i] = q
      BY <1>2, <1>6, <3>2, <3>3
    <3> QED BY <3>3, <3>4
  <2>4. u \in [1..r -> Seen(t)]
    BY <2>1
  <2> HIDE DEF u
  <2> QED BY <1>6, <2>2, <2>3, <2>4 DEF Lists
<1>9. r = s /\ \A k \in 1..r : y[k] = m[z[k]]
  <2>1. Seen(t) \in SUBSET Nat
    BY Texts
  <2>2. r = s /\ u = y
    <3> HIDE DEF u
    <3> QED BY <1>5, <1>8, <2>1, ListIsUnique
  <2> QED BY <2>2
<1> HIDE DEF u
<1>10. ASSUME NEW k \in 1..r PROVE c[z[k]] = t[y[k]]
  <2>1. PICK q \in 1..n : q = z[k] /\ c[q] \notin Space
    BY <1>6
  <2>2. c[q] = t[m[q]]
    BY <1>2, <2>1
  <2> QED BY <1>9, <2>1, <2>2
<1>11. ASSUME NEW k \in 2..r PROVE z[k] = z[k - 1] + 1 <=> y[k] = y[k - 1] + 1
  <2>1. k \in 1..r /\ k - 1 \in 1..r /\ k - 1 < k
    BY <1>6
  <2>2. PICK q \in 1..n, p \in 1..n : q = z[k - 1] /\ p = z[k] /\ q < p
    BY <1>6, <2>1
  <2>3. y[k] = m[p] /\ y[k - 1] = m[q] /\ t[m[q]] \notin Space
    BY <1>2, <1>6, <1>9, <2>1, <2>2
  <2>4. q \in 1 .. n - 1 /\ q + 1 \in 1..n
    BY <1>2, <2>2
  <2>5. m[q + 1] = m[q] + 1
    BY <1>2, <2>3, <2>4, KeptNeighbours
  <2>6. p # q + 1 => m[q + 1] < m[p]
    BY <1>7, <2>2, <2>4
  <2>7. m[q] \in Nat /\ m[p] \in Nat /\ m[q + 1] \in Nat
    BY <1>7, <2>4
  <2>8. p = q + 1 <=> m[p] = m[q] + 1
    <3>1. p = q + 1 => m[p] = m[q] + 1
      BY <2>5
    <3>2. p # q + 1 => m[p] # m[q] + 1
      BY <2>5, <2>6, <2>7
    <3> QED BY <3>1, <3>2
  <2> QED BY <2>2, <2>3, <2>8
<1>12. SameButForSpace(c, t)
  <2>1. /\ Len(Visible(c)) = Len(Visible(t))
        /\ \A k \in 1..Len(Visible(c)) : c[Visible(c)[k]] = t[Visible(t)[k]]
        /\ \A k \in 2..Len(Visible(c)) :
             Visible(c)[k] = Visible(c)[k - 1] + 1 <=> Visible(t)[k] = Visible(t)[k - 1] + 1
    BY <1>3, <1>4, <1>9, <1>10, <1>11
  <2>2. c \in Seq(Char)
    BY <1>2
  <2> QED BY <2>1, <2>2, SameIs
<1> QED BY <1>1, <1>12

\* Two texts are the same but for white space exactly if they collapse alike.
LEMMA SameIffCollapsed ==
  ASSUME NEW a \in Seq(Char), NEW b \in Seq(Char)
  PROVE  SameButForSpace(a, b) <=> Collapsed(a) = Collapsed(b)
<1>1. Collapsed(a) \in Seq(Char) /\ Collapsed(b) \in Seq(Char)
  BY CollapsedIs
<1>2. /\ SameButForSpace(Collapsed(a), a) /\ SameButForSpace(a, Collapsed(a))
      /\ SameButForSpace(Collapsed(b), b) /\ SameButForSpace(b, Collapsed(b))
  BY <1>1, CollapsedSame, SameTurns
<1>3. ASSUME Collapsed(a) = Collapsed(b) PROVE SameButForSpace(a, b)
  BY <1>1, <1>2, <1>3, SameGoesOn
<1>4. ASSUME SameButForSpace(a, b) PROVE Collapsed(a) = Collapsed(b)
  <2>1. SameButForSpace(Collapsed(a), b)
    BY <1>1, <1>2, <1>4, SameGoesOn
  <2>2. SameButForSpace(Collapsed(a), Collapsed(b))
    BY <1>1, <1>2, <2>1, SameGoesOn
  <2> QED BY <1>1, <2>2, CollapsedTidy, TidySame
<1> QED BY <1>3, <1>4

-----------------------------------------------------------------------------
(* Slices *)

LEMMA SliceIs ==
  ASSUME NEW t \in Seq(Char), NEW p \in 1..Len(t), NEW q \in 1..Len(t), p <= q
  PROVE  /\ SubSeq(t, p, q) \in Seq(Char) /\ Len(SubSeq(t, p, q)) = q - p + 1
         /\ \A i \in 1 .. q - p + 1 : p + i - 1 \in 1..Len(t) /\ SubSeq(t, p, q)[i] = t[p + i - 1]
<1>1. PICK n \in Nat : n = Len(t)
  BY Texts
<1>2. SubSeq(t, p, q) = [i \in 1 .. q - p + 1 |-> t[p + i - 1]]
  BY <1>1
<1>3. \A i \in 1 .. q - p + 1 : p + i - 1 \in 1..n
  BY <1>1
<1>4. q - p + 1 \in Nat
  BY <1>1
<1>5. \A i \in 1..n : t[i] \in Char
  BY <1>1, Texts
<1>6. SubSeq(t, p, q) \in [1 .. q - p + 1 -> Char]
  BY <1>2, <1>3, <1>5
<1>7. SubSeq(t, p, q) \in Seq(Char) /\ Len(SubSeq(t, p, q)) = q - p + 1
  BY <1>4, <1>6
<1> QED BY <1>1, <1>2, <1>3, <1>7

\* A slice that leaves out nothing but white space.
LEMMA SliceSame ==
  ASSUME NEW t \in Seq(Char), NEW p \in 1..Len(t), NEW q \in 1..Len(t), p <= q,
         Seen(t) \subseteq p..q
  PROVE  SameButForSpace(SubSeq(t, p, q), t)
<1>1. PICK l \in Nat : l = Len(t)
  BY Texts
<1>2. PICK s : s = SubSeq(t, p, q)
  OBVIOUS
<1>3. /\ s \in Seq(Char) /\ Len(s) = q - p + 1
      /\ \A i \in 1 .. q - p + 1 : p + i - 1 \in 1..l /\ s[i] = t[p + i - 1]
  BY <1>1, <1>2, SliceIs
<1>4. DOMAIN s = 1 .. q - p + 1 /\ DOMAIN t = 1..l
  BY <1>1, <1>3, Texts
<1>5. PICK z, r : z = Visible(s) /\ r = Len(z)
  OBVIOUS
<1>6. PICK y, n : y = Visible(t) /\ n = Len(y)
  OBVIOUS
<1>7. Lists(z, r, Seen(s)) /\ Lists(y, n, Seen(t)) /\ Seen(s) \in SUBSET Nat /\ Seen(t) \in SUBSET Nat
  BY <1>3, <1>5, <1>6, VisibleLists, Texts
<1>8. PICK d \in Int : d = p - 1
  OBVIOUS
<1>9. \A x \in Seen(t) : x - d \in Seen(s)
  <2>1. SUFFICES ASSUME NEW x \in Seen(t) PROVE x - d \in Seen(s)
    OBVIOUS
  <2>2. x \in p..q /\ t[x] \notin Space
    BY DEF Seen
  <2>3. x - d \in 1 .. q - p + 1 /\ p + (x - d) - 1 = x
    BY <1>8, <2>2
  <2> QED BY <1>3, <1>4, <2>2, <2>3 DEF Seen
<1>10. \A x \in Seen(s) : x + d \in Seen(t)
  <2>1. SUFFICES ASSUME NEW x \in Seen(s) PROVE x + d \in Seen(t)
    OBVIOUS
  <2>2. x \in 1 .. q - p + 1 /\ s[x] \notin Space
    BY <1>4 DEF Seen
  <2>3. x + d = p + x - 1
    BY <1>8, <2>2
  <2> QED BY <1>3, <1>4, <2>2, <2>3 DEF Seen
<1> DEFINE u == [k \in 1..n |-> y[k] - d]
<1>11. Lists(u, n, Seen(s))
  <2> HIDE DEF u
  <2>1. Lists([k \in 1..n |-> y[k] - d], n, Seen(s))
    BY <1>7, <1>9, <1>10, ListMoves
  <2> QED BY <2>1 DEF u
<1>12. r = n /\ z = u
  <2> HIDE DEF u
  <2> QED BY <1>7, <1>11, ListIsUnique
<1>13. n \in Nat /\ \A k \in 1..n : y[k] \in Seen(t) /\ y[k] \in Nat /\ z[k] = y[k] - d
  <2>1. n \in Nat /\ \A k \in 1..n : y[k] \in Seen(t) /\ y[k] \in Nat
    BY <1>7 DEF Lists
  <2> QED BY <1>12, <2>1
<1> HIDE DEF u
<1>14. ASSUME NEW k \in 1..n PROVE s[z[k]] = t[y[k]]
  <2>1. y[k] \in p..q
    BY <1>13
  <2>2. z[k] \in 1 .. q - p + 1 /\ p + z[k] - 1 = y[k]
    <3>1. p \in Nat /\ q \in Nat
      BY <1>1
    <3>2. PICK x \in p..q : x = y[k]
      BY <2>1
    <3>3. z[k] = x - (p - 1)
      BY <1>8, <1>13, <3>2
    <3> QED BY <3>1, <3>2, <3>3
  <2> QED BY <1>3, <2>2
<1>15. ASSUME NEW k \in 2..n PROVE z[k] = z[k - 1] + 1 <=> y[k] = y[k - 1] + 1
  <2>1. k \in 1..n /\ k - 1 \in 1..n
    BY <1>13
  <2>2. z[k] = y[k] - d /\ z[k - 1] = y[k - 1] - d /\ y[k] \in Nat /\ y[k - 1] \in Nat
    BY <1>13, <2>1
  <2> QED BY <2>2
<1>16. SameButForSpace(s, t)
  <2>1. /\ Len(Visible(s)) = Len(Visible(t))
        /\ \A k \in 1..Len(Visible(s)) : s[Visible(s)[k]] = t[Visible(t)[k]]
        /\ \A k \in 2..Len(Visible(s)) :
             Visible(s)[k] = Visible(s)[k - 1] + 1 <=> Visible(t)[k] = Visible(t)[k - 1] + 1
    BY <1>5, <1>6, <1>12, <1>14, <1>15
  <2> QED BY <1>3, <2>1, SameIs
<1> QED BY <1>2, <1>16

\* A slice of the collapsed text is the collapsed slice between the places its
\* ends come from.
LEMMA SliceCollapses ==
  ASSUME NEW w \in Seq(Char), NEW k, NEW l, k \in 1..Len(Collapsed(w)), l \in 1..Len(Collapsed(w)),
         k <= l, Collapsed(w)[k] \notin Space, Collapsed(w)[l] \notin Space
  PROVE  LET m == IndexMap(w) IN
         /\ m[k] \in 1..Len(w) /\ m[l] \in 1..Len(w) /\ m[k] <= m[l]
         /\ Collapsed(SubSeq(w, m[k], m[l])) = SubSeq(Collapsed(w), k, l)
<1>1. PICK m, n, c : m = IndexMap(w) /\ n = Len(m) /\ c = Collapsed(w)
  OBVIOUS
<1>2. PICK e \in Nat : e = Len(w) /\ DOMAIN w = 1..e
  BY Texts
<1>3. /\ Lists(m, n, Kept(w)) /\ n \in Nat /\ c \in Seq(Char) /\ Len(c) = n
      /\ \A i \in 1..n :
           /\ m[i] \in 1..e
           /\ w[m[i]] \in Space => c[i] = Blank
           /\ w[m[i]] \notin Space => c[i] = w[m[i]]
           /\ c[i] \in Space <=> w[m[i]] \in Space
  BY <1>1, <1>2, CollapsedIs
<1>4. /\ \A i, j \in 1..n : i < j => m[i] < m[j]
      /\ \A i \in 1..n : m[i] \in Kept(w)
      /\ \A y \in Kept(w) : \E i \in 1..n : m[i] = y
  BY <1>3 DEF Lists
<1>5. k \in 1..n /\ l \in 1..n
  BY <1>1, <1>3
<1>6. PICK p \in 1..e, q \in 1..e : p = m[k] /\ q = m[l]
  BY <1>3, <1>5
<1>7. p <= q /\ w[p] \notin Space /\ w[q] \notin Space
  <2>1. k = l \/ k < l
    BY <1>5
  <2>2. p <= q
    BY <1>4, <1>5, <1>6, <2>1
  <2> QED BY <1>1, <1>3, <1>5, <1>6, <2>2
<1>8. PICK s : s = SubSeq(w, p, q)
  OBVIOUS
<1>9. /\ s \in Seq(Char) /\ Len(s) = q - p + 1
      /\ \A i \in 1 .. q - p + 1 : p + i - 1 \in 1..e /\ s[i] = w[p + i - 1]
  BY <1>2, <1>7, <1>8, SliceIs
<1>10. DOMAIN s = 1 .. q - p + 1
  BY <1>9, Texts
<1>11. PICK h \in Nat : h = l - k + 1
  BY <1>5
<1> DEFINE u == [j \in 1..h |-> m[k + j - 1] - p + 1]
<1>12. \A j \in 1..h : /\ k + j - 1 \in 1..n /\ m[k + j - 1] \in p..q
                       /\ u[j] \in 1 .. q - p + 1 /\ p + u[j] - 1 = m[k + j - 1]
  <2>1. SUFFICES ASSUME NEW j \in 1..h
                 PROVE  /\ k + j - 1 \in 1..n /\ m[k + j - 1] \in p..q
                        /\ u[j] \in 1 .. q - p + 1 /\ p + u[j] - 1 = m[k + j - 1]
    OBVIOUS
  <2>2. PICK i \in 1..n : i = k + j - 1 /\ k <= i /\ i <= l
    BY <1>3, <1>5, <1>11
  <2>3. m[i] \in 1..e /\ p <= m[i] /\ m[i] <= q
    <3>1. (k = i \/ k < i) /\ (i = l \/ i < l)
      BY <1>5, <2>2
    <3>2. m[i] \in 1..e
      BY <1>3
    <3> QED BY <1>4, <1>5, <1>6, <3>1, <3>2
  <2>4. u[j] = m[i] - p + 1
    BY <2>2
  <2> HIDE DEF u
  <2> QED BY <2>2, <2>3, <2>4
<1>13. \A y \in 1 .. q - p + 1 : y \in Kept(s) <=> p + y - 1 \in Kept(w)
  <2>1. SUFFICES ASSUME NEW y \in 1 .. q - p + 1
                 PROVE  y \in Kept(s) <=> p + y - 1 \in Kept(w)
    OBVIOUS
  <2>2. PICK x \in 1..e : x = p + y - 1 /\ s[y] = w[x] /\ p <= x /\ x <= q
    BY <1>9
  <2>3. CASE w[x] \notin Space
    <3>1. y \in Kept(s)
      BY <1>10, <2>2, <2>3 DEF Kept
    <3>2. x \in Kept(w)
      BY <1>2, <2>3 DEF Kept
    <3> QED BY <2>2, <3>1, <3>2
  <2>4. CASE w[x] \in Space
    <3>1. p < x /\ x < q
      BY <1>7, <2>2, <2>4
    <3>2. y > 1 /\ y - 1 \in 1 .. q - p + 1 /\ p + (y - 1) - 1 = x - 1 /\ x > 1
      BY <2>2, <3>1
    <3>3. s[y - 1] = w[x - 1]
      BY <1>9, <3>2
    <3>4. \E j \in Seen(w) : j > x
      BY <1>2, <1>7, <3>1 DEF Seen
    <3>5. \E j \in Seen(s) : j > y
      <4>1. q - p + 1 \in 1 .. q - p + 1 /\ p + (q - p + 1) - 1 = q /\ q - p + 1 > y
        BY <1>7, <2>2, <3>1
      <4>2. s[q - p + 1] = w[q]
        BY <1>9, <4>1
      <4> QED BY <1>7, <1>10, <4>1, <4>2 DEF Seen
    <3>6. Follows(s, y) <=> Follows(w, x)
      BY <3>2, <3>3 DEF Follows
    <3>7. y \in Kept(s) <=> Follows(s, y)
      BY <1>10, <2>2, <2>4, <3>5 DEF Kept
    <3>8. x \in Kept(w) <=> Follows(w, x)
      BY <1>2, <2>4, <3>4 DEF Kept
    <3> QED BY <2>2, <3>6, <3>7, <3>8
  <2> QED BY <2>3, <2>4
<1>14. Lists(u, h, Kept(s))
  <2>1. \A j \in 1..h : u[j] \in Kept(s)
    <3> HIDE DEF u
    <3> QED BY <1>4, <1>12, <1>13
  <2>2. \A i, j \in 1..h : i < j => u[i] < u[j]
    <3>1. SUFFICES ASSUME NEW i \in 1..h, NEW j \in 1..h, i < j PROVE u[i] < u[j]
      OBVIOUS
    <3>2. k + i - 1 < k + j - 1
      BY <1>5, <3>1
    <3>3. m[k + i - 1] < m[k + j - 1]
      BY <1>4, <1>12, <3>2
    <3>4. /\ u[i] \in 1 .. q - p + 1 /\ p + u[i] - 1 = m[k + i - 1]
          /\ u[j] \in 1 .. q - p + 1 /\ p + u[j] - 1 = m[k + j - 1]
      BY <1>12
    <3>5. p + u[i] - 1 < p + u[j] - 1
      BY <3>3, <3>4
    <3> HIDE DEF u
    <3> QED BY <3>4, <3>5
  <2>3. \A y \in Kept(s) : \E j \in 1..h : u[j] = y
    <3>1. SUFFICES ASSUME NEW y \in Kept(s) PROVE \E j \in 1..h : u[j] = y
      OBVIOUS
    <3>2. y \in 1 .. q - p + 1
      BY <1>10 DEF Kept
    <3>3. PICK i \in 1..n : m[i] = p + y - 1
      BY <1>4, <1>13, <3>2
    <3>4. k <= i /\ i <= l
      <4>1. p <= m[i] /\ m[i] <= q
        BY <3>2, <3>3
      <4>2. ~(i < k) /\ ~(l < i)
        BY <1>3, <1>4, <1>5, <1>6, <4>1
      <4> QED BY <1>5, <4>2
    <3>5. i - k + 1 \in 1..h /\ k + (i - k + 1) - 1 = i
      BY <1>5, <1>11, <3>4
    <3>6. u[i - k + 1] = (p + y - 1) - p + 1
      BY <3>3, <3>5
    <3>7. u[i - k + 1] = y
      BY <3>2, <3>6
    <3> QED BY <3>5, <3>7
  <2>4. u \in [1..h -> Kept(s)]
    BY <2>1
  <2> HIDE DEF u
  <2> QED BY <2>2, <2>3, <2>4 DEF Lists
<1>15. PICK v, g : v = IndexMap(s) /\ g = Collapsed(s)
  OBVIOUS
<1>16. /\ Lists(v, Len(v), Kept(s)) /\ g \in Seq(Char) /\ Len(g) = Len(v)
       /\ \A i \in 1..Len(v) :
            /\ s[v[i]] \in Space => g[i] = Blank
            /\ s[v[i]] \notin Space => g[i] = s[v[i]]
  BY <1>9, <1>15, CollapsedIs
<1>17. Len(v) = h /\ v = u
  <2>1. Kept(s) \in SUBSET Nat
    BY <1>9, Texts
  <2> HIDE DEF u
  <2> QED BY <1>14, <1>16, <2>1, ListIsUnique
<1>18. PICK f : f = SubSeq(c, k, l)
  OBVIOUS
<1>19. /\ f \in Seq(Char) /\ Len(f) = h
       /\ \A i \in 1..h : f[i] = c[k + i - 1]
  BY <1>3, <1>5, <1>11, <1>18, SliceIs
<1>20. ASSUME NEW i \in 1..h PROVE g[i] = f[i]
  <2>1. PICK x \in 1..n : x = k + i - 1 /\ p + u[i] - 1 = m[x] /\ u[i] \in 1 .. q - p + 1
    BY <1>12
  <2>2. s[u[i]] = w[m[x]]
    <3> HIDE DEF u
    <3> QED BY <1>9, <2>1
  <2>3. f[i] = c[x]
    BY <1>19, <2>1
  <2> HIDE DEF u
  <2> QED BY <1>3, <1>16, <1>17, <2>2, <2>3
<1>21. g = f
  <2>1. g \in [1..h -> Char] /\ f \in [1..h -> Char]
    BY <1>16, <1>17, <1>19, LenProperties
  <2> QED BY <1>20, <2>1
<1> QED BY <1>1, <1>2, <1>6, <1>7, <1>8, <1>15, <1>18, <1>21

-----------------------------------------------------------------------------
Gaps(x, k) == {j \in 2..k : x[j] # x[j - 1] + 1}

\* A tidy text is as long as its visible characters and the gaps between them.
LEMMA TidyLength ==
  ASSUME NEW c \in Seq(Char), Tidy(c)
  PROVE  LET x == Visible(c) IN Len(c) = Len(x) + Cardinality(Gaps(x, Len(x)))
<1>1. PICK x, n : x = Visible(c) /\ n = Len(x) /\ n \in Nat
  BY VisibleLists, LenProperties
<1>2. /\ n = 0 => c = <<>>
      /\ n # 0 => x[1] = 1 /\ x[n] = Len(c)
      /\ \A k \in 1 .. n - 1 : x[k] \in Nat /\ (x[k + 1] = x[k] + 1 \/ x[k + 1] = x[k] + 2)
  BY <1>1, TidySteps
<1>3. \A k \in Nat : IsFiniteSet(Gaps(x, k)) /\ Cardinality(Gaps(x, k)) \in Nat
  <2>1. \A k \in Nat : IsFiniteSet(2..k) /\ Gaps(x, k) \subseteq 2..k
    BY FS_Interval DEF Gaps
  <2> QED BY <2>1, FS_Subset, FS_CardinalityType
<1>4. \A k \in {0, 1} : Gaps(x, k) = {} /\ Cardinality(Gaps(x, k)) = 0
  <2>1. \A k \in {0, 1} : Gaps(x, k) = {}
    BY DEF Gaps
  <2> QED BY <2>1, FS_EmptySet
<1> DEFINE N == {k \in Nat : k \in 1..n => x[k] = k + Cardinality(Gaps(x, k))}
<1>5. 0 \in N
  OBVIOUS
<1>6. ASSUME NEW k \in Nat, k \in N PROVE k + 1 \in N
  <2>1. SUFFICES ASSUME k + 1 \in 1..n PROVE x[k + 1] = (k + 1) + Cardinality(Gaps(x, k + 1))
    OBVIOUS
  <2>2. CASE k = 0
    <3>1. x[1] = 1 /\ Cardinality(Gaps(x, 1)) = 0
      BY <1>1, <1>2, <1>4, <2>1, <2>2
    <3> QED BY <2>2, <3>1
  <2>3. CASE k # 0
    <3>1. k \in 1 .. n - 1 /\ k \in 1..n /\ (k + 1) - 1 = k /\ k + 1 \in 2 .. k + 1
      BY <1>1, <2>1, <2>3
    <3>2. PICK g \in Nat : g = Cardinality(Gaps(x, k))
      BY <1>3
    <3>3. x[k] = k + g
      BY <1>6, <3>1, <3>2
    <3>4. k + 1 \notin Gaps(x, k)
      BY DEF Gaps
    <3>5. \A j \in 2 .. k + 1 : j = k + 1 \/ j \in 2..k
      OBVIOUS
    <3>6. CASE x[k + 1] = x[k] + 1
      <4>1. Gaps(x, k + 1) = Gaps(x, k)
        BY <3>1, <3>5, <3>6 DEF Gaps
      <4> QED BY <3>2, <3>3, <3>6, <4>1
    <3>7. CASE x[k + 1] = x[k] + 2
      <4>1. x[k + 1] # x[k] + 1
        BY <3>3, <3>7
      <4>2. Gaps(x, k + 1) = Gaps(x, k) \cup {k + 1}
        BY <3>1, <3>5, <4>1 DEF Gaps
      <4>3. Cardinality(Gaps(x, k + 1)) = g + 1
        BY <1>3, <3>2, <3>4, <4>2, FS_AddElement
      <4> QED BY <3>3, <3>7, <4>3
    <3> HIDE DEF N
    <3> QED BY <1>2, <3>1, <3>6, <3>7
  <2> QED BY <2>2, <2>3
<1>7. Nat \subseteq N
  <2> HIDE DEF N
  <2> QED BY <1>5, <1>6, SetInduction
<1>8. CASE n = 0
  <2>1. Len(c) = 0
    BY <1>2, <1>8
  <2> QED BY <1>1, <1>4, <1>8, <2>1
<1>9. CASE n # 0
  <2>1. n \in N /\ n \in 1..n
    <3> HIDE DEF N
    <3> QED BY <1>1, <1>7, <1>9
  <2> QED BY <1>1, <1>2, <1>9, <2>1
<1> QED BY <1>8, <1>9

\* Long enough is what collapses to something long enough.
LEMMA LengthIsCollapsed ==
  ASSUME NEW t \in Seq(Char)
  PROVE  /\ LongEnough(t) <=> Len(Collapsed(t)) >= MinChars
         /\ Visible(t) = <<>> <=> Collapsed(t) = <<>>
<1>1. PICK c : c = Collapsed(t) /\ c \in Seq(Char) /\ Tidy(c) /\ SameButForSpace(c, t)
  BY CollapsedIs, CollapsedTidy, CollapsedSame
<1>2. PICK x, y, n : x = Visible(c) /\ y = Visible(t) /\ n = Len(x) /\ n \in Nat /\ y \in Seq(Nat)
  BY <1>1, VisibleLists, LenProperties
<1>3. n = Len(y) /\ \A k \in 2..n : x[k] = x[k - 1] + 1 <=> y[k] = y[k - 1] + 1
  BY <1>1, <1>2, SameIs
<1>4. Gaps(x, n) = Gaps(y, n)
  BY <1>3 DEF Gaps
<1>5. Len(c) = n + Cardinality(Gaps(x, n))
  BY <1>1, <1>2, TidyLength
<1>6. LongEnough(t) <=> Len(c) >= MinChars
  <2>1. LongEnough(t) <=> n + Cardinality(Gaps(y, n)) >= MinChars
    BY <1>2, <1>3 DEF LongEnough, Gaps
  <2> QED BY <1>4, <1>5, <2>1
<1>7. y = <<>> <=> n = 0
  BY <1>2, <1>3
<1>8. n = 0 <=> c = <<>>
  <2>1. n = 0 => c = <<>>
    BY <1>1, <1>2, TidySteps
  <2>2. ASSUME c = <<>> PROVE n = 0
    <3>1. Len(c) = 0
      BY <2>2
    <3>2. Cardinality(Gaps(x, n)) \in Nat
      <4>1. IsFiniteSet(2..n) /\ Gaps(x, n) \subseteq 2..n
        BY <1>2, FS_Interval DEF Gaps
      <4> QED BY <4>1, FS_Subset, FS_CardinalityType
    <3> QED BY <1>2, <1>5, <3>1, <3>2
  <2> QED BY <2>1, <2>2
<1> QED BY <1>1, <1>2, <1>6, <1>7, <1>8

\* The search finds the first place, if there is one.
LEMMA FindFinds ==
  ASSUME NEW t \in Seq(Char), NEW s \in Seq(Char)
  PROVE  /\ Find(t, s) # 0 =>
              /\ Find(t, s) \in 1 .. Len(t) + 1 - Len(s)
              /\ SubSeq(t, Find(t, s), Find(t, s) + Len(s) - 1) = s
         /\ \A k \in 1 .. Len(t) + 1 - Len(s) :
              SubSeq(t, k, k + Len(s) - 1) = s => Find(t, s) # 0
<1>1. PICK a \in Nat, b \in Nat : a = Len(t) /\ b = Len(s)
  BY Texts
<1> DEFINE found == {i \in 1 .. a + 1 - b : SubSeq(t, i, i + b - 1) = s}
<1>2. Find(t, s) = IF found = {} THEN 0 ELSE Min(found)
  BY <1>1 DEF Find
<1>3. found \in SUBSET Nat /\ \A k \in found : k # 0
  OBVIOUS
<1>4. found # {} => Min(found) \in found
  <2> HIDE DEF found
  <2> QED BY <1>3, MinIs
<1>5. Find(t, s) # 0 <=> found # {}
  <2> HIDE DEF found
  <2> QED BY <1>2, <1>3, <1>4
<1>6. Find(t, s) # 0 => Find(t, s) \in found
  <2> HIDE DEF found
  <2> QED BY <1>2, <1>4, <1>5
<1> QED BY <1>1, <1>5, <1>6

-----------------------------------------------------------------------------
\* Where the collapsed span stands in the collapsed window, the window holds a
\* slice that says the same, ...
LEMMA FoundIsQuoted ==
  ASSUME NEW s \in Seq(Char), NEW w \in Seq(Char), NEW n, n = Len(Collapsed(s)), n # 0,
         NEW k \in 1 .. Len(Collapsed(w)) + 1 - n, SubSeq(Collapsed(w), k, k + n - 1) = Collapsed(s)
  PROVE  LET m == IndexMap(w) IN
         /\ <<m[k], m[k + n - 1]>> \in QuotedAt(s, w)
         /\ SubSeq(w, m[k], m[k + n - 1]) \in Seq(Char)
<1>1. PICK c, e : c = Collapsed(w) /\ e = Len(c) /\ e \in Nat /\ c \in Seq(Char)
  BY CollapsedIs, LenProperties
<1>2. PICK q : q = Collapsed(s) /\ q \in Seq(Char) /\ Tidy(q) /\ n = Len(q) /\ n \in Nat
      /\ DOMAIN q = 1..n
  BY CollapsedIs, CollapsedTidy, LenProperties
<1>3. PICK l : l = k + n - 1 /\ l \in 1..e /\ k \in 1..e /\ k <= l /\ n = l - k + 1
  BY <1>1, <1>2
<1>4. q[1] \notin Space /\ q[n] \notin Space
  <2>1. 1 \in 1..n /\ n \in 1..n
    BY <1>2
  <2> QED BY <1>2, <2>1 DEF Tidy
<1>5. SubSeq(c, k, l) = q /\ \A i \in 1..n : q[i] = c[k + i - 1]
  <2>1. SubSeq(c, k, l) = q
    BY <1>1, <1>2, <1>3
  <2>2. c \in Seq(Char) /\ k \in 1..Len(c) /\ l \in 1..Len(c) /\ k <= l
    BY <1>1, <1>3
  <2>3. \A i \in 1 .. l - k + 1 : SubSeq(c, k, l)[i] = c[k + i - 1]
    BY <2>2, SliceIs
  <2> QED BY <1>3, <2>1, <2>3
<1>6. c[k] \notin Space /\ c[l] \notin Space
  <2>1. 1 \in 1..n /\ n \in 1..n /\ k + 1 - 1 = k
    BY <1>2, <1>3
  <2>2. q[1] = c[k] /\ q[n] = c[l]
    BY <1>3, <1>5, <2>1
  <2> QED BY <1>4, <2>2
<1>7. PICK m : m = IndexMap(w)
  OBVIOUS
<1>8. /\ m[k] \in 1..Len(w) /\ m[l] \in 1..Len(w) /\ m[k] <= m[l]
      /\ Collapsed(SubSeq(w, m[k], m[l])) = SubSeq(c, k, l)
  BY <1>1, <1>3, <1>6, <1>7, SliceCollapses
<1>9. SubSeq(w, m[k], m[l]) \in Seq(Char)
  BY <1>8, SliceIs
<1>10. SameButForSpace(SubSeq(w, m[k], m[l]), s)
  BY <1>2, <1>5, <1>8, <1>9, SameIffCollapsed
<1>11. <<m[k], m[l]>> \in QuotedAt(s, w)
  <2>1. DOMAIN w = 1..Len(w)
    BY Texts
  <2> QED BY <1>8, <1>10, <2>1 DEF QuotedAt
<1> QED BY <1>3, <1>7, <1>9, <1>11

\* ... and where the window holds one, the collapsed span stands in it.
LEMMA QuotedIsFound ==
  ASSUME NEW s \in Seq(Char), NEW w \in Seq(Char), Collapsed(s) # <<>>, NEW p \in QuotedAt(s, w)
  PROVE  \E k \in 1 .. Len(Collapsed(w)) + 1 - Len(Collapsed(s)) :
           SubSeq(Collapsed(w), k, k + Len(Collapsed(s)) - 1) = Collapsed(s)
<1>1. PICK c, e, m : c = Collapsed(w) /\ e = Len(c) /\ m = IndexMap(w)
  OBVIOUS
<1>2. PICK z \in Nat : z = Len(w) /\ DOMAIN w = 1..z
  BY Texts
<1>3. /\ e \in Nat /\ c \in Seq(Char) /\ Lists(m, e, Kept(w))
      /\ \A i \in 1..e : c[i] \in Space <=> w[m[i]] \in Space
  BY <1>1, CollapsedIs
<1>4. PICK a \in 1..z, b \in 1..z : p = <<a, b>> /\ a <= b /\ SameButForSpace(SubSeq(w, a, b), s)
  BY <1>2 DEF QuotedAt
<1>5. PICK t : t = SubSeq(w, a, b)
  OBVIOUS
<1>6. /\ t \in Seq(Char) /\ Len(t) = b - a + 1
      /\ \A i \in 1 .. b - a + 1 : a + i - 1 \in 1..z /\ t[i] = w[a + i - 1]
  BY <1>2, <1>4, <1>5, SliceIs
<1>7. Collapsed(t) = Collapsed(s) /\ Visible(t) # <<>>
  <2>1. Collapsed(t) = Collapsed(s)
    BY <1>4, <1>5, <1>6, SameIffCollapsed
  <2> QED BY <1>6, <2>1, LengthIsCollapsed
<1>8. PICK x, n : x = Visible(t) /\ n = Len(x)
  OBVIOUS
<1>9. Lists(x, n, Seen(t)) /\ x \in Seq(Nat) /\ x # <<>> /\ Seen(t) \in SUBSET Nat /\ DOMAIN t = 1 .. b - a + 1
  BY <1>6, <1>7, <1>8, VisibleLists, Texts
<1>10. n \in Nat /\ n # 0 /\ 1 \in 1..n /\ n \in 1..n
  BY <1>8, <1>9, EmptySeq
<1>11. PICK u \in Seen(t), v \in Seen(t) : u = x[1] /\ v = x[n]
  BY <1>9, <1>10 DEF Lists
<1>12. Seen(t) \subseteq u..v /\ u <= v
  <2>1. \A y \in Seen(t) : u <= y /\ y <= v
    BY <1>9, <1>11, ListGaps
  <2> QED BY <1>9, <1>11, <2>1
<1>13. u \in 1 .. b - a + 1 /\ v \in 1 .. b - a + 1 /\ t[u] \notin Space /\ t[v] \notin Space
  BY <1>9, <1>11 DEF Seen
<1>14. SameButForSpace(SubSeq(t, u, v), t)
  BY <1>6, <1>12, <1>13, SliceSame
<1>15. PICK g, h : g = a + u - 1 /\ h = a + v - 1
  OBVIOUS
<1>16. g \in 1..z /\ h \in 1..z /\ g <= h /\ w[g] \notin Space /\ w[h] \notin Space
  <2>1. g \in 1..z /\ h \in 1..z /\ t[u] = w[g] /\ t[v] = w[h]
    BY <1>6, <1>13, <1>15
  <2> QED BY <1>12, <1>13, <1>15, <2>1
<1>17. SubSeq(w, g, h) = SubSeq(t, u, v)
  <2>1. PICK r \in Nat : r = v - u + 1
    BY <1>12, <1>13
  <2>2. PICK x1, x2 : x1 = SubSeq(w, g, h) /\ x2 = SubSeq(t, u, v)
    OBVIOUS
  <2>3. /\ x2 \in Seq(Char) /\ Len(x2) = r
        /\ \A i \in 1..r : u + i - 1 \in 1 .. b - a + 1 /\ x2[i] = t[u + i - 1]
    <3>1. t \in Seq(Char) /\ u \in 1..Len(t) /\ v \in 1..Len(t) /\ u <= v
      BY <1>6, <1>12, <1>13
    <3>2. /\ SubSeq(t, u, v) \in Seq(Char) /\ Len(SubSeq(t, u, v)) = v - u + 1
          /\ \A i \in 1 .. v - u + 1 :
               u + i - 1 \in 1..Len(t) /\ SubSeq(t, u, v)[i] = t[u + i - 1]
      BY <3>1, SliceIs
    <3>3. Len(t) = b - a + 1
      BY <1>6
    <3> QED BY <2>1, <2>2, <3>2, <3>3
  <2>4. h - g + 1 = r
    BY <1>4, <1>13, <1>15, <2>1
  <2>5. x1 \in Seq(Char) /\ Len(x1) = r /\ \A i \in 1..r : x1[i] = w[g + i - 1]
    BY <1>2, <1>16, <2>2, <2>4, SliceIs
  <2>6. ASSUME NEW i \in 1..r PROVE x1[i] = x2[i]
    <3>1. u + i - 1 \in 1 .. b - a + 1 /\ x2[i] = t[u + i - 1]
      BY <2>3
    <3>2. t[u + i - 1] = w[a + (u + i - 1) - 1]
      BY <1>6, <3>1
    <3>3. a + (u + i - 1) - 1 = g + i - 1
      BY <1>4, <1>13, <1>15
    <3> QED BY <2>5, <3>1, <3>2, <3>3
  <2>7. x1 \in [1..r -> Char] /\ x2 \in [1..r -> Char]
    BY <2>3, <2>5, LenProperties
  <2>8. x1 = x2
    BY <2>6, <2>7
  <2> QED BY <2>2, <2>8
<1>18. PICK i \in 1..e, j \in 1..e : m[i] = g /\ m[j] = h
  <2>1. g \in Kept(w) /\ h \in Kept(w)
    BY <1>2, <1>16 DEF Kept
  <2> QED BY <1>3, <2>1 DEF Lists
<1>19. i <= j
  <2>1. ~(m[j] < m[i])
    BY <1>16, <1>18
  <2>2. j < i => m[j] < m[i]
    BY <1>3 DEF Lists
  <2> QED BY <1>3, <2>1, <2>2
<1>20. c[i] \notin Space /\ c[j] \notin Space
  BY <1>3, <1>16, <1>18
<1>21. Collapsed(SubSeq(w, g, h)) = SubSeq(c, i, j)
  BY <1>1, <1>18, <1>19, <1>20, SliceCollapses
<1>22. Collapsed(SubSeq(t, u, v)) = Collapsed(s)
  <2>1. SubSeq(t, u, v) \in Seq(Char)
    BY <1>6, <1>12, <1>13, SliceIs
  <2> QED BY <1>6, <1>7, <1>14, <2>1, SameIffCollapsed
<1>23. SubSeq(c, i, j) = Collapsed(s)
  BY <1>17, <1>21, <1>22
<1>24. PICK r \in Nat : r = Len(Collapsed(s)) /\ r = j - i + 1
  <2>1. Len(SubSeq(c, i, j)) = j - i + 1
    BY <1>1, <1>3, <1>19, SliceIs
  <2> QED BY <1>19, <1>23, <2>1
<1>25. i \in 1 .. e + 1 - r /\ i + r - 1 = j
  BY <1>3, <1>19, <1>24
<1> QED BY <1>1, <1>23, <1>24, <1>25

-----------------------------------------------------------------------------
\* Case is folded alike before and after white space is collapsed.
LEMMA FoldCollapses ==
  ASSUME NEW t \in Seq(Char)
  PROVE  /\ Fold(t) \in Seq(Char) /\ Len(Fold(t)) = Len(t)
         /\ Collapsed(Fold(t)) = Fold(Collapsed(t))
<1>1. PICK l \in Nat : l = Len(t) /\ DOMAIN t = 1..l /\ \A i \in 1..l : t[i] \in Char
  BY Texts
<1>2. PICK f : f = Fold(t)
  OBVIOUS
<1>3. f = [i \in 1..l |-> Folded[t[i]]]
  BY <1>1, <1>2 DEF Fold
<1>4. /\ Folded \in [Char -> Char] /\ Blank \in Space
      /\ \A c \in Char : Folded[c] \in Space <=> c \in Space
      /\ \A c \in Char : c \in Space => Folded[c] = c
      /\ Space \subseteq Char
  BY EvidenceAssumption
<1>5. f \in Seq(Char) /\ Len(f) = l /\ DOMAIN f = 1..l
  <2>1. f \in [1..l -> Char]
    BY <1>1, <1>3, <1>4
  <2> QED BY <2>1
<1>6. \A i \in 1..l : f[i] = Folded[t[i]] /\ (f[i] \in Space <=> t[i] \in Space)
  BY <1>1, <1>3, <1>4
<1>7. Kept(f) = Kept(t)
  <2>1. Seen(f) = Seen(t)
    BY <1>1, <1>5, <1>6 DEF Seen
  <2>2. \A i \in 1..l : Follows(f, i) <=> Follows(t, i)
    <3>1. \A i \in 1..l : i > 1 => i - 1 \in 1..l
      OBVIOUS
    <3> QED BY <1>6, <3>1 DEF Follows
  <2> QED BY <1>1, <1>5, <1>6, <2>1, <2>2 DEF Kept
<1>8. PICK m, n, c : m = IndexMap(t) /\ n = Len(m) /\ c = Collapsed(t)
  OBVIOUS
<1>9. /\ Lists(m, n, Kept(t)) /\ n \in Nat /\ c \in [1..n -> Char] /\ c \in Seq(Char)
      /\ \A k \in 1..n :
           /\ m[k] \in 1..l
           /\ t[m[k]] \in Space => c[k] = Blank
           /\ t[m[k]] \notin Space => c[k] = t[m[k]]
  BY <1>1, <1>8, CollapsedIs
<1>10. PICK v, d : v = IndexMap(f) /\ d = Collapsed(f)
  OBVIOUS
<1>11. /\ Lists(v, Len(v), Kept(f)) /\ d \in [1..Len(v) -> Char]
       /\ \A k \in 1..Len(v) :
            /\ f[v[k]] \in Space => d[k] = Blank
            /\ f[v[k]] \notin Space => d[k] = f[v[k]]
  BY <1>5, <1>10, CollapsedIs
<1>12. Len(v) = n /\ v = m
  <2>1. Kept(t) \in SUBSET Nat
    BY Texts
  <2> QED BY <1>7, <1>9, <1>11, <2>1, ListIsUnique
<1>13. ASSUME NEW k \in 1..n PROVE d[k] = Folded[c[k]]
  <2>1. PICK x \in 1..l : x = m[k]
    BY <1>9
  <2>2. CASE t[x] \in Space
    <3>1. d[k] = Blank /\ c[k] = Blank
      BY <1>6, <1>9, <1>11, <1>12, <2>1, <2>2
    <3> QED BY <1>4, <3>1
  <2>3. CASE t[x] \notin Space
    <3>1. d[k] = f[x] /\ c[k] = t[x]
      BY <1>6, <1>9, <1>11, <1>12, <2>1, <2>3
    <3> QED BY <1>6, <3>1
  <2> QED BY <2>2, <2>3
<1>14. d = Fold(c)
  <2>1. DOMAIN c = 1..n
    BY <1>9
  <2>2. Fold(c) = [k \in 1..n |-> Folded[c[k]]]
    BY <2>1 DEF Fold
  <2>3. d \in [1..n -> Char]
    BY <1>11, <1>12
  <2> QED BY <1>13, <2>2, <2>3
<1> QED BY <1>1, <1>2, <1>5, <1>8, <1>10, <1>14

\* Trimming a span leaves out white space only.
LEMMA TrimIs ==
  ASSUME NEW t \in Seq(Char), Visible(t) # <<>>
  PROVE  \E lo, hi \in 1..Len(t) :
           lo <= hi /\ Trim(t) = SubSeq(t, lo, hi) /\ Seen(t) \subseteq lo..hi
<1>1. PICK l \in Nat : l = Len(t) /\ DOMAIN t = 1..l
  BY Texts
<1> DEFINE kept == {i \in DOMAIN t : t[i] \notin Stripped}
<1>2. Seen(t) \subseteq kept
  BY EvidenceAssumption DEF Seen
<1>3. kept # {}
  <2>1. Seen(t) # {}
    <3>1. SUFFICES ASSUME Seen(t) = {} PROVE FALSE
      OBVIOUS
    <3>2. Lists(Visible(t), Len(Visible(t)), {}) /\ Visible(t) \in Seq(Nat)
      BY <3>1, VisibleLists
    <3>3. Len(Visible(t)) = 0
      <4>1. Len(Visible(t)) \in Nat /\ \A i \in 1..Len(Visible(t)) : Visible(t)[i] \in {}
        BY <3>2 DEF Lists
      <4>2. Len(Visible(t)) # 0 => 1 \in 1..Len(Visible(t))
        BY <4>1
      <4> QED BY <4>1, <4>2
    <3> QED BY <3>2, <3>3, EmptySeq
  <2> QED BY <1>2, <2>1
<1>4. kept \in SUBSET Nat /\ \A y \in kept : y <= l
  BY <1>1
<1>5. kept \subseteq 1..l
  BY <1>1
<1>6. Trim(t) = SubSeq(t, Min(kept), Max(kept))
  BY <1>3 DEF Trim
<1> HIDE DEF kept
<1>7. /\ Min(kept) \in kept /\ \A y \in kept : Min(kept) <= y
      /\ Max(kept) \in kept /\ \A y \in kept : y <= Max(kept)
  BY <1>3, <1>4, MinIs, MaxIs
<1>8. Seen(t) \subseteq Min(kept)..Max(kept)
  <2>1. PICK lo \in Nat, hi \in Nat : lo = Min(kept) /\ hi = Max(kept)
    BY <1>4, <1>7
  <2>2. \A y \in kept : y \in lo..hi
    BY <1>4, <1>7, <2>1
  <2> QED BY <1>2, <2>1, <2>2
<1> QED BY <1>1, <1>5, <1>6, <1>7, <1>8

\* What is found as it stands is quoted.
LEMMA ExactIsQuoted ==
  ASSUME NEW s \in Seq(Char), NEW w \in Seq(Char), Visible(s) # <<>>, Find(w, Trim(s)) # 0
  PROVE  <<Find(w, Trim(s)), Find(w, Trim(s)) + Len(Trim(s)) - 1>> \in QuotedAt(s, w)
<1>1. PICK lo \in 1..Len(s), hi \in 1..Len(s) :
        lo <= hi /\ Trim(s) = SubSeq(s, lo, hi) /\ Seen(s) \subseteq lo..hi
  BY TrimIs
<1>2. PICK r, a : r = Trim(s) /\ a = Find(w, r)
  OBVIOUS
<1>3. r \in Seq(Char) /\ Len(r) = hi - lo + 1 /\ SameButForSpace(r, s)
  BY <1>1, <1>2, SliceIs, SliceSame
<1>4. PICK n \in Nat : n = Len(r) /\ n >= 1
  <2>1. Len(s) \in Nat
    BY Texts
  <2> QED BY <1>1, <1>3, <2>1
<1>5. a \in 1 .. Len(w) + 1 - n /\ SubSeq(w, a, a + n - 1) = r
  BY <1>2, <1>3, <1>4, FindFinds
<1>6. PICK b : b = a + n - 1
  OBVIOUS
<1>7. DOMAIN w = 1..Len(w) /\ Len(w) \in Nat
  BY Texts
<1>8. a \in DOMAIN w /\ b \in DOMAIN w /\ a <= b
  BY <1>4, <1>5, <1>6, <1>7
<1>9. SameButForSpace(SubSeq(w, a, b), s)
  BY <1>3, <1>5, <1>6
<1>10. <<a, b>> \in QuotedAt(s, w)
  BY <1>8, <1>9 DEF QuotedAt
<1> QED BY <1>2, <1>4, <1>6, <1>10

\* Searching the collapsed window for the collapsed span decides whether it is
\* quoted, and finds where.
LEMMA ReflowDecides ==
  ASSUME NEW s \in Seq(Char), NEW w \in Seq(Char), Collapsed(s) # <<>>
  PROVE  LET found == Find(Collapsed(w), Collapsed(s))  m == IndexMap(w) IN
         /\ found # 0 <=> QuotedAt(s, w) # {}
         /\ found # 0 => <<m[found], m[found + Len(Collapsed(s)) - 1]>> \in QuotedAt(s, w)
<1>1. PICK q, c, n, a :
        q = Collapsed(s) /\ c = Collapsed(w) /\ n = Len(q) /\ a = Find(c, q)
  OBVIOUS
<1>2. q \in Seq(Char) /\ c \in Seq(Char) /\ n # 0
  BY <1>1, CollapsedIs, EmptySeq
<1>3. /\ a # 0 => a \in 1 .. Len(c) + 1 - n /\ SubSeq(c, a, a + n - 1) = q
      /\ \A k \in 1 .. Len(c) + 1 - n : SubSeq(c, k, k + n - 1) = q => a # 0
  BY <1>1, <1>2, FindFinds
<1>4. a # 0 => <<IndexMap(w)[a], IndexMap(w)[a + n - 1]>> \in QuotedAt(s, w)
  BY <1>1, <1>2, <1>3, FoundIsQuoted
<1>5. QuotedAt(s, w) # {} => a # 0
  BY <1>1, <1>3, QuotedIsFound
<1> QED BY <1>1, <1>4, <1>5

\* evidence.py, for every span and every window: the check accepts a span exactly
\* if it is long enough and the window says the same but for white space, cuts out
\* such a passage, and tells a wrong case from a wrong text.
THEOREM EvidenceMeetsReference == \A span, window \in Seq(Char) : MeetsReference(span, window)
<1> SUFFICES ASSUME NEW span \in Seq(Char), NEW window \in Seq(Char)
             PROVE  MeetsReference(span, window)
  OBVIOUS
<1>1. PICK q, tr, ex, m, re :
        /\ q = Collapsed(span) /\ tr = Trim(span) /\ ex = Find(window, tr)
        /\ m = IndexMap(window) /\ re = Find(Collapsed(window), q)
  OBVIOUS
<1>2. PICK fo : fo = Find(Fold(Collapsed(window)), Fold(q))
  OBVIOUS
<1>3. PICK check : check = CheckEvidence(span, window)
  OBVIOUS
<1>4. PICK Q, F : Q = QuotedAt(span, window) /\ F = QuotedAt(Fold(span), Fold(window))
  OBVIOUS
<1>5. PICK proper \in BOOLEAN : proper <=> LongEnough(span) /\ Visible(span) # <<>>
  OBVIOUS
<1>6. q \in Seq(Char) /\ Len(q) \in Nat /\ MinChars \in Nat
  BY <1>1, CollapsedIs, LenProperties, EvidenceAssumption
<1>7. proper <=> q # <<>> /\ ~(Len(q) < MinChars)
  <2>1. LongEnough(span) <=> Len(q) >= MinChars
    BY <1>1, LengthIsCollapsed
  <2>2. Visible(span) # <<>> <=> q # <<>>
    BY <1>1, LengthIsCollapsed
  <2> QED BY <1>5, <1>6, <2>1, <2>2
<1>8. ASSUME q # <<>>, ex # 0 PROVE <<ex, ex + Len(tr) - 1>> \in Q
  <2>1. Visible(span) # <<>>
    BY <1>1, <1>8, LengthIsCollapsed
  <2> QED BY <1>1, <1>4, <1>8, <2>1, ExactIsQuoted
<1>9. ASSUME q # <<>>
      PROVE  (re # 0 <=> Q # {}) /\ (re # 0 => <<m[re], m[re + Len(q) - 1]>> \in Q)
  BY <1>1, <1>4, <1>9, ReflowDecides
<1>10. ASSUME q # <<>> PROVE fo # 0 <=> F # {}
  <2>1. Fold(span) \in Seq(Char) /\ Fold(window) \in Seq(Char)
    BY FoldCollapses
  <2>2. Fold(q) = Collapsed(Fold(span)) /\ Fold(Collapsed(window)) = Collapsed(Fold(window))
    BY <1>1, FoldCollapses
  <2>3. Fold(q) # <<>>
    <3>1. Len(q) # 0
      BY <1>6, <1>10, EmptySeq
    <3>2. Fold(q) \in Seq(Char) /\ Len(Fold(q)) = Len(q)
      BY <1>6, FoldCollapses
    <3>3. Fold(q) = <<>> => Len(Fold(q)) = 0
      BY EmptySeq
    <3> QED BY <3>1, <3>2, <3>3
  <2> QED BY <1>2, <1>4, <2>1, <2>2, <2>3, ReflowDecides
<1>11. check = IF q = <<>> THEN Rejected("empty")
               ELSE IF Len(q) < MinChars THEN Rejected("too_short")
               ELSE IF ex # 0 THEN Slice("exact", window, ex, ex + Len(tr) - 1)
               ELSE IF re # 0 THEN Slice("reflowed", window, m[re], m[re + Len(q) - 1])
               ELSE IF fo # 0 THEN Rejected("case_mismatch_only")
               ELSE Rejected("not_in_window")
  BY <1>1, <1>2, <1>3 DEF CheckEvidence
<1>12. /\ \A r : Rejected(r).verdict = "rejected" /\ Rejected(r).reason = r
       /\ \A v, a, b : LET x == Slice(v, window, a, b) IN
            x.verdict = v /\ x.reason = "none" /\ x.first = a /\ x.last = b
            /\ x.span = SubSeq(window, a, b)
  BY DEF Rejected, Slice
<1>13. /\ check.verdict # "rejected" <=> proper /\ Q # {}
       /\ check.verdict # "rejected" => /\ <<check.first, check.last>> \in Q
                                        /\ check.span = SubSeq(window, check.first, check.last)
       /\ check.reason = "case_mismatch_only" <=> proper /\ Q = {} /\ F # {}
  <2>1. CASE ~proper
    BY <1>7, <1>11, <1>12, <2>1
  <2>2. CASE proper /\ ex # 0
    <3>1. check = Slice("exact", window, ex, ex + Len(tr) - 1)
      BY <1>7, <1>11, <2>2
    <3>2. <<ex, ex + Len(tr) - 1>> \in Q
      BY <1>7, <1>8, <2>2
    <3>3. /\ check.verdict = "exact" /\ check.reason = "none"
          /\ check.first = ex /\ check.last = ex + Len(tr) - 1
          /\ check.span = SubSeq(window, check.first, check.last)
      BY <1>12, <3>1
    <3>4. check.verdict # "rejected" /\ check.reason # "case_mismatch_only"
      BY <3>3
    <3>5. <<check.first, check.last>> \in Q /\ Q # {}
      BY <3>2, <3>3
    <3> QED BY <2>2, <3>3, <3>4, <3>5
  <2>3. CASE proper /\ ex = 0 /\ re # 0
    <3>1. check = Slice("reflowed", window, m[re], m[re + Len(q) - 1])
      BY <1>7, <1>11, <2>3
    <3>2. <<m[re], m[re + Len(q) - 1]>> \in Q
      BY <1>7, <1>9, <2>3
    <3>3. /\ check.verdict = "reflowed" /\ check.reason = "none"
          /\ check.first = m[re] /\ check.last = m[re + Len(q) - 1]
          /\ check.span = SubSeq(window, check.first, check.last)
      BY <1>12, <3>1
    <3>4. check.verdict # "rejected" /\ check.reason # "case_mismatch_only"
      BY <3>3
    <3>5. <<check.first, check.last>> \in Q /\ Q # {}
      BY <3>2, <3>3
    <3> QED BY <2>3, <3>3, <3>4, <3>5
  <2>4. CASE proper /\ ex = 0 /\ re = 0
    <3>1. Q = {} /\ (fo # 0 <=> F # {})
      BY <1>7, <1>9, <1>10, <2>4
    <3>2. check = IF fo # 0 THEN Rejected("case_mismatch_only") ELSE Rejected("not_in_window")
      BY <1>7, <1>11, <2>4
    <3> QED BY <1>12, <2>4, <3>1, <3>2
  <2> QED BY <2>1, <2>2, <2>3, <2>4
<1> QED BY <1>3, <1>4, <1>5, <1>13 DEF MeetsReference

\* The same, of every span and window that is put to the check.
THEOREM ChecksAreExact == PSpec => []EvidenceIsExact
<1> DEFINE Typed == probe \in [span : Seq(Char), window : Seq(Char)]
<1>1. noProbe \in [span : Seq(Char), window : Seq(Char)]
  BY DEF noProbe
<1>2. PInit => Typed
  BY <1>1, ProbesAssumption DEF PInit
<1>3. Typed /\ [Next /\ probe' = noProbe]_pvars => Typed'
  BY <1>1 DEF pvars
<1>4. Typed => EvidenceIsExact
  BY EvidenceMeetsReference DEF EvidenceIsExact
<1> QED BY <1>2, <1>3, <1>4, PTL DEF PSpec

\* Whatever the check accepts of a claim it finds in the claim's section, the
\* same but for white space and long enough.
LEMMA CheckKeepsItsWord ==
  ASSUME NEW i \in DOMAIN Windows, NEW quote \in Seq(Char), NEW check,
         check = CheckEvidence(quote, WindowText[i]), check.verdict # "rejected"
  PROVE  /\ SameButForSpace(check.span, quote)
         /\ LongEnough(check.span) /\ Find(WindowText[i], check.span) # 0
<1>1. PICK w \in Seq(Char) : w = WindowText[i]
  BY WindowsAssumption
<1>2. PICK a, b, s : a = check.first /\ b = check.last /\ s = check.span
  OBVIOUS
<1>3. LongEnough(quote) /\ <<a, b>> \in QuotedAt(quote, w) /\ s = SubSeq(w, a, b)
  <2>1. MeetsReference(quote, w)
    BY EvidenceMeetsReference
  <2> QED BY <1>1, <1>2, <2>1 DEF MeetsReference
<1>4. /\ a \in 1..Len(w) /\ b \in 1..Len(w) /\ a <= b /\ Len(w) \in Nat
      /\ SameButForSpace(SubSeq(w, a, b), quote)
  <2>1. DOMAIN w = 1..Len(w) /\ Len(w) \in Nat
    BY Texts
  <2> QED BY <1>3, <2>1 DEF QuotedAt
<1>5. s \in Seq(Char) /\ Len(s) = b - a + 1
  BY <1>3, <1>4, SliceIs
<1>6. SameButForSpace(s, quote)
  BY <1>3, <1>4
<1>7. LongEnough(s)
  <2>1. Collapsed(s) = Collapsed(quote)
    BY <1>5, <1>6, SameIffCollapsed
  <2>2. LongEnough(quote) <=> Len(Collapsed(quote)) >= MinChars
    BY LengthIsCollapsed
  <2>3. LongEnough(s) <=> Len(Collapsed(s)) >= MinChars
    BY <1>5, LengthIsCollapsed
  <2> QED BY <1>3, <2>1, <2>2, <2>3
<1>8. Find(w, s) # 0
  <2>1. a + Len(s) - 1 = b /\ a \in 1 .. Len(w) + 1 - Len(s)
    BY <1>4, <1>5
  <2> QED BY <1>3, <1>5, <2>1, FindFinds
<1> QED BY <1>1, <1>2, <1>6, <1>7, <1>8

\* Every model edge rests on a claim about two nodes of one section and on a
\* passage of that section, whatever was answered and whatever is in the texts.
THEOREM EdgesAreGrounded == Spec => []Grounded
<1>1. LInv => Grounded
  <2> SUFFICES ASSUME LInv, NEW id \in DOMAIN bundle, id.by = "model"
      PROVE  \E i \in DOMAIN Windows : \E answer \in Responses : \E j \in DOMAIN answer :
               /\ KeyOf(answer[j]) = id.key
               /\ SameButForSpace(bundle[id].span, answer[j].quote)
               /\ LongEnough(bundle[id].span) /\ Find(WindowText[i], bundle[id].span) # 0
               /\ Ends(id.key) \subseteq Windows[i] /\ id.key.src # id.key.dst
               /\ bundle[id].confidence <= Strong
    BY DEF Grounded
  <2>1. PICK i \in DOMAIN Windows : \E answer \in Responses : \E j \in ValidClaims(answer, i) :
          KeyOf(answer[j]) = id.key /\ bundle[id] = EntryOf(answer, j, i)
    BY DEF LInv, Filed, Backed
  <2>2. PICK answer \in Responses : \E j \in ValidClaims(answer, i) :
          KeyOf(answer[j]) = id.key /\ bundle[id] = EntryOf(answer, j, i)
    BY <2>1
  <2>3. PICK j \in ValidClaims(answer, i) :
          KeyOf(answer[j]) = id.key /\ bundle[id] = EntryOf(answer, j, i)
    BY <2>2
  <2>4. /\ j \in DOMAIN answer /\ Check(answer[j], i).verdict # "rejected"
        /\ Ends(answer[j]) \subseteq Windows[i] /\ answer[j].src # answer[j].dst
    BY <2>3 DEF ValidClaims, Valid
  <2>5. Ends(id.key) \subseteq Windows[i] /\ id.key.src # id.key.dst
    BY <2>3, <2>4 DEF KeyOf, Ends
  <2>6. bundle[id].span = Check(answer[j], i).span /\ bundle[id].confidence <= Strong
    <3>1. Clamp(answer[j].confidence) \in 0..Strong
      BY <2>4, AnswersAreClaims, ClampInRange
    <3>2. /\ bundle[id].span = Check(answer[j], i).span
          /\ bundle[id].confidence = Clamp(answer[j].confidence)
      BY <2>3 DEF EntryOf
    <3>3. \A c \in 0..Strong : c <= Strong
      BY DEF Strong
    <3> QED BY <3>1, <3>2, <3>3
  <2>7. /\ SameButForSpace(bundle[id].span, answer[j].quote)
        /\ LongEnough(bundle[id].span) /\ Find(WindowText[i], bundle[id].span) # 0
    <3>1. answer[j] \in Claims
      <4>1. answer \in Seq(Claims)
        BY ResponsesAssumption
      <4> QED BY <2>4, <4>1
    <3>2. answer[j].quote \in Seq(Char)
      BY <3>1 DEF Claims
    <3>3. PICK check : check = Check(answer[j], i)
      OBVIOUS
    <3>4. check = CheckEvidence(answer[j].quote, WindowText[i]) /\ check.verdict # "rejected"
      BY <2>4, <3>3 DEF Check
    <3>5. /\ SameButForSpace(check.span, answer[j].quote)
          /\ LongEnough(check.span) /\ Find(WindowText[i], check.span) # 0
      BY <3>2, <3>4, CheckKeepsItsWord
    <3> QED BY <2>6, <3>3, <3>5
  <2> QED BY <2>3, <2>4, <2>5, <2>6, <2>7
<1> QED BY <1>1, RunsHoldTruth, PTL
=============================================================================
